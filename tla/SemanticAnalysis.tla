-------------------------- MODULE SemanticAnalysis --------------------------
(***************************************************************************)
(* Names and jumps in the semantic analysis: the visitor of                *)
(* src/src/semantic_analyzer over the declarations and statements of a     *)
(* translation unit, with the table of SymbolTable.                        *)
(*                                                                         *)
(* The environment writes a unit one construct at a time, in the order in  *)
(* which the visitor comes to them: "source" is what has been written and  *)
(* "path" the constructs that are open, by their places in source.  A      *)
(* construct has the path it was written in, and that is all the rules of  *)
(* C below look at: a declaration is visible where its path is a prefix of *)
(* the path, a jump belongs to a construct on its path.  Expressions are   *)
(* reduced to the names in them: wherever a name may be written, Identify  *)
(* is what the visitor makes of it.                                        *)
(***************************************************************************)
EXTENDS SymbolTable, SequencesExt

CONSTANTS Names,        \* of objects, functions, enumerators and labels
          CaseValues,
          Menus         \* what a unit may be written from, and how long it gets

VARIABLES source, path, menu,             \* the environment
          table,                          \* SymbolTable
          jumps,                          \* the stacks and labels below
          store,                          \* AnnotationStore, by place in source
          frames,                         \* what is kept of each function
          hasErrors

vars == <<source, path, menu, table, jumps, store, frames, hasErrors>>

(* loopStack [at, exit, cont], switchStack (places), namedLabels (pairs),  *)
(* pendingGotos (places) and the labels given out.                         *)
NoJumps ==
    [loopStack |-> <<>>, switchStack |-> <<>>, namedLabels |-> {}, pendingGotos |-> {},
     nextLabel |-> 0]

NoNote == <<>>

Here == Len(source) + 1

Tag(d) == source[d].what

Open(what) == path # <<>> /\ Tag(Last(path)) \in what

Offered == Menus[menu]

(* The program is refused on its first error: nothing after it is written. *)
May(what) ==
    /\ ~hasErrors
    /\ what \in Offered.constructs
    /\ Len(source) < Offered.length

Write(items, notes) ==
    /\ source' = source \o items
    /\ store' = store \o notes
    /\ UNCHANGED menu

Written(rec) == [f \in DOMAIN rec \cup {"path"} |-> IF f = "path" THEN path ELSE rec[f]]

-----------------------------------------------------------------------------
(* Names.                                                                  *)

(* visit(IdentifierExpression).                                            *)
Identify(t, name) ==
    LET entry == Find(t, name)
    IN  IF entry = None THEN <<"undefined">>
        ELSE IF IsEnumerator(entry[1]) THEN <<"constant", entry[1].value[1]>>
        ELSE IF IsFunction(entry[1]) THEN <<"function", name>>
        ELSE <<"object", entry[1].object>>

(* An initializer mentions at most one name: <<>> or <<name>>.             *)
Initializers == {None} \cup {<<m>> : m \in {None} \cup {<<n>> : n \in Names}}

StorageSpecifiers == {"", "static", "extern"}

Objects ==
    [what : {"object"}, name : Names, storage : StorageSpecifiers, type : ObjectTypes,
     init : Initializers]

Functions ==
    [what : {"prototype"}, name : Names, storage : StorageSpecifiers,
     inline : BOOLEAN, type : FunctionTypes]

(* The menus offer declarations, and names.  The parameters of a function  *)
(* have different names: the analyser drops a repeated one and says        *)
(* nothing.                                                                *)
ASSUME MenusAssumption ==
    \A m \in DOMAIN Menus :
        /\ Menus[m].objects \subseteq Objects
        /\ Menus[m].prototypes \cup Menus[m].definitions \subseteq Functions
        /\ Menus[m].parameters \subseteq Seq(Names)
        /\ \A ps \in Menus[m].parameters : \A i, j \in DOMAIN ps : ps[i] = ps[j] => i = j
        /\ \A l \in Menus[m].loops : l[2] = None \/ \E n \in Names : l[2] = <<n>>
        /\ Menus[m].names \subseteq Names

StorageOf(t, item) ==
    CASE item.storage = "static" -> "static"
      [] item.storage = "extern" -> IF item.init = None THEN "extern" ELSE "global"
      [] OTHER -> IF IsAtFileScope(t) THEN "global" ELSE "automatic"

BindObject(t, item, type, storage) ==
    IF \/ item.storage = "extern" /\ item.init # None /\ ~IsAtFileScope(t)
       \/ type = "int[]" /\ storage # "extern"
       \/ IsAtFileScope(t) /\ HasFunction(t, item.name)
    THEN {}
    ELSE IF IsAtFileScope(t)
    THEN BindFileScopeObject(t, item.name, type, storage, item.init # None)
    ELSE InsertSymbol(t, item.name, type, storage)

(* analyzeInitializedDeclarator for an object, and lowerLocalInitializer   *)
(* as far as it touches the table.  The initializer of an array without a  *)
(* bound is visited before the name is bound.                              *)
AnalyzeObject(t, item, at) ==
    LET type == IF item.type = "int[]" /\ item.init # None THEN "int[3]" ELSE item.type
        bound == BindObject(t, item, type, StorageOf(t, item))
        after == IF bound = {} THEN t ELSE CHOOSE u \in bound : TRUE
        visiting == IF item.type = "int[]" THEN t ELSE after
        mentioned == IF item.init \in {None, <<None>>} THEN NoNote
                     ELSE Identify(visiting, item.init[1][1])
        holder == Find(after, item.name)[1]
    IN  [table |-> IF bound # {} /\ item.init # None /\ IsGlobal(holder)
                   THEN SetStaticInit(after, item.name, at) ELSE after,
         note |-> [holder |-> IF bound = {} THEN None ELSE holder.object, mentioned |-> mentioned],
         refused |-> bound = {} \/ mentioned = <<"undefined">>]

(* The parser refuses a name declared beside an enumerator of its scope.   *)
Declares(d, name) ==
    /\ Tag(d) \in {"object", "prototype", "definition", "parameter", "enumerator"}
    /\ source[d].name = name

BesideEnumerator(name) ==
    \E d \in DOMAIN source : Declares(d, name) /\ source[d].path = path /\ Tag(d) = "enumerator"

DeclarationAllowed == path = <<>> \/ Open({"definition", "block"})

Declaration(item) ==
    LET done == AnalyzeObject(table, item, Here)
    IN  /\ May("object")
        /\ DeclarationAllowed
        /\ ~BesideEnumerator(item.name)
        /\ Write(<<Written(item)>>, <<done.note>>)
        /\ table' = done.table
        /\ hasErrors' = done.refused
        /\ UNCHANGED <<path, jumps, frames>>

(* What both a prototype and a definition ask of earlier declarations.     *)
Redeclares(t, item) ==
    LET existing == FileScope(t, item.name)[1]
    IN  HasFunction(t, item.name) =>
            Compatible(item.type, existing.type) /\ (existing.storage = "static" \/ item.storage # "static")

Registered(t, item) ==
    ApplyFunctionSpecifiers(
        IF HasFunction(t, item.name) THEN t
        ELSE InsertFunction(t, item.name, item.type, item.storage = "static"),
        item.name, item.inline, item.storage = "extern")

(* insertFunction cannot find the function again if its name is taken by   *)
(* an enumerator of the file: an internal error, which refuses the unit.   *)
Prototype(item) ==
    LET bad == \/ HasGlobalVariable(table, item.name)
               \/ ~HasFunction(table, item.name) /\ FileScope(table, item.name) # None
               \/ ~Redeclares(table, item)
    IN  /\ May("prototype")
        /\ DeclarationAllowed
        /\ ~BesideEnumerator(item.name)
        /\ Write(<<Written(item)>>, <<NoNote>>)
        /\ table' = IF bad THEN table ELSE Registered(table, item)
        /\ hasErrors' = bad
        /\ UNCHANGED <<path, jumps, frames>>

(* visit(FunctionDefinition) up to the body.                               *)
FunctionDefinition(item, parameters) ==
    LET bad == \/ HasGlobalVariable(table, item.name)
               \/ HasFunction(table, item.name) /\ FileScope(table, item.name)[1].functionDefined
               \/ ~Redeclares(table, item)
        started == StartFunction(Registered(table, item), item.name, parameters)
        inside == <<Here>>
        ParameterOf(n) == [what |-> "parameter", name |-> n, path |-> inside]
        NoteOf(n) == [holder |-> Find(started, n)[1].object, mentioned |-> NoNote]
    IN  /\ May("definition")
        /\ path = <<>>
        /\ ~BesideEnumerator(item.name)
        /\ Write(<<Written([item EXCEPT !.what = "definition"])>>
                     \o [k \in DOMAIN parameters |-> ParameterOf(parameters[k])],
                 <<NoNote>> \o [k \in DOMAIN parameters |->
                                    IF bad THEN NoNote ELSE NoteOf(parameters[k])])
        /\ hasErrors' = bad
        /\ table' = IF bad THEN table ELSE started
        /\ path' = IF bad THEN path ELSE inside
        /\ jumps' = IF bad THEN jumps
                    ELSE [jumps EXCEPT !.namedLabels = {}, !.pendingGotos = {}]
        /\ UNCHANGED frames

(* declareEnumerators: the value of an enumerator is its place in source.  *)
EnumSpecifier(name) ==
    LET inserted == InsertEnumerator(table, name, Here)
    IN  /\ May("enumerator")
        /\ DeclarationAllowed
        /\ \A d \in DOMAIN source : Declares(d, name) => source[d].path # path
        /\ Write(<<Written([what |-> "enumerator", name |-> name])>>, <<NoNote>>)
        /\ table' = IF inserted = {} THEN table ELSE CHOOSE t \in inserted : TRUE
        /\ UNCHANGED <<path, jumps, frames, hasErrors>>

Block ==
    /\ May("block")
    /\ path # <<>>
    /\ Write(<<Written([what |-> "block"])>>, <<NoNote>>)
    /\ path' = Append(path, Here)
    /\ table' = EnterBlockScope(table)
    /\ UNCHANGED <<jumps, frames, hasErrors>>

-----------------------------------------------------------------------------
(* Loops, switches and labels.                                             *)

(* visit(LoopStatement) up to the body.  A for with a declaration opens a  *)
(* scope; the label for "continue" is a new one in a do, where the test    *)
(* is, and in a for with an increment.                                     *)
Loop(kind, declared) ==
    LET entered == IF declared = None THEN table ELSE EnterBlockScope(table)
        inside == Append(path, Here)
        Variable(n) == [what |-> "object", name |-> n, storage |-> "", type |-> "int",
                        init |-> <<None>>, path |-> inside]
        done == AnalyzeObject(entered, Variable(declared[1]), Here + 1)
        entry == jumps.nextLabel + 1
        own == kind \in {"forIncrement", "do"}
        cont == IF ~own THEN entry ELSE IF kind = "do" THEN entry + 1 ELSE entry + 2
        exit == IF kind = "do" THEN entry + 2 ELSE entry + 1
    IN  /\ May("loop")
        /\ path # <<>>
        /\ Write(<<Written([what |-> "loop", kind |-> kind])>>
                     \o IF declared = None THEN <<>> ELSE <<Variable(declared[1])>>,
                 <<[entry |-> entry, cont |-> cont, exit |-> exit]>>
                     \o IF declared = None THEN <<>> ELSE <<done.note>>)
        /\ path' = inside
        /\ table' = IF declared = None THEN table ELSE done.table
        /\ jumps' = [jumps EXCEPT !.nextLabel = IF own THEN entry + 2 ELSE entry + 1,
                                  !.loopStack = Append(@, [exit |-> exit, cont |-> <<cont>>])]
        /\ hasErrors' = (declared # None /\ done.refused)
        /\ UNCHANGED frames

(* visit(SwitchStatement): continue stays that of the loop around it.      *)
Switch ==
    LET exit == jumps.nextLabel + 1
        around == jumps.loopStack
        cont == IF around = <<>> THEN None ELSE Last(around).cont
    IN  /\ May("switch")
        /\ path # <<>>
        /\ Write(<<Written([what |-> "switch"])>>,
                 <<[exit |-> exit, cases |-> {}, defaultLabel |-> None]>>)
        /\ path' = Append(path, Here)
        /\ jumps' = [jumps EXCEPT !.nextLabel = exit,
                                  !.loopStack = Append(@, [exit |-> exit, cont |-> cont]),
                                  !.switchStack = Append(@, Here)]
        /\ UNCHANGED <<table, frames, hasErrors>>

(* A statement with a label, and what it changes of the switch around it.  *)
WriteLabel(item, onSwitch) ==
    LET label == jumps.nextLabel + 1
        noted == IF jumps.switchStack = <<>> THEN store
                 ELSE [store EXCEPT ![Last(jumps.switchStack)] = onSwitch]
    IN  /\ source' = Append(source, Written(item))
        /\ store' = Append(noted, [label |-> label])
        /\ UNCHANGED <<menu, path, table, frames>>

CurrentSwitch == store[Last(jumps.switchStack)]

(* visit(CaseLabel).                                                       *)
CaseLabel(value) ==
    LET outside == jumps.switchStack = <<>>
        duplicate == ~outside /\ \E c \in CurrentSwitch.cases : c[1] = value
    IN  /\ May("case")
        /\ path # <<>>
        /\ WriteLabel([what |-> "case", value |-> value],
                      IF duplicate THEN CurrentSwitch
                      ELSE [CurrentSwitch EXCEPT !.cases = @ \cup {<<value, Here>>}])
        /\ jumps' = [jumps EXCEPT !.nextLabel = @ + 1]
        /\ hasErrors' = (outside \/ duplicate)

(* visit(DefaultLabel): the first one stays.                               *)
DefaultLabel ==
    LET outside == jumps.switchStack = <<>>
        second == ~outside /\ CurrentSwitch.defaultLabel # None
    IN  /\ May("case")
        /\ path # <<>>
        /\ WriteLabel([what |-> "default"],
                      IF second THEN CurrentSwitch
                      ELSE [CurrentSwitch EXCEPT !.defaultLabel = <<Here>>])
        /\ jumps' = [jumps EXCEPT !.nextLabel = @ + 1]
        /\ hasErrors' = (outside \/ second)

(* visit(LabeledStatement): a goto means the first label of a name.        *)
LabeledStatement(name) ==
    LET duplicate == \E l \in jumps.namedLabels : l[1] = name
        label == jumps.nextLabel + 1
    IN  /\ May("label")
        /\ path # <<>>
        /\ Write(<<Written([what |-> "label", name |-> name])>>, <<[label |-> label]>>)
        /\ jumps' = [jumps EXCEPT !.nextLabel = label,
                                  !.namedLabels = IF duplicate THEN @ ELSE @ \cup {<<name, label>>}]
        /\ hasErrors' = duplicate
        /\ UNCHANGED <<path, table, frames>>

(* visit(JumpStatement).                                                   *)
JumpStatement(kind) ==
    LET innermost == jumps.loopStack
        target == IF innermost = <<>> THEN None
                  ELSE IF kind = "break" THEN <<Last(innermost).exit>>
                  ELSE Last(innermost).cont
    IN  /\ May("jump")
        /\ path # <<>>
        /\ Write(<<Written([what |-> kind])>>, <<[jumpTo |-> target]>>)
        /\ hasErrors' = (target = None)
        /\ UNCHANGED <<path, table, jumps, frames>>

GotoStatement(name) ==
    /\ May("label")
    /\ path # <<>>
    /\ Write(<<Written([what |-> "goto", name |-> name])>>, <<[jumpTo |-> None]>>)
    /\ jumps' = [jumps EXCEPT !.pendingGotos = @ \cup {Here}]
    /\ UNCHANGED <<path, table, frames, hasErrors>>

-----------------------------------------------------------------------------
(* The end of what is open.                                                *)

EndBlock ==
    /\ Open({"block"})
    /\ table' = ExitBlockScope(table)
    /\ UNCHANGED jumps

EndLoop ==
    /\ Open({"loop"})
    /\ table' = IF \E d \in DOMAIN source : Tag(d) = "object" /\ source[d].path = path
                THEN ExitBlockScope(table) ELSE table
    /\ jumps' = [jumps EXCEPT !.loopStack = Front(@)]

(* (a slip: the switch stays open for cases)                               *)
EndSwitchForBreaks ==
    /\ Open({"switch"})
    /\ jumps' = [jumps EXCEPT !.loopStack = Front(@)]
    /\ UNCHANGED table

EndSwitch ==
    /\ Open({"switch"})
    /\ jumps' = [jumps EXCEPT !.loopStack = Front(@), !.switchStack = Front(@)]
    /\ UNCHANGED table

EndInner ==
    /\ ~hasErrors
    /\ EndBlock \/ EndLoop \/ EndSwitch
    /\ path' = Front(path)
    /\ UNCHANGED <<source, menu, store, frames, hasErrors>>

(* The rest of visit(FunctionDefinition): the gotos find their labels, and *)
(* the frame is kept with the entry as it was when the function began.     *)
EndFunctionDefinition ==
    LET LabelsOf(g) == {l \in jumps.namedLabels : l[1] = source[g].name}
        found == {g \in jumps.pendingGotos : LabelsOf(g) # {}}
        fn == OpenFunction(table)
    IN  /\ ~hasErrors
        /\ Open({"definition"})
        /\ store' = [d \in DOMAIN store |->
                        IF d \in found THEN [jumpTo |-> <<(CHOOSE l \in LabelsOf(d) : TRUE)[2]>>]
                        ELSE store[d]]
        /\ hasErrors' = (found # jumps.pendingGotos)
        /\ jumps' = [jumps EXCEPT !.namedLabels = {}, !.pendingGotos = {}]
        /\ frames' = Append(frames,
                        [at |-> Last(path),
                         exported |-> ProvidesExternalDefinition(fn.function),
                         locals |-> CurrentScopeSymbols(table), arguments |-> fn.arguments])
        /\ table' = EndFunction(table)
        /\ path' = <<>>
        /\ UNCHANGED <<source, menu>>

-----------------------------------------------------------------------------
Init ==
    /\ source = <<>>
    /\ path = <<>>
    /\ menu \in DOMAIN Menus
    /\ table = EmptyTable
    /\ jumps = NoJumps
    /\ store = <<>>
    /\ frames = <<>>
    /\ hasErrors = FALSE

Next ==
    \/ \E item \in Offered.objects : Declaration(item)
    \/ \E item \in Offered.prototypes : Prototype(item)
    \/ \E item \in Offered.definitions, ps \in Offered.parameters : FunctionDefinition(item, ps)
    \/ \E n \in Offered.names : EnumSpecifier(n) \/ LabeledStatement(n) \/ GotoStatement(n)
    \/ Block
    \/ \E l \in Offered.loops : Loop(l[1], l[2])
    \/ Switch
    \/ \E value \in CaseValues : CaseLabel(value)
    \/ DefaultLabel
    \/ \E kind \in {"break", "continue"} : JumpStatement(kind)
    \/ EndInner
    \/ EndFunctionDefinition

Spec == Init /\ [][Next]_vars
-----------------------------------------------------------------------------
(* What C says of the unit, from source alone.                             *)

FileScopeItem(d) == source[d].path = <<>>

IsFunctionItem(d) == Tag(d) \in {"prototype", "definition"}

HasLinkage(d) ==
    \/ IsFunctionItem(d)
    \/ Tag(d) = "object" /\ (FileScopeItem(d) \/ source[d].storage = "extern")

HasObject(d) == Tag(d) \in {"object", "parameter"} /\ ~HasLinkage(d)

Declarations(name) == {d \in DOMAIN source : Declares(d, name)}

Scoped(d, name) == {e \in Declarations(name) : e <= d /\ IsPrefix(source[e].path, source[d].path)}

Visible(name) == {d \in Declarations(name) : IsPrefix(source[d].path, path)}

(* What a use of declaration d denotes.                                    *)
Denoted(d) ==
    CASE Tag(d) = "enumerator" -> <<"constant", d>>
      [] IsFunctionItem(d) -> <<"function", source[d].name>>
      [] OTHER -> <<"object", IF HasLinkage(d) THEN FileName(source[d].name) ELSE store[d].holder>>

(* An inner scope is only open after what it hides was declared, so that   *)
(* the last visible declaration is the one that is meant.                  *)
Meaning(visible) == IF visible = {} THEN <<"undefined">> ELSE Denoted(Max(visible))

(* Names the analyser is known to get wrong.  A function declared in a     *)
(* block, where the block or one around it gives the name another meaning: *)
LinkedInBlock(name) == {d \in Declarations(name) : HasLinkage(d) /\ ~FileScopeItem(d)}

HidesNoObject(name) ==
    \E d \in LinkedInBlock(name) :
        IsFunctionItem(d) /\ \E e \in Scoped(d, name) : ~HasLinkage(e) /\ ~FileScopeItem(e)

(* a name with linkage in a block and an enumerator of the file:           *)
SharedWithEnumerator(name) ==
    /\ LinkedInBlock(name) # {}
    /\ \E e \in Declarations(name) : Tag(e) = "enumerator" /\ FileScopeItem(e)

(* a name declared with linkage in a block only, after that block.         *)
OutOfScope(name) == LinkedInBlock(name) # {} /\ Visible(name) = {}

Confused(name) == HidesNoObject(name) \/ SharedWithEnumerator(name) \/ OutOfScope(name)

(* An array that its initializer completes is not yet declared in it.      *)
NotYetDeclared(d, name) == source[d].type = "int[]" /\ source[d].name = name

Mentions(d) ==
    IF Tag(d) = "object" /\ source[d].init \notin {None, <<None>>} THEN {source[d].init[1][1]} ELSE {}

(* Wherever a name is written it denotes what the scopes of C say, also in *)
(* the initializer of the object itself, and no two objects of the program *)
(* are one object of the assembly (SymbolTable::find, visit of Identifier- *)
(* Expression).                                                            *)
NamesAsC ==
    ~hasErrors =>
        /\ \A name \in Names :
               Confused(name) \/ Identify(table, name) = Meaning(Visible(name))
        /\ LET d == Len(source)
           IN  d > 0 => \A name \in Mentions(d) :
                   \/ Confused(name) \/ NotYetDeclared(d, name)
                   \/ store[d].mentioned = Meaning(Scoped(d, name))
        /\ \A d, e \in DOMAIN source :
               d # e /\ HasObject(d) /\ HasObject(e) => Denoted(d) # Denoted(e)

-----------------------------------------------------------------------------
(* Homes.                                                                  *)

(* emissionFor, in src/src/driver/Compiler.cpp.                            *)
EmissionFor(entry) ==
    CASE entry.storage = "extern" -> "reference"
      [] entry.storage = "static" -> "internal"
      [] OTHER -> "external"

GlobalVariable(entry) ==
    [object |-> entry.object, emission |-> EmissionFor(entry), init |-> entry.staticInit,
     type |-> IF entry.storage = "extern" THEN "int" ELSE entry.type]

TypeOf(d) == IF source[d].type = "int[]" /\ source[d].init # None THEN "int[3]" ELSE source[d].type

AtFile(name) == {d \in Declarations(name) : FileScopeItem(d)}

CompositeOf(types) == IF "int[3]" \in types THEN "int[3]" ELSE CHOOSE t \in types : TRUE

InitialOf(ds) ==
    LET with == {d \in ds : source[d].init # None} IN IF with = {} THEN None ELSE <<Max(with)>>

(* The object of a name with linkage: defined here if a declaration of the *)
(* file is not just "extern".                                              *)
LinkedHome(name) ==
    LET defining == {d \in AtFile(name) : source[d].storage # "extern" \/ source[d].init # None}
        internal == \E d \in AtFile(name) : source[d].storage = "static"
    IN  [object |-> FileName(name),
         emission |-> IF defining = {} THEN "reference" ELSE IF internal THEN "internal" ELSE "external",
         init |-> InitialOf(AtFile(name)),
         type |-> IF defining = {} THEN "int" ELSE CompositeOf({TypeOf(d) : d \in AtFile(name)})]

StaticHome(d) ==
    [object |-> store[d].holder, emission |-> "internal", init |-> InitialOf({d}), type |-> TypeOf(d)]

InFunction(d, at) == source[d].path # <<>> /\ source[d].path[1] = at

IsStaticLocal(d) == Tag(d) = "object" /\ HasObject(d) /\ source[d].storage = "static"

(* C11 6.7.4: the definition is external unless all declarations of the    *)
(* file are inline without extern.  The analyser decides that when the     *)
(* function begins, and counts declarations in blocks.                     *)
ExternallyDefined(name) ==
    /\ \A d \in AtFile(name) : source[d].storage # "static"
    /\ \E d \in AtFile(name) : ~source[d].inline \/ source[d].storage = "extern"

Settled(at) ==
    LET name == source[at].name
    IN  LinkedInBlock(name) = {} /\ \A d \in AtFile(name) : d <= at

(* Between functions: each object with static storage has one home, with   *)
(* the linkage, the type and the initial value that its declarations give  *)
(* it together; each automatic object of a function has one in its frame;  *)
(* and a function is exported if C makes its definition an external one    *)
(* (getDataHomes, FunctionFrame).                                          *)
HomesAsC ==
    ~hasErrors /\ path = <<>> =>
        /\ LET linked == {n \in Names : ~SharedWithEnumerator(n)
                              /\ \E d \in Declarations(n) : Tag(d) = "object" /\ HasLinkage(d)}
               apart == {FileName(n) : n \in {m \in Names : SharedWithEnumerator(m)}}
           IN  {GlobalVariable(e) : e \in {h \in DataHomes(table) : h.object \notin apart}} =
                   {LinkedHome(n) : n \in linked}
                   \cup {StaticHome(d) : d \in {e \in DOMAIN source : IsStaticLocal(e)}}
        /\ \A f \in ToSet(frames) :
               LET mine == {d \in DOMAIN source : HasObject(d) /\ InFunction(d, f.at) /\ ~IsStaticLocal(d)}
               IN  /\ {e.object : e \in f.locals} \cup {e.object : e \in ToSet(f.arguments)} =
                          {store[d].holder : d \in mine}
                   /\ Len(f.arguments) = Cardinality({d \in mine : Tag(d) = "parameter"})
                   /\ Settled(f.at) => f.exported = ExternallyDefined(source[f.at].name)

-----------------------------------------------------------------------------
(* Jumps.                                                                  *)

(* The innermost construct of a kind around an item, or 0.                 *)
Within(d, what) == Max({0} \cup {c \in ToSet(source[d].path) : Tag(c) \in what})

LabelsOf(tag, note) ==
    CASE tag = "loop" -> {note.entry, note.cont, note.exit}
      [] tag = "switch" -> {note.exit}
      [] tag \in {"case", "default", "label"} -> {note.label}
      [] OTHER -> {}

LabelsAt(d) == LabelsOf(Tag(d), store[d])

TargetsOf(g) ==
    {l \in DOMAIN source : Tag(l) = "label" /\ source[l].name = source[g].name
                               /\ source[l].path[1] = source[g].path[1]}

FunctionEnded(d) == path = <<>> \/ path[1] # source[d].path[1]

(* Every jump goes where C says: break and continue to the innermost       *)
(* construct they can mean, a goto to the label of its own function,       *)
(* before or behind it, and a case belongs to the innermost switch, also   *)
(* from inside a loop in it.  No two constructs share a label.             *)
JumpsAsWritten ==
    ~hasErrors =>
        /\ \A d \in DOMAIN source :
               CASE Tag(d) = "break" ->
                        store[d].jumpTo = <<store[Within(d, {"loop", "switch"})].exit>>
                 [] Tag(d) = "continue" -> store[d].jumpTo = <<store[Within(d, {"loop"})].cont>>
                 [] Tag(d) = "switch" ->
                        LET mine(what) ==
                                {c \in DOMAIN source : Tag(c) = what /\ Within(c, {"switch"}) = d}
                        IN  /\ store[d].cases = {<<source[c].value, c>> : c \in mine("case")}
                            /\ ToSet(store[d].defaultLabel) = mine("default")
                 [] Tag(d) = "goto" ->
                        FunctionEnded(d) => \E l \in TargetsOf(d) : store[d].jumpTo = <<store[l].label>>
                 [] OTHER -> TRUE
        /\ \A d, e \in DOMAIN source : d # e => LabelsAt(d) \cap LabelsAt(e) = {}

-----------------------------------------------------------------------------
(* What is refused.                                                        *)

Before(d) == {e \in Declarations(source[d].name) : e < d}

SameScope(d) == {e \in Before(d) : source[e].path = source[d].path}

Linked(d) == {e \in Before(d) : HasLinkage(e)}

TypeOfAny(d) == IF IsFunctionItem(d) THEN source[d].type ELSE TypeOf(d)

TypesClash(d, others) == HasLinkage(d) /\ \E e \in others : ~Compatible(TypeOfAny(d), TypeOfAny(e))

(* The constraints of C that a declaration can violate,                    *)
DeclarationViolates(d) ==
    \/ \E e \in SameScope(d) : ~HasLinkage(d) \/ ~HasLinkage(e)
    \/ TypesClash(d, {e \in SameScope(d) : HasLinkage(e)})
    \/ Tag(d) = "definition" /\ \E e \in Before(d) : Tag(e) = "definition"
    \/ /\ Tag(d) = "object"
       /\ \/ source[d].init # None /\ source[d].storage = "extern" /\ ~FileScopeItem(d)
          \/ source[d].init # None /\ \E e \in SameScope(d) : source[e].init # None
          \/ ~HasLinkage(d) /\ TypeOf(d) = "int[]"
          \/ \E n \in Mentions(d) : Scoped(d, n) = {}

(* those of a statement,                                                   *)
StatementViolates(d) ==
    LET twin(what) == {e \in 1 .. d - 1 : Tag(e) = Tag(d) /\ Within(e, what) = Within(d, what)}
    IN  CASE Tag(d) = "break" -> Within(d, {"loop", "switch"}) = 0
          [] Tag(d) = "continue" -> Within(d, {"loop"}) = 0
          [] Tag(d) = "case" ->
                 \/ Within(d, {"switch"}) = 0
                 \/ \E e \in twin({"switch"}) : source[e].value = source[d].value
          [] Tag(d) = "default" -> Within(d, {"switch"}) = 0 \/ twin({"switch"}) # {}
          [] Tag(d) = "label" ->
                 \E e \in twin({"definition"}) : source[e].name = source[d].name
          [] OTHER -> FALSE

(* and that of a function that has ended.                                  *)
LabelMissing ==
    \E g \in DOMAIN source : Tag(g) = "goto" /\ FunctionEnded(g) /\ TargetsOf(g) = {}

(* What C leaves undefined: a compiler may refuse it.                      *)
Undefined(d) ==
    /\ HasLinkage(d)
    /\ \/ LET internal == \E e \in Linked(d) : source[e].storage = "static"
          IN  \/ source[d].storage = "static" /\ Linked(d) # {} /\ ~internal
              \/ Tag(d) = "object" /\ source[d].storage = "" /\ internal
       \/ TypesClash(d, Linked(d))

(* What the analyser is known to refuse although C does not: an array that *)
(* gets its bound from a later declaration, an array named in the          *)
(* initializer that completes it, "extern" with an initializer behind      *)
(* "static", and a name with linkage in a block that is an enumerator of   *)
(* the file.                                                               *)
WronglyRefused(d) ==
    \/ /\ Tag(d) = "object" /\ source[d].storage = "extern" /\ source[d].init # None
       /\ \E e \in SameScope(d) : source[e].storage = "static"
    \/ Tag(d) = "object" /\ FileScopeItem(d) /\ TypeOf(d) = "int[]"
    \/ \E n \in Mentions(d) : NotYetDeclared(d, n)
    \/ HasLinkage(d) /\ SharedWithEnumerator(source[d].name)

(* What it is known to let pass: a function declared beside an object, and *)
(* a name it is confused about.                                            *)
WronglyAccepted(d) ==
    \/ ~FileScopeItem(d) /\ \E e \in SameScope(d) : "prototype" \in {Tag(d), Tag(e)}
    \/ \E n \in Mentions(d) : Confused(n)

IsDeclaration(d) == Tag(d) \in {"object", "prototype", "definition"}

Violates(d) == IF IsDeclaration(d) THEN DeclarationViolates(d) ELSE StatementViolates(d)

(* A unit is refused at the first thing in it that violates a constraint   *)
(* of C, and only there.                                                   *)
RefusedAsC ==
    LET d == Max({0} \cup {e \in DOMAIN source : Tag(e) # "parameter"})
    IN  d > 0 =>
            IF hasErrors
            THEN \/ Violates(d) \/ LabelMissing
                 \/ IsDeclaration(d) /\ (Undefined(d) \/ WronglyRefused(d))
            ELSE /\ Violates(d) => IsDeclaration(d) /\ WronglyAccepted(d)
                 /\ ~LabelMissing
=============================================================================
