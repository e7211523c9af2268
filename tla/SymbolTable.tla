---------------------------- MODULE SymbolTable ----------------------------
(***************************************************************************)
(* The symbol table of the semantic analysis: SymbolTable.cpp and          *)
(* ValueScope.cpp of src/src/semantic_analyzer, with the entries of        *)
(* src/src/symbols/ValueEntry.cpp.                                         *)
(*                                                                         *)
(* The table is a value, and an operation on it an operator: a "bind" that *)
(* may be refused gives the set of the tables it can leave, empty if it    *)
(* refuses.  An optional value is a sequence of at most one.  Types are    *)
(* reduced to what tells declarations apart; every object is or begins     *)
(* with an int.                                                            *)
(***************************************************************************)
EXTENDS Naturals, Sequences, FiniteSetsExt

ObjectTypes == {"int", "long", "int[]", "int[3]"}

FunctionTypes == {"int()", "long()"}

None == <<>>

(* Type::composite.                                                        *)
Composite(a, b) ==
    IF a = b THEN <<a>>
    ELSE IF {a, b} = {"int[]", "int[3]"} THEN <<"int[3]">>
    ELSE None

Compatible(a, b) == Composite(a, b) # None

-----------------------------------------------------------------------------
(* ValueEntry.                                                             *)

Entry(object, type, storage) ==
    [object |-> object, type |-> type, storage |-> storage,
     value |-> None,            \* of an enumerator
     staticInit |-> None, definingInitializer |-> FALSE,
     functionDefined |-> FALSE, inline |-> FALSE, externalNonInline |-> FALSE,
     functionExtern |-> FALSE]

IsFunction(entry) == entry.type \in FunctionTypes

IsEnumerator(entry) == entry.value # None

IsGlobal(entry) == entry.storage # "automatic"

WithSpecifiers(entry, isInline, isExtern) ==
    [entry EXCEPT !.inline = @ \/ isInline,
                  !.externalNonInline = @ \/ ~isInline,
                  !.functionExtern = @ \/ isExtern]

ProvidesExternalDefinition(entry) ==
    /\ entry.storage # "static"
    /\ entry.externalNonInline \/ ~entry.inline \/ entry.functionExtern

(* The names of the assembly.                                              *)
FileName(name) == <<"", 0, name>>
LocalName(scopeId, name) == <<"L$loc", scopeId, name>>
StaticName(scopeId, name) == <<"L$st", scopeId, name>>

-----------------------------------------------------------------------------
(* ValueScope: keys are pairs of a scope and a name.                       *)

With(scope, key, entry) ==
    [k \in DOMAIN scope \cup {key} |-> IF k = key THEN entry ELSE scope[k]]

At(scope, key) == IF key \in DOMAIN scope THEN <<scope[key]>> ELSE None

Insert(scope, key, entry) == IF key \in DOMAIN scope THEN {} ELSE {With(scope, key, entry)}

Enumerator(name, value) ==
    [Entry(FileName(name), "int", "automatic") EXCEPT !.value = <<value>>]

EmptyTable ==
    [global |-> <<>>, function |-> None, functionScopeDataHomes |-> {}, nextScopeId |-> 0]

IsAtFileScope(table) == table.function = None

OpenFunction(table) == table.function[1]

CurrentScopeId(table) == LET ids == OpenFunction(table).blockIds IN ids[Len(ids)]

FileScope(table, name) == At(table.global, <<0, name>>)

WithFile(table, name, entry) == [table EXCEPT !.global[<<0, name>>] = entry]

(* insertFunctionArgument: a second argument of the same name is dropped.  *)
WithArgument(arguments, entry) ==
    IF \E k \in DOMAIN arguments : arguments[k].object = entry.object THEN arguments
    ELSE Append(arguments, entry)

FindArgument(fn, name) ==
    LET mine == {k \in DOMAIN fn.arguments : fn.arguments[k].object[3] = name}
    IN  IF mine = {} THEN None ELSE <<fn.arguments[Min(mine)]>>

(* walkBlockScopes: from the innermost block outwards, then the arguments. *)
WalkBlockScopes(table, name) ==
    IF IsAtFileScope(table) THEN None
    ELSE LET fn == OpenFunction(table)
             holding == {k \in DOMAIN fn.blockIds : <<fn.blockIds[k], name>> \in DOMAIN fn.values}
         IN  IF holding = {} THEN FindArgument(fn, name)
             ELSE <<fn.values[<<fn.blockIds[Max(holding)], name>>]>>

Find(table, name) ==
    LET local == WalkBlockScopes(table, name)
    IN  IF local # None THEN local ELSE FileScope(table, name)

HasFunction(table, name) ==
    LET entry == FileScope(table, name) IN entry # None /\ IsFunction(entry[1])

HasGlobalVariable(table, name) ==
    LET entry == FileScope(table, name)
    IN  entry # None /\ ~IsFunction(entry[1]) /\ ~IsEnumerator(entry[1])

-----------------------------------------------------------------------------
(* Declarations.                                                           *)

WithLocal(table, key, entry) ==
    {[table EXCEPT !.function[1].values = values] :
         values \in Insert(OpenFunction(table).values, key, entry)}

(* bindBlockScopeExtern.                                                   *)
BindBlockScopeExtern(table, name, type) ==
    LET existing == FileScope(table, name)
        visible == IF existing = None THEN <<type>>
                   ELSE IF IsFunction(existing[1]) THEN None
                   ELSE Composite(existing[1].type, type)
        known == IF existing # None THEN table
                 ELSE [table EXCEPT !.global =
                          With(@, <<0, name>>, Entry(FileName(name), type, "extern"))]
        key == <<CurrentScopeId(table), name>>
        declared == At(OpenFunction(table).values, key)
    IN  IF visible = None THEN {}
        ELSE IF declared = None
        THEN WithLocal(known, key, Entry(FileName(name), visible[1], "extern"))
        ELSE IF declared[1].storage = "extern" /\ Compatible(declared[1].type, visible[1])
        THEN {known}
        ELSE {}

(* insertSymbol, at block scope.                                           *)
InsertSymbol(table, name, type, storage) ==
    LET fn == OpenFunction(table)
        id == CurrentScopeId(table)
        object == IF storage = "static" THEN StaticName(id, name) ELSE LocalName(id, name)
    IN  IF id = fn.blockIds[1] /\ FindArgument(fn, name) # None THEN {}
        ELSE IF storage = "extern" THEN BindBlockScopeExtern(table, name, type)
        ELSE WithLocal(table, <<id, name>>, Entry(object, type, storage))

(* (a slip: nobody asks for an earlier initializer)                        *)
MergesAnyway(existing, type, storage, hasInitializer) ==
    /\ ~IsEnumerator(existing)
    /\ (storage = "static") => (existing.storage = "static")
    /\ (existing.storage = "static") => (storage # "global")
    /\ Compatible(existing.type, type)

(* bindFileScopeObject: the first declaration, or one that is merged.      *)
Merges(existing, type, storage, hasInitializer) ==
    /\ ~IsEnumerator(existing)
    /\ (storage = "static") => (existing.storage = "static")
    /\ (existing.storage = "static") => (storage # "global")
    /\ Compatible(existing.type, type)
    /\ ~(hasInitializer /\ existing.definingInitializer)

BindFileScopeObject(table, name, type, storage, hasInitializer) ==
    LET old == FileScope(table, name)
        first == [Entry(FileName(name), type, storage) EXCEPT !.definingInitializer = hasInitializer]
    IN  IF old = None THEN {[table EXCEPT !.global = With(@, <<0, name>>, first)]}
        ELSE IF ~Merges(old[1], type, storage, hasInitializer) THEN {}
        ELSE {WithFile(table, name,
                 [old[1] EXCEPT !.type = Composite(@, type)[1],
                                !.storage = IF @ = "extern" /\ storage = "global" THEN "global" ELSE @,
                                !.definingInitializer = @ \/ hasInitializer])}

(* insertEnumerator.  The visitor ignores a refusal.                       *)
InsertEnumerator(table, name, value) ==
    IF IsAtFileScope(table)
    THEN {[table EXCEPT !.global = g] :
              g \in Insert(table.global, <<0, name>>, Enumerator(name, value))}
    ELSE WithLocal(table, <<CurrentScopeId(table), name>>, Enumerator(name, value))

(* (a slip: the object is sought at file scope only)                       *)
SetStaticInitOfFile(table, name, value) ==
    [table EXCEPT !.global[<<0, name>>].staticInit = <<value>>]

(* setStaticInit: the object of the current scope, or that of the file.    *)
SetStaticInit(table, name, value) ==
    LET key == <<CurrentScopeId(table), name>>
    IN  IF ~IsAtFileScope(table) /\ key \in DOMAIN OpenFunction(table).values
        THEN [table EXCEPT !.function[1].values[key].staticInit = <<value>>]
        ELSE [table EXCEPT !.global[<<0, name>>].staticInit = <<value>>]

-----------------------------------------------------------------------------
(* Functions.                                                              *)

InsertFunction(table, name, type, internal) ==
    LET entry == Entry(FileName(name), type, IF internal THEN "static" ELSE "global")
        inserted == Insert(table.global, <<0, name>>, entry)
    IN  IF inserted = {} THEN table ELSE [table EXCEPT !.global = CHOOSE g \in inserted : TRUE]

ApplyFunctionSpecifiers(table, name, isInline, isExtern) ==
    WithFile(table, name, WithSpecifiers(FileScope(table, name)[1], isInline, isExtern))

(* markFunctionDefined and startFunction, which keeps the entry as it is   *)
(* now.                                                                    *)
StartFunction(table, name, parameters) ==
    LET defined == WithFile(table, name, [FileScope(table, name)[1] EXCEPT !.functionDefined = TRUE])
        id == table.nextScopeId + 1
        args[k \in 0 .. Len(parameters)] ==
            IF k = 0 THEN <<>>
            ELSE WithArgument(args[k - 1], Entry(LocalName(id, parameters[k]), "int", "automatic"))
    IN  [defined EXCEPT
            !.function = <<[values |-> <<>>, arguments |-> args[Len(parameters)], blockIds |-> <<id>>,
                            function |-> FileScope(defined, name)[1]]>>,
            !.nextScopeId = id]

EndFunction(table) ==
    LET values == OpenFunction(table).values
    IN  [table EXCEPT
            !.functionScopeDataHomes =
                @ \cup {values[key] : key \in {k \in DOMAIN values : values[k].storage = "static"}},
            !.function = None]

(* (a slip: a block is numbered by its depth)                              *)
EnterScopeOfDepth(table) ==
    [table EXCEPT !.function[1].blockIds = Append(@, CurrentScopeId(table) + 1)]

EnterBlockScope(table) ==
    [table EXCEPT !.function[1].blockIds = Append(@, table.nextScopeId + 1), !.nextScopeId = @ + 1]

ExitBlockScope(table) ==
    [table EXCEPT !.function[1].blockIds = SubSeq(@, 1, Len(@) - 1)]

-----------------------------------------------------------------------------
(* What is left for the code generator.                                    *)

CurrentScopeSymbols(table) ==
    LET values == OpenFunction(table).values
    IN  {e \in {values[key] : key \in DOMAIN values} : ~IsGlobal(e) /\ ~IsEnumerator(e)}

DataHomes(table) ==
    {e \in {table.global[key] : key \in DOMAIN table.global} :
        IsGlobal(e) /\ ~IsFunction(e) /\ ~IsEnumerator(e)}
        \cup table.functionScopeDataHomes
=============================================================================
