------------------------- MODULE MCSemanticAnalysis -------------------------
(***************************************************************************)
(* Units for SemanticAnalysis, from four menus: the scopes of blocks, the  *)
(* linkage of objects, functions with their specifiers, and jumps.         *)
(***************************************************************************)
EXTENDS SemanticAnalysis

CONSTANTS x, y

MCNames == {x, y}

NoMenu ==
    [constructs |-> {}, length |-> 0, names |-> {x}, objects |-> {}, prototypes |-> {},
     definitions |-> {}, parameters |-> {<<>>}, loops |-> {}]

Plain(name) ==
    {f \in Functions : f.name = name /\ f.storage = "" /\ ~f.inline /\ f.type = "int()"}

(* The scopes of blocks, loops and parameters, and enumerators.            *)
Scopes ==
    [NoMenu EXCEPT
        !.constructs = {"object", "prototype", "definition", "enumerator", "block", "loop"},
        !.length = 6,
        !.objects = {o \in Objects : o.type = "int"
                                         /\ IF o.name = x THEN o.init \in {None, <<<<x>>>>}
                                            ELSE o.storage = "" /\ o.init = <<<<x>>>>},
        !.prototypes = Plain(x),
        !.definitions = Plain(y),
        !.parameters = {<<>>, <<x>>},
        !.loops = {<<"forIncrement", <<x>>>>}]

(* The declarations of one object.                                         *)
Linkage ==
    [NoMenu EXCEPT
        !.constructs = {"object", "definition", "block"},
        !.length = 5,
        !.objects = {o \in Objects : o.name = x /\ o.type # "long"
                                         /\ o.init \in {None, <<None>>} \cup
                                               IF o.type = "int[]" THEN {<<<<x>>>>} ELSE {}},
        !.definitions = Plain(y)]

(* The declarations of one function.                                       *)
Specifiers ==
    [NoMenu EXCEPT
        !.constructs = {"object", "prototype", "definition", "enumerator"},
        !.length = 4,
        !.objects = {o \in Objects : o.name = x /\ o.type = "int" /\ o.init = None},
        !.prototypes = {f \in Functions : f.name = x},
        !.definitions = {f \in Functions : f.name = x /\ f.type = "int()"} \cup Plain(y)]

Jumps ==
    [NoMenu EXCEPT
        !.constructs = {"definition", "loop", "switch", "case", "label", "jump"},
        !.length = 6,
        !.definitions = Plain(y),
        !.loops = {"while", "do"} \X {None}]

(* Labels of the same name in two functions.                               *)
Labels ==
    [NoMenu EXCEPT
        !.constructs = {"definition", "block", "label"},
        !.length = 7,
        !.definitions = Plain(x) \cup Plain(y)]

MCMenus ==
    [scopes |-> Scopes, linkage |-> Linkage, specifiers |-> Specifiers, jumps |-> Jumps,
     labels |-> Labels]
=============================================================================
