---------------------------- MODULE ScopeBooks -----------------------------
(***************************************************************************)
(* What the symbol table of SemanticAnalysis knows, in units of any length *)
(* and any menu: Books(sid) says of every entry of the table, of every     *)
(* function frame and of everything exported which declarations of the     *)
(* source it was made of.                                                  *)
(*                                                                         *)
(* The argument.  "sid" gives the number of the scope that a construct     *)
(* opened.  Numbers are handed out in the order of the source, so that the *)
(* open ones stand in the order of the path, and the innermost one that    *)
(* knows a name is the one that was opened last.                           *)
(***************************************************************************)
EXTENDS SemanticAnalysisProofs, NaturalsInduction, WellFoundedInduction

Scope(d) == IF source[d].path = <<>> THEN 0 ELSE Last(source[d].path)

Chain(p) ==
    \A k \in DOMAIN p : p[k] \in DOMAIN source /\ source[p[k]].path = SubSeq(p, 1, k - 1)

(* An item is inside what was open when it was written, and what was       *)
(* written beside an open construct was written before it.                 *)
TreeOk ==
    /\ Chain(path)
    /\ \A d \in DOMAIN source :
           /\ Chain(source[d].path) /\ Rising(source[d].path)
           /\ \A z \in ToSet(source[d].path) : z < d
           /\ \A k \in DOMAIN source[d].path : Tag(source[d].path[k]) = "definition" <=> k = 1
    /\ \A d \in DOMAIN source, k \in DOMAIN path :
           source[d].path = SubSeq(path, 1, k - 1) => d <= path[k]

IsDecl(d) == Tag(d) \in {"object", "prototype", "definition", "parameter", "enumerator"}

(* The constructs that the table has a scope for.                          *)
Opens(c) ==
    \/ Tag(c) \in {"definition", "block"}
    \/ Tag(c) = "loop" /\ \E e \in DOMAIN source : Tag(e) = "object" /\ Scope(e) = c

OpenScopes == {c \in ToSet(path) : Opens(c)}

DeclOk(d) ==
    /\ IsDecl(d) => source[d].name \in Names /\ (Scope(d) # 0 => Opens(Scope(d)))
    /\ Tag(d) = "object" =>
           /\ source[d].storage \in StorageSpecifiers /\ source[d].type \in ObjectTypes
           /\ source[d].init \in Initializers
           /\ TypeOf(d) = "int[]" => source[d].storage = "extern" /\ source[d].init = None
           /\ source[d].storage = "extern" /\ Scope(d) # 0 => source[d].init = None
    /\ IsFunctionItem(d) =>
           /\ source[d].storage \in StorageSpecifiers /\ source[d].type \in FunctionTypes
           /\ source[d].inline \in BOOLEAN
    /\ Tag(d) \in {"definition"} => source[d].path = <<>>
    /\ ~IsDecl(d) => source[d].path # <<>>
    /\ Tag(d) = "parameter" => Len(source[d].path) = 1

(* What may be declared twice in one scope.                                *)
ScopeOk(d, e) ==
    /\ Tag(d) # "enumerator" /\ Tag(e) # "enumerator"
    /\ Scope(d) # 0 => \/ Tag(d) = "prototype" \/ Tag(e) = "prototype"
                       \/ Tag(d) = "object" /\ Tag(e) = "object" /\ HasLinkage(d) /\ HasLinkage(e)

DeclarationsOk ==
    /\ \A d \in DOMAIN source : DeclOk(d)
    /\ \A d, e \in DOMAIN source :
           d # e /\ IsDecl(d) /\ IsDecl(e) /\ source[d].name = source[e].name /\ Scope(d) = Scope(e)
               => ScopeOk(d, e)

Storages == {"automatic", "static", "extern", "global"}

Optional == {None} \cup {<<n>> : n \in Nat}

Homes ==
    {FileName(n) : n \in Names}
        \cup {LocalName(k, n) : k \in Nat, n \in Names} \cup {StaticName(k, n) : k \in Nat, n \in Names}

Entries ==
    [object : Homes, type : ObjectTypes \cup FunctionTypes, storage : Storages,
     value : Optional, staticInit : Optional, definingInitializer : BOOLEAN,
     functionDefined : BOOLEAN, inline : BOOLEAN, externalNonInline : BOOLEAN,
     functionExtern : BOOLEAN]

(* The entry of the file for a name.                                       *)
LinkedOf(n) == {d \in Declarations(n) : HasLinkage(d)}

FileEnumerators(n) == {d \in Declarations(n) : Tag(d) = "enumerator" /\ FileScopeItem(d)}

InFile(n) == LinkedOf(n) # {} \/ FileEnumerators(n) # {}

ObjectEntryOk(n, e) ==
    LET inits == {d \in AtFile(n) : source[d].init # None}
    IN  /\ e.storage \in {"static", "extern", "global"}
        /\ e.storage = "extern" <=>
               \A d \in AtFile(n) : source[d].storage = "extern" /\ source[d].init = None
        /\ e.definingInitializer <=> inits # {}
        /\ \A d \in inits : inits = {d}
        /\ inits = {} => e.staticInit = None
        /\ \A d \in inits : e.staticInit = <<d>>
        /\ \A d \in AtFile(n) : TypeOf(d) = "int[3]" => e.type = "int[3]"

FunctionEntryOk(n, e) ==
    /\ e.storage \in {"static", "global"}
    /\ e.functionDefined <=> \E d \in LinkedOf(n) : Tag(d) = "definition"
    /\ \A d, c \in LinkedOf(n) : Tag(d) = "definition" /\ Tag(c) = "definition" => d = c
    /\ e.inline <=> \E d \in LinkedOf(n) : source[d].inline
    /\ e.externalNonInline <=> \E d \in LinkedOf(n) : ~source[d].inline
    /\ e.functionExtern <=> \E d \in LinkedOf(n) : source[d].storage = "extern"

LinkedEntryOk(n, e) ==
    /\ e.value = None /\ e.object = FileName(n)
    /\ \A d \in LinkedOf(n) :
           (IsFunction(e) <=> IsFunctionItem(d)) /\ Compatible(e.type, TypeOfAny(d))
    /\ e.storage = "static" <=> \E d \in LinkedOf(n) : source[d].storage = "static"
    /\ ~IsFunction(e) => ObjectEntryOk(n, e)
    /\ IsFunction(e) => FunctionEntryOk(n, e)

EntryOk(n, e) ==
    /\ \A d \in FileEnumerators(n) : e = Enumerator(n, d)
    /\ LinkedOf(n) # {} => LinkedEntryOk(n, e)

GlobalOk ==
    /\ DOMAIN table.global = {<<0, n>> : n \in {m \in Names : InFile(m)}}
    /\ \A n \in Names :
           InFile(n) => table.global[<<0, n>>] \in Entries
                            /\ table.global[<<0, n>>].object = FileName(n)
    /\ \A n \in Names :
           InFile(n) /\ ~SharedWithEnumerator(n) => EntryOk(n, table.global[<<0, n>>])

(* sid gives the number of the scope of a construct: they rise.            *)
ScopesOk(sid) ==
    /\ sid \in [DOMAIN source -> Nat]
    /\ \A c \in DOMAIN source : Opens(c) => sid[c] \in 1 .. table.nextScopeId
    /\ \A c, e \in DOMAIN source : Opens(c) /\ Opens(e) /\ c < e => sid[c] < sid[e]

HomeName(sid, d) ==
    IF Tag(d) = "object" /\ source[d].storage = "static"
    THEN StaticName(sid[Scope(d)], source[d].name) ELSE LocalName(sid[Scope(d)], source[d].name)

HoldersOk(sid) == \A d \in DOMAIN source : HasObject(d) => store[d].holder = HomeName(sid, d)

LocalEntry(sid, d) ==
    IF source[d].storage = "static"
    THEN [Entry(HomeName(sid, d), TypeOf(d), "static")
              EXCEPT !.staticInit = IF source[d].init = None THEN None ELSE <<d>>]
    ELSE Entry(HomeName(sid, d), TypeOf(d), "automatic")

BlockEntryOk(sid, d, e) ==
    /\ e \in Entries
    /\ Tag(d) = "enumerator" => e = Enumerator(source[d].name, d)
    /\ Tag(d) = "object" /\ ~HasLinkage(d) => e = LocalEntry(sid, d)
    /\ Tag(d) = "object" /\ HasLinkage(d) =>
           /\ e.object = FileName(source[d].name) /\ e.storage = "extern" /\ e.value = None
           /\ e.type \in ObjectTypes /\ Compatible(e.type, TypeOf(d))

InValues(d) == InOpenFunction(d) /\ Tag(d) \in {"object", "enumerator"}

KeyOf(sid, d) == <<sid[Scope(d)], source[d].name>>

ValuesOk(sid, fn) ==
    /\ DOMAIN fn.values = {KeyOf(sid, d) : d \in {e \in DOMAIN source : InValues(e)}}
    /\ \A d \in DOMAIN source : InValues(d) => BlockEntryOk(sid, d, fn.values[KeyOf(sid, d)])

(* The parameters of the function at g stand behind it.                    *)
ArgumentsOk(sid, g, arguments) ==
    /\ Sequence(arguments)
    /\ \A k \in DOMAIN arguments :
           /\ g + k \in DOMAIN source /\ Tag(g + k) = "parameter" /\ source[g + k].path = <<g>>
           /\ arguments[k] = Entry(LocalName(sid[g], source[g + k].name), "int", "automatic")
    /\ \A d \in DOMAIN source :
           Tag(d) = "parameter" /\ source[d].path[1] = g => \E k \in DOMAIN arguments : d = g + k

LinkedThen(g) == {e \in LinkedOf(source[g].name) : e <= g}

ExportedThen(g) ==
    /\ \A e \in LinkedThen(g) : source[e].storage # "static"
    /\ \E e \in LinkedThen(g) : ~source[e].inline \/ source[e].storage = "extern"

FunctionOk(sid) ==
    path # <<>> =>
        LET fn == OpenFunction(table)
        IN  /\ table.function = <<fn>>
            /\ fn = [values |-> fn.values, arguments |-> fn.arguments, blockIds |-> fn.blockIds,
                     function |-> fn.function]
            /\ fn.blockIds \in Seq(Nat) /\ Rising(fn.blockIds)
            /\ ToSet(fn.blockIds) = {sid[c] : c \in OpenScopes}
            /\ ValuesOk(sid, fn)
            /\ ArgumentsOk(sid, path[1], fn.arguments)
            /\ ProvidesExternalDefinition(fn.function) = ExportedThen(path[1])

EndedStatics == {e \in DOMAIN source : IsStaticLocal(e) /\ FunctionEnded(e)}

AutomaticsOf(g) ==
    {d \in DOMAIN source : Tag(d) = "object" /\ HasObject(d) /\ InFunction(d, g) /\ ~IsStaticLocal(d)}

FrameOk(sid, f) ==
    /\ f.at \in DOMAIN source /\ Tag(f.at) = "definition" /\ (path = <<>> \/ path[1] # f.at)
    /\ f.locals = {LocalEntry(sid, d) : d \in AutomaticsOf(f.at)}
    /\ ArgumentsOk(sid, f.at, f.arguments)
    /\ f.exported = ExportedThen(f.at)

EndedOk(sid) ==
    /\ table.functionScopeDataHomes = {LocalEntry(sid, d) : d \in EndedStatics}
    /\ Sequence(frames)
    /\ \A k \in DOMAIN frames : FrameOk(sid, frames[k])

TableOk ==
    /\ table = [global |-> table.global, function |-> table.function,
                functionScopeDataHomes |-> table.functionScopeDataHomes,
                nextScopeId |-> table.nextScopeId]
    /\ table.nextScopeId \in Nat
    /\ path = <<>> => table.function = None

Books(sid) ==
    /\ TreeOk /\ DeclarationsOk /\ TableOk /\ GlobalOk
    /\ ScopesOk(sid) /\ HoldersOk(sid) /\ FunctionOk(sid) /\ EndedOk(sid)

-----------------------------------------------------------------------------
(* Numbers and sequences.                                                  *)

LEMMA Least ==
    ASSUME NEW S, S \subseteq Nat, S # {}
    PROVE  \E m \in S : \A k \in S : m <= k
<1> DEFINE R == OpToRel(<, Nat)
<1>1. IsWellFoundedOn(R, Nat) BY NatLessThanWellFounded
<1>2. \A i, j \in Nat : i < j => <<i, j>> \in R BY DEF OpToRel
<1> HIDE DEF R
<1>3. \E m \in S : \A k \in S : ~ (<<k, m>> \in R) BY <1>1, WFMin, Zenon
<1>4. PICK m \in S : \A k \in S : ~ (<<k, m>> \in R) BY <1>3, Zenon
<1>5. \A k \in S : ~ (k < m) BY <1>2, <1>4, Zenon
<1>6. \A k \in S : k \in Nat /\ m \in Nat OBVIOUS
<1> QED BY <1>4, <1>5, <1>6, SMT

LEMMA Greatest ==
    ASSUME NEW n \in Nat, NEW S, S \subseteq 1 .. n, S # {}
    PROVE  Max(S) \in S /\ \A k \in S : k <= Max(S)
<1> DEFINE T == {n - k : k \in S}
<1>1. T \subseteq Nat /\ T # {}
  <2>1. \A k \in S : n - k \in Nat OBVIOUS
  <2> QED BY <2>1
<1>2. PICK t \in T : \A k \in T : t <= k BY <1>1, Least
<1>3. PICK m \in S : t = n - m BY <1>2
<1>4. \A k \in S : k <= m
  <2> TAKE k \in S
  <2>1. n - k \in T OBVIOUS
  <2>2. n - m <= n - k BY <1>2, <1>3, <2>1
  <2>3. k \in 1 .. n /\ m \in 1 .. n OBVIOUS
  <2> HIDE DEF T
  <2> QED BY <2>2, <2>3
<1>5. S \subseteq Nat OBVIOUS
<1>6. Max(S) = m BY <1>4, <1>5, MaxIs
<1> QED BY <1>4, <1>6

LEMMA Prefix ==
    ASSUME NEW p \in Seq(Nat), NEW k \in 0 .. Len(p)
    PROVE  /\ SubSeq(p, 1, k) \in Seq(Nat) /\ Len(SubSeq(p, 1, k)) = k
           /\ DOMAIN SubSeq(p, 1, k) = 1 .. k
           /\ \A i \in 1 .. k : SubSeq(p, 1, k)[i] = p[i] /\ i \in DOMAIN p
OBVIOUS

(* A chain is determined by its last place: what ends at an item of p is a *)
(* prefix of p.                                                            *)
LEMMA Chained ==
    ASSUME NEW p \in Seq(Nat), Chain(p), NEW q \in Seq(Nat), Chain(q), q # <<>>,
           NEW k \in DOMAIN p, p[k] = Last(q)
    PROVE  q = SubSeq(p, 1, k)
<1> DEFINE n == Len(q)
<1>1. n \in Nat /\ n >= 1 /\ DOMAIN q = 1 .. n /\ Last(q) = q[n] BY DEF Last
<1>2. k \in 1 .. Len(p) /\ k \in Nat /\ Len(p) \in Nat OBVIOUS
<1>3. source[p[k]].path = SubSeq(p, 1, k - 1) BY DEF Chain
<1>4. source[q[n]].path = SubSeq(q, 1, n - 1)
  <2>1. n \in DOMAIN q BY <1>1
  <2> HIDE DEF n
  <2> QED BY <2>1 DEF Chain
<1>5. SubSeq(p, 1, k - 1) = SubSeq(q, 1, n - 1) BY <1>1, <1>3, <1>4
<1>6. k - 1 \in 0 .. Len(p) /\ n - 1 \in 0 .. Len(q) BY <1>1, <1>2
<1>7. k = n
  <2>1. Len(SubSeq(p, 1, k - 1)) = k - 1 /\ Len(SubSeq(q, 1, n - 1)) = n - 1 BY <1>6, Prefix
  <2> HIDE DEF n
  <2> QED BY <1>1, <1>2, <1>5, <2>1
<1>8. \A i \in 1 .. n : q[i] = p[i]
  <2>1. \A i \in 1 .. n - 1 : SubSeq(p, 1, k - 1)[i] = p[i] /\ SubSeq(q, 1, n - 1)[i] = q[i]
    BY <1>6, <1>7, Prefix
  <2>2. q[n] = p[n] BY <1>1, <1>7
  <2> HIDE DEF n
  <2> TAKE i \in 1 .. n
  <2>3. CASE i = n BY <2>2, <2>3
  <2>4. CASE i # n BY <1>1, <2>4, <1>5, <2>1
  <2> QED BY <2>3, <2>4
<1>9. k \in 0 .. Len(p) BY <1>2
<1>10. /\ SubSeq(p, 1, k) \in Seq(Nat) /\ Len(SubSeq(p, 1, k)) = k
       /\ \A i \in 1 .. k : SubSeq(p, 1, k)[i] = p[i]
  BY <1>9, Prefix
<1> DEFINE s == SubSeq(p, 1, k)
<1>11. s \in Seq(Nat) /\ Len(s) = n /\ \A i \in 1 .. n : s[i] = q[i] BY <1>7, <1>8, <1>10
<1> HIDE DEF s, n
<1>12. s = q BY <1>11, <1>1
<1> QED BY <1>12 DEF s

-----------------------------------------------------------------------------
(* Scopes.                                                                 *)

LEMMA Places ==
    ASSUME Good, TreeOk
    PROVE  /\ Len(source) \in Nat /\ DOMAIN source = 1 .. Len(source)
           /\ path \in Seq(Nat) /\ Chain(path) /\ Rising(path) /\ ToSet(path) \subseteq DOMAIN source
           /\ Len(path) \in Nat /\ DOMAIN path = 1 .. Len(path)
           /\ \A k \in DOMAIN path : path[k] \in DOMAIN source /\ path[k] \in Nat
           /\ \A d \in DOMAIN source :
                  /\ source[d].path \in Seq(Nat) /\ Chain(source[d].path)
                  /\ Scope(d) = 0 <=> source[d].path = <<>>
                  /\ Scope(d) # 0 => /\ Scope(d) \in DOMAIN source /\ Scope(d) < d
                                     /\ Scope(d) = Last(source[d].path)
                                     /\ Scope(d) \in ToSet(source[d].path)
                  /\ Scope(d) \in Nat
<1>1. Len(source) \in Nat /\ DOMAIN source = 1 .. Len(source) BY DEF Good, TypesOk, Sequence
<1>2. path \in Seq(Nat) /\ Chain(path) /\ Rising(path) /\ ToSet(path) \subseteq DOMAIN source
  BY DEF Good, PathOk, TreeOk
<1>3. Len(path) \in Nat /\ DOMAIN path = 1 .. Len(path) BY <1>2
<1>4. \A k \in DOMAIN path : path[k] \in DOMAIN source /\ path[k] \in Nat
  BY <1>2, <1>3 DEF Chain
<1>5. ASSUME NEW d \in DOMAIN source
      PROVE  /\ source[d].path \in Seq(Nat) /\ Chain(source[d].path)
             /\ Scope(d) = 0 <=> source[d].path = <<>>
             /\ Scope(d) # 0 => /\ Scope(d) \in DOMAIN source /\ Scope(d) < d
                                /\ Scope(d) = Last(source[d].path)
                                /\ Scope(d) \in ToSet(source[d].path)
             /\ Scope(d) \in Nat
  <2> DEFINE p == source[d].path
  <2>1. p \in Seq(Nat) /\ Chain(p) /\ \A z \in ToSet(p) : z < d BY DEF Good, PlacedOk, TreeOk
  <2>2. CASE p = <<>> BY <2>1, <2>2 DEF Scope
  <2>3. CASE p # <<>>
    <3>1. Len(p) \in DOMAIN p /\ Last(p) = p[Len(p)] BY <2>1, <2>3 DEF Last
    <3>2. Last(p) \in DOMAIN source BY <2>1, <3>1 DEF Chain
    <3>3. Last(p) \in ToSet(p) BY <3>1 DEF ToSet
    <3>4. Scope(d) = Last(p) BY <2>3 DEF Scope
    <3> HIDE DEF p
    <3>5. Scope(d) \in DOMAIN source /\ Scope(d) < d /\ Scope(d) # 0
      BY <1>1, <2>1, <3>2, <3>3, <3>4
    <3> QED BY <1>1, <2>1, <2>3, <3>3, <3>4, <3>5 DEF p
  <2> QED BY <2>2, <2>3
<1> QED BY <1>1, <1>2, <1>3, <1>4, <1>5

(* An item is in the scope that is its last construct.                     *)
LEMMA PathOfScope ==
    ASSUME Good, TreeOk, NEW d \in DOMAIN source, NEW k \in DOMAIN path, Scope(d) = path[k]
    PROVE  source[d].path = SubSeq(path, 1, k)
<1>1. path[k] \in DOMAIN source /\ DOMAIN source = 1 .. Len(source) BY Places
<1>2. Scope(d) # 0 BY <1>1
<1>3. source[d].path # <<>> /\ source[d].path \in Seq(Nat) /\ Chain(source[d].path)
      /\ Scope(d) = Last(source[d].path)
  BY <1>2, Places
<1>4. path \in Seq(Nat) /\ Chain(path) BY Places
<1> QED BY <1>3, <1>4, Chained

LEMMA SameScopePath ==
    ASSUME Good, TreeOk, NEW d \in DOMAIN source, NEW e \in DOMAIN source
    PROVE  Scope(d) = Scope(e) <=> source[d].path = source[e].path
<1>1. source[d].path = source[e].path => Scope(d) = Scope(e) BY DEF Scope
<1>2. ASSUME Scope(d) = Scope(e), Scope(d) # 0 PROVE source[d].path = source[e].path
  <2> DEFINE p == source[d].path
             q == source[e].path
  <2>1. p \in Seq(Nat) /\ Chain(p) /\ q \in Seq(Nat) /\ Chain(q) /\ p # <<>> /\ q # <<>>
        /\ Last(p) = Last(q)
    BY <1>2, Places
  <2> HIDE DEF p, q
  <2>2. Len(p) \in DOMAIN p /\ p[Len(p)] = Last(p) BY <2>1 DEF Last
  <2>3. q = SubSeq(p, 1, Len(p)) BY <2>1, <2>2, Chained
  <2>4. SubSeq(p, 1, Len(p)) = p BY <2>1
  <2> QED BY <2>3, <2>4 DEF p, q
<1>3. ASSUME Scope(d) = Scope(e), Scope(d) = 0 PROVE source[d].path = source[e].path
  BY <1>3, Places
<1> QED BY <1>1, <1>2, <1>3

LEMMA PrefixByScope ==
    ASSUME Good, TreeOk, NEW e \in DOMAIN source, NEW p \in Seq(Nat), Chain(p)
    PROVE  IsPrefix(source[e].path, p) <=> Scope(e) \in {0} \cup ToSet(p)
<1> DEFINE q == source[e].path
<1>1. q \in Seq(Nat) /\ Chain(q) BY Places
<1>2. CASE q = <<>> BY <1>2, Places, <1>1 DEF IsPrefix
<1>3. CASE q # <<>>
  <2>1. Scope(e) # 0 /\ Scope(e) = Last(q) BY <1>3, Places
  <2> HIDE DEF q
  <2>2. Len(q) \in Nat /\ Len(q) >= 1 /\ Len(p) \in Nat /\ DOMAIN p = 1 .. Len(p) /\ Last(q) = q[Len(q)]
    BY <1>1, <1>3 DEF Last
  <2>3. ASSUME IsPrefix(q, p) PROVE Last(q) \in ToSet(p)
    <3>1. Len(q) <= Len(p) /\ SubSeq(q, 1, Len(q)) = SubSeq(p, 1, Len(q)) BY <2>3 DEF IsPrefix
    <3>2. Len(q) \in 0 .. Len(q) /\ Len(q) \in 0 .. Len(p) /\ Len(q) \in 1 .. Len(q) BY <2>2, <3>1
    <3>3. SubSeq(q, 1, Len(q))[Len(q)] = q[Len(q)] BY <1>1, <3>2, Prefix
    <3>4. SubSeq(p, 1, Len(q))[Len(q)] = p[Len(q)] BY <3>2, Prefix
    <3>5. Len(q) \in DOMAIN p BY <2>2, <3>1
    <3> QED BY <2>2, <3>1, <3>3, <3>4, <3>5 DEF ToSet
  <2>4. ASSUME Last(q) \in ToSet(p) PROVE IsPrefix(q, p)
    <3>1. PICK k \in DOMAIN p : p[k] = Last(q) BY <2>4 DEF ToSet
    <3>2. q = SubSeq(p, 1, k) BY <1>1, <1>3, <3>1, Chained
    <3>3. k \in 0 .. Len(p) BY <2>2, <3>1
    <3>4. Len(q) = k BY <3>2, <3>3, Prefix
    <3>5. SubSeq(q, 1, Len(q)) = q BY <1>1
    <3> QED BY <2>2, <3>2, <3>3, <3>4, <3>5 DEF IsPrefix
  <2> QED BY <2>1, <2>3, <2>4 DEF q
<1> QED BY <1>2, <1>3

LEMMA VisibleIs ==
    ASSUME Good, TreeOk, NEW n
    PROVE  Visible(n) = {d \in Declarations(n) : Scope(d) \in {0} \cup ToSet(path)}
BY Places, PrefixByScope DEF Visible, Declarations

(* What is declared further inside was declared later.                     *)
LEMMA InnerLater ==
    ASSUME Good, TreeOk, NEW d \in DOMAIN source, NEW e \in DOMAIN source,
           Scope(d) \in {0} \cup ToSet(path), Scope(e) \in {0} \cup ToSet(path), Scope(d) < Scope(e)
    PROVE  d < e
<1>1. /\ Len(source) \in Nat /\ DOMAIN source = 1 .. Len(source) /\ path \in Seq(Nat) /\ Rising(path)
      /\ Len(path) \in Nat /\ DOMAIN path = 1 .. Len(path)
      /\ \A k \in DOMAIN path : path[k] \in DOMAIN source /\ path[k] \in Nat
      /\ Scope(d) \in Nat /\ Scope(e) \in Nat /\ (Scope(d) = 0 => source[d].path = <<>>)
      /\ Scope(e) # 0 => Scope(e) < e
  BY Places
<1>2. Scope(e) # 0 BY <1>1
<1>3. PICK k \in DOMAIN path : Scope(e) = path[k] BY <1>2 DEF ToSet
<1>4. \A x \in DOMAIN source, i \in DOMAIN path :
          source[x].path = SubSeq(path, 1, i - 1) => x <= path[i]
  BY DEF TreeOk
<1>5. ASSUME NEW i \in DOMAIN path, i <= k, source[d].path = SubSeq(path, 1, i - 1) PROVE d < e
  <2>1. d <= path[i] BY <1>4, <1>5
  <2>2. path[i] <= path[k]
    <3>1. path[i] \in Nat /\ path[k] \in Nat /\ i \in Nat /\ k \in Nat BY <1>1
    <3>2. i = k \/ i < k BY <1>5, <3>1
    <3>3. i < k => path[i] < path[k] BY <1>1 DEF Rising
    <3> QED BY <3>1, <3>2, <3>3
  <2> QED BY <1>1, <1>2, <1>3, <2>1, <2>2
<1>6. CASE Scope(d) = 0
  <2>1. 1 \in DOMAIN path /\ 1 <= k BY <1>1
  <2>2. SubSeq(path, 1, 1 - 1) = <<>> BY <1>1
  <2> QED BY <1>1, <1>5, <1>6, <2>1, <2>2
<1>7. CASE Scope(d) # 0
  <2>1. PICK j \in DOMAIN path : Scope(d) = path[j] BY <1>7 DEF ToSet
  <2>2. source[d].path = SubSeq(path, 1, j) BY <2>1, PathOfScope
  <2>3. j < k BY <1>3, <2>1, <1>1 DEF Rising
  <2>4. j + 1 \in DOMAIN path /\ j + 1 <= k /\ (j + 1) - 1 = j BY <1>1, <2>3
  <2> QED BY <1>5, <2>2, <2>4
<1> QED BY <1>6, <1>7

-----------------------------------------------------------------------------
(* What a search of the table finds.                                       *)

LocalOf(n) == {d \in Declarations(n) : InValues(d) /\ Scope(d) \in ToSet(path)}

ParametersOf(n) == {d \in Declarations(n) : Tag(d) = "parameter" /\ InOpenFunction(d)}

LEMMA Facts ==
    ASSUME Good, NEW sid, Books(sid)
    PROVE  /\ TreeOk
           /\ \A d \in DOMAIN source : DeclOk(d)
           /\ \A d, e \in DOMAIN source :
                  d # e /\ IsDecl(d) /\ IsDecl(e) /\ source[d].name = source[e].name
                      /\ Scope(d) = Scope(e) => ScopeOk(d, e)
           /\ sid \in [DOMAIN source -> Nat]
           /\ \A c \in DOMAIN source : Opens(c) => sid[c] \in 1 .. table.nextScopeId
           /\ \A c, e \in DOMAIN source : Opens(c) /\ Opens(e) /\ c < e => sid[c] < sid[e]
BY DEF Books, DeclarationsOk, ScopesOk

LEMMA SidIsOneToOne ==
    ASSUME Good, NEW sid, Books(sid), NEW c \in DOMAIN source, NEW e \in DOMAIN source,
           Opens(c), Opens(e)
    PROVE  /\ sid[c] = sid[e] => c = e
           /\ sid[c] <= sid[e] => c <= e
BY Facts, Places

(* What is written inside a function that is open is inside it.            *)
LEMMA InsideOpen ==
    ASSUME Good, TreeOk, NEW d \in DOMAIN source, Scope(d) \in ToSet(path)
    PROVE  path # <<>> /\ InOpenFunction(d)
BY PathOfScope, Places, Prefix DEF ToSet, InOpenFunction

LEMMA HeldBy ==
    ASSUME Good, NEW sid, Books(sid), path # <<>>, NEW n,
           NEW k \in DOMAIN OpenFunction(table).blockIds
    PROVE  <<OpenFunction(table).blockIds[k], n>> \in DOMAIN OpenFunction(table).values
               <=> \E d \in LocalOf(n) : sid[Scope(d)] = OpenFunction(table).blockIds[k]
<1> DEFINE fn == OpenFunction(table)
           id == fn.blockIds[k]
<1>1. /\ ToSet(fn.blockIds) = {sid[c] : c \in OpenScopes}
      /\ DOMAIN fn.values = {KeyOf(sid, d) : d \in {e \in DOMAIN source : InValues(e)}}
  BY DEF Books, FunctionOk, ValuesOk
<1>2. PICK c \in OpenScopes : id = sid[c] BY <1>1 DEF ToSet
<1>3. TreeOk /\ c \in DOMAIN source /\ c \in ToSet(path) /\ Opens(c)
  BY Facts, Places DEF OpenScopes
<1> HIDE DEF fn, id
<1>4. ASSUME <<id, n>> \in DOMAIN fn.values PROVE \E d \in LocalOf(n) : sid[Scope(d)] = id
  <2>1. PICK d \in DOMAIN source : InValues(d) /\ <<id, n>> = KeyOf(sid, d) BY <1>1, <1>4
  <2>2. source[d].name = n /\ sid[Scope(d)] = id BY <2>1 DEF KeyOf
  <2>3. IsDecl(d) /\ Scope(d) # 0 BY <2>1, <1>3, Places DEF InValues, InOpenFunction, IsDecl
  <2>4. Opens(Scope(d)) /\ Scope(d) \in DOMAIN source BY Facts, <1>3, <2>3, Places DEF DeclOk
  <2>5. Scope(d) = c BY <1>2, <1>3, <2>2, <2>4, SidIsOneToOne
  <2>6. d \in LocalOf(n)
    BY <2>1, <1>3, <2>2, <2>5 DEF InValues, LocalOf, Declarations, Declares
  <2> QED BY <2>2, <2>6
<1>5. ASSUME NEW d \in LocalOf(n), sid[Scope(d)] = id PROVE <<id, n>> \in DOMAIN fn.values
  BY <1>5, <1>1 DEF LocalOf, Declarations, Declares, KeyOf
<1> QED BY <1>4, <1>5 DEF fn, id

LEMMA LocalOpens ==
    ASSUME Good, NEW sid, Books(sid), NEW n, NEW d \in LocalOf(n)
    PROVE  /\ d \in DOMAIN source /\ InValues(d) /\ source[d].name = n /\ IsDecl(d)
           /\ Scope(d) \in DOMAIN source /\ Scope(d) \in OpenScopes /\ Opens(Scope(d))
           /\ Scope(d) # 0
BY Facts, Places DEF LocalOf, Declarations, Declares, InValues, IsDecl, InOpenFunction, DeclOk,
   OpenScopes

LEMMA FoundInBlocks ==
    ASSUME Good, NEW sid, Books(sid), path # <<>>, NEW n
    PROVE  /\ LocalOf(n) # {} =>
                  \E d \in LocalOf(n) :
                      /\ \A e \in LocalOf(n) : Scope(e) <= Scope(d)
                      /\ WalkBlockScopes(table, n) = <<OpenFunction(table).values[KeyOf(sid, d)]>>
           /\ LocalOf(n) = {} => WalkBlockScopes(table, n) = FindArgument(OpenFunction(table), n)
<1> DEFINE fn == OpenFunction(table)
           ids == fn.blockIds
           holding == {k \in DOMAIN ids : <<ids[k], n>> \in DOMAIN fn.values}
<1>1. /\ table.function = <<fn>> /\ ids \in Seq(Nat) /\ Rising(ids)
      /\ ToSet(ids) = {sid[c] : c \in OpenScopes}
  BY DEF Books, FunctionOk
<1>2. Len(ids) \in Nat /\ DOMAIN ids = 1 .. Len(ids) BY <1>1
<1>3. ~IsAtFileScope(table) BY <1>1 DEF IsAtFileScope, None
<1>4. \A k \in DOMAIN ids : k \in holding <=> \E d \in LocalOf(n) : sid[Scope(d)] = ids[k]
  BY HeldBy
<1>5. WalkBlockScopes(table, n) =
          IF holding = {} THEN FindArgument(fn, n) ELSE <<fn.values[<<ids[Max(holding)], n>>]>>
  BY <1>3 DEF WalkBlockScopes
<1>6. holding \subseteq 1 .. Len(ids) BY <1>2
<1> HIDE DEF fn, ids, holding
<1>7. ASSUME NEW d \in LocalOf(n) PROVE \E k \in DOMAIN ids : k \in holding /\ sid[Scope(d)] = ids[k]
  <2>1. Scope(d) \in OpenScopes BY LocalOpens
  <2>2. sid[Scope(d)] \in ToSet(ids) BY <1>1, <2>1
  <2>3. PICK k \in DOMAIN ids : sid[Scope(d)] = ids[k] BY <2>2 DEF ToSet
  <2> QED BY <1>4, <2>3
<1>8. ASSUME LocalOf(n) = {} PROVE holding = {} BY <1>2, <1>4, <1>6, <1>8
<1>9. ASSUME LocalOf(n) # {}
      PROVE  \E d \in LocalOf(n) :
                      /\ \A e \in LocalOf(n) : Scope(e) <= Scope(d)
                      /\ WalkBlockScopes(table, n) = <<fn.values[KeyOf(sid, d)]>>
  <2>1. holding # {} BY <1>7, <1>9
  <2> DEFINE m == Max(holding)
  <2>2. m \in holding /\ \A k \in holding : k <= m BY <1>2, <1>6, <2>1, Greatest
  <2> HIDE DEF m
  <2>3. m \in DOMAIN ids BY <1>2, <1>6, <2>2
  <2>4. PICK d \in LocalOf(n) : sid[Scope(d)] = ids[m] BY <1>4, <2>2, <2>3
  <2>5. ASSUME NEW e \in LocalOf(n) PROVE Scope(e) <= Scope(d)
    BY <1>7, <2>2, <1>1, <1>2, <2>3, <2>4, LocalOpens, SidIsOneToOne DEF Rising
  <2>6. KeyOf(sid, d) = <<ids[m], n>> BY LocalOpens, <2>4 DEF KeyOf
  <2>7. WalkBlockScopes(table, n) = <<fn.values[KeyOf(sid, d)]>> BY <1>5, <2>1, <2>6 DEF m
  <2> QED BY <2>5, <2>7
<1> QED BY <1>5, <1>8, <1>9 DEF fn

LEMMA Smallest ==
    ASSUME NEW S, S \subseteq Nat, S # {}
    PROVE  Min(S) \in S
BY Least DEF Min

LEMMA FoundInArguments ==
    ASSUME Good, NEW sid, Books(sid), path # <<>>, NEW n
    PROVE  FindArgument(OpenFunction(table), n) =
               IF ParametersOf(n) = {} THEN None
               ELSE <<Entry(LocalName(sid[path[1]], n), "int", "automatic")>>
<1> DEFINE args == OpenFunction(table).arguments
           g == path[1]
           mine == {k \in DOMAIN args : args[k].object[3] = n}
<1>1. ArgumentsOk(sid, g, args) BY DEF Books, FunctionOk
<1>2. /\ args \in Seq(ToSet(args))
      /\ \A k \in DOMAIN args :
           /\ g + k \in DOMAIN source /\ Tag(g + k) = "parameter" /\ source[g + k].path = <<g>>
           /\ args[k] = Entry(LocalName(sid[g], source[g + k].name), "int", "automatic")
      /\ \A d \in DOMAIN source :
           Tag(d) = "parameter" /\ source[d].path[1] = g => \E k \in DOMAIN args : d = g + k
  BY <1>1 DEF ArgumentsOk, Sequence
<1>3. DOMAIN args = 1 .. Len(args) /\ Len(args) \in Nat BY <1>2
<1> HIDE DEF args
<1>4. \A k \in DOMAIN args : args[k].object[3] = source[g + k].name
  BY <1>2 DEF Entry, LocalName
<1>5. ASSUME NEW d \in ParametersOf(n) PROVE mine # {}
  BY <1>2, <1>4 DEF ParametersOf, Declarations, Declares, InOpenFunction
<1>6. ASSUME NEW k \in mine
      PROVE  /\ ParametersOf(n) # {}
             /\ args[k] = Entry(LocalName(sid[g], n), "int", "automatic")
  <2>1. k \in DOMAIN args /\ source[g + k].name = n BY <1>4
  <2>2. g + k \in DOMAIN source /\ Tag(g + k) = "parameter" /\ source[g + k].path = <<g>>
    BY <1>2, <2>1
  <2>3. g + k \in ParametersOf(n)
    <3>1. <<g>> # <<>> /\ <<g>>[1] = g OBVIOUS
    <3> HIDE DEF g
    <3>2. InOpenFunction(g + k) BY <2>2, <3>1 DEF InOpenFunction, g
    <3> QED BY <2>1, <2>2, <3>2 DEF ParametersOf, Declarations, Declares
  <2> QED BY <1>2, <2>1, <2>3
<1>7. mine \subseteq Nat BY <1>3
<1>8. FindArgument(OpenFunction(table), n) = IF mine = {} THEN None ELSE <<args[Min(mine)]>>
  BY DEF FindArgument, args
<1> HIDE DEF mine
<1>9. CASE mine = {} BY <1>5, <1>8, <1>9
<1>10. CASE mine # {} BY <1>7, <1>10, Smallest, <1>6, <1>8
<1> QED BY <1>9, <1>10

LEMMA FoundInFile ==
    ASSUME NEW sid, Books(sid), NEW n \in Names
    PROVE  FileScope(table, n) = IF InFile(n) THEN <<table.global[<<0, n>>]>> ELSE None
BY DEF Books, GlobalOk, FileScope, At

-----------------------------------------------------------------------------
(* What a name means.                                                      *)

(* The prototypes in blocks.                                               *)
InnerPrototypes(n) == {d \in Declarations(n) : Tag(d) = "prototype" /\ Scope(d) # 0}

LEMMA VisibleKinds ==
    ASSUME Good, NEW sid, Books(sid), NEW n, NEW d \in Visible(n)
    PROVE  /\ d \in DOMAIN source /\ source[d].name = n /\ IsDecl(d)
           /\ Scope(d) \in Nat /\ Scope(d) \in {0} \cup ToSet(path)
           /\ \/ Scope(d) = 0 /\ source[d].path = <<>> /\ FileScopeItem(d)
              \/ d \in LocalOf(n) /\ ~FileScopeItem(d) /\ Scope(d) # 0
              \/ d \in ParametersOf(n) /\ ~FileScopeItem(d) /\ Scope(d) # 0
              \/ d \in InnerPrototypes(n) /\ ~FileScopeItem(d) /\ Scope(d) # 0
BY Facts, VisibleIs, Places, InsideOpen DEF Declarations, Declares, IsDecl, FileScopeItem,
   DeclOk, LocalOf, InValues, ParametersOf, InnerPrototypes

LEMMA AreVisible ==
    ASSUME Good, NEW sid, Books(sid), NEW n
    PROVE  /\ LocalOf(n) \subseteq Visible(n) /\ AtFile(n) \subseteq Visible(n)
           /\ path # <<>> => ParametersOf(n) \subseteq Visible(n)
           /\ \A d \in ParametersOf(n) :
                  path # <<>> => /\ source[d].path = <<path[1]>> /\ Scope(d) = path[1]
                                 /\ path[1] \in DOMAIN source
           /\ path = <<>> => LocalOf(n) = {}
<1>1. TreeOk BY Facts
<1>2. Visible(n) = {d \in Declarations(n) : Scope(d) \in {0} \cup ToSet(path)} BY <1>1, VisibleIs
<1>3. LocalOf(n) \subseteq Visible(n) BY <1>2 DEF LocalOf
<1>4. AtFile(n) \subseteq Visible(n) BY <1>2 DEF AtFile, FileScopeItem, Scope
<1>5. ASSUME NEW d \in ParametersOf(n), path # <<>>
      PROVE  d \in Visible(n) /\ source[d].path = <<path[1]>> /\ Scope(d) = path[1]
             /\ path[1] \in DOMAIN source
  <2>1. d \in Declarations(n) /\ d \in DOMAIN source /\ Tag(d) = "parameter" /\ source[d].path # <<>>
        /\ source[d].path[1] = path[1]
    BY DEF ParametersOf, InOpenFunction, Declarations
  <2>2. Len(source[d].path) = 1 BY <2>1, Facts DEF DeclOk
  <2>3. source[d].path \in Seq(Nat) BY <1>1, <2>1, Places
  <2>4. source[d].path = <<path[1]>>
    <3> DEFINE p == source[d].path
    <3>1. p \in Seq(Nat) /\ Len(p) = 1 /\ p[1] = path[1] BY <2>1, <2>2, <2>3
    <3> HIDE DEF p
    <3>2. p = <<p[1]>> BY <3>1
    <3> QED BY <3>1, <3>2 DEF p
  <2>5. Scope(d) = path[1] BY <2>1, <2>2, <2>4 DEF Scope, Last
  <2>6. path[1] \in ToSet(path) /\ path[1] \in DOMAIN source BY <1>1, Places, <1>5 DEF ToSet
  <2> QED BY <1>2, <2>1, <2>4, <2>5, <2>6
<1>6. path = <<>> => LocalOf(n) = {} BY <1>1, InsideOpen DEF LocalOf, Declarations
<1> QED BY <1>3, <1>4, <1>5, <1>6

LEMMA LastVisible ==
    ASSUME Good, NEW sid, Books(sid), NEW n, Visible(n) # {}
    PROVE  /\ Max(Visible(n)) \in Visible(n)
           /\ \A d \in Visible(n) : d <= Max(Visible(n)) /\ Scope(d) <= Scope(Max(Visible(n)))
<1>1. TreeOk BY Facts
<1>2. Visible(n) \subseteq 1 .. Len(source) /\ Len(source) \in Nat
  BY <1>1, Places DEF Visible, Declarations
<1> DEFINE m == Max(Visible(n))
<1>3. m \in Visible(n) /\ \A d \in Visible(n) : d <= m BY <1>2, Greatest
<1> HIDE DEF m
<1>4. ASSUME NEW d \in Visible(n) PROVE Scope(d) <= Scope(m)
  BY <1>3, VisibleKinds, <1>1, InnerLater, <1>2
<1> QED BY <1>3, <1>4 DEF m

(* A function declared where the name has an object without linkage.       *)
LEMMA HiddenByPrototype ==
    ASSUME Good, NEW sid, Books(sid), NEW n, NEW b \in Visible(n), b \in InnerPrototypes(n),
           NEW e \in Visible(n), e <= b, Scope(e) <= Scope(b), Scope(e) # 0, ~HasLinkage(e)
    PROVE  HidesNoObject(n)
<1>1. TreeOk BY Facts
<1>2. /\ b \in DOMAIN source /\ Scope(b) # 0 /\ ~FileScopeItem(b) /\ Tag(b) = "prototype"
      /\ b \in Declarations(n) /\ Scope(b) \in {0} \cup ToSet(path)
  BY VisibleKinds, <1>1, Places DEF InnerPrototypes, Declarations, FileScopeItem
<1>3. /\ e \in DOMAIN source /\ e \in Declarations(n) /\ ~FileScopeItem(e)
      /\ Scope(e) \in {0} \cup ToSet(path)
  BY VisibleKinds, <1>1, Places DEF Visible, Declarations, FileScopeItem
<1>4. b \in LinkedInBlock(n) BY <1>2 DEF LinkedInBlock, HasLinkage, IsFunctionItem
<1>5. IsPrefix(source[e].path, source[b].path)
  <2>1. PICK k \in DOMAIN path : Scope(b) = path[k] BY <1>2 DEF ToSet
  <2>2. PICK j \in DOMAIN path : Scope(e) = path[j] BY <1>3 DEF ToSet
  <2>3. /\ path \in Seq(Nat) /\ Rising(path) /\ Len(path) \in Nat /\ DOMAIN path = 1 .. Len(path)
        /\ path[j] \in Nat /\ path[k] \in Nat
    BY <1>1, <2>1, <2>2, Places
  <2>4. j <= k BY <2>3, <2>1, <2>2 DEF Rising
  <2>5. source[b].path = SubSeq(path, 1, k) BY <1>1, <1>2, <2>1, PathOfScope
  <2>6. j \in 0 .. Len(path) /\ k \in 0 .. Len(path) /\ j \in 1 .. k BY <2>3, <2>4
  <2>7. source[b].path[j] = path[j] /\ DOMAIN source[b].path = 1 .. k BY <2>3, <2>5, <2>6, Prefix
  <2>8. Scope(e) \in ToSet(source[b].path) BY <2>2, <2>6, <2>7 DEF ToSet
  <2>9. source[b].path \in Seq(Nat) /\ Chain(source[b].path) BY <1>1, <1>2, Places
  <2> QED BY <1>1, <1>3, <2>8, <2>9, PrefixByScope
<1>6. e \in Scoped(b, n) BY <1>3, <1>5 DEF Scoped
<1> QED BY <1>2, <1>3, <1>4, <1>6 DEF HidesNoObject, IsFunctionItem

LEMMA LinkedEntry ==
    ASSUME Good, NEW sid, Books(sid), NEW n \in Names, LinkedOf(n) # {}, ~SharedWithEnumerator(n)
    PROVE  InFile(n) /\ LinkedEntryOk(n, table.global[<<0, n>>])
BY DEF Books, GlobalOk, InFile, EntryOk

(* All that a name with linkage is declared as is of one kind.             *)
LEMMA OneKind ==
    ASSUME Good, NEW sid, Books(sid), NEW n \in Names, ~SharedWithEnumerator(n),
           NEW d \in LinkedOf(n), NEW e \in LinkedOf(n)
    PROVE  IsFunctionItem(d) <=> IsFunctionItem(e)
BY LinkedEntry DEF LinkedEntryOk

(* The name has a declaration in a block or among the parameters.          *)
LEMMA LocalMeaning ==
    ASSUME Good, NEW sid, Books(sid), NEW n \in Names, ~Confused(n), path # <<>>, LocalOf(n) # {}
    PROVE  Identify(table, n) = Meaning(Visible(n))
<1> DEFINE V == Visible(n)
           m == Max(V)
<1>1. PICK d \in LocalOf(n) :
          /\ \A e \in LocalOf(n) : Scope(e) <= Scope(d)
          /\ WalkBlockScopes(table, n) = <<OpenFunction(table).values[KeyOf(sid, d)]>>
  BY FoundInBlocks
<1>2. d \in V BY AreVisible
<1>3. m \in V /\ \A e \in V : e <= m /\ Scope(e) <= Scope(m) BY <1>2, LastVisible
<1> HIDE DEF V, m
<1>4. d \in DOMAIN source /\ InValues(d) /\ source[d].name = n /\ Scope(d) # 0 /\ Scope(d) \in Nat
      /\ IsDecl(d)
  BY <1>2, LocalOpens, VisibleKinds DEF V
<1>5. m \in DOMAIN source /\ source[m].name = n /\ IsDecl(m) /\ Scope(m) \in Nat
  BY <1>3, VisibleKinds DEF V
<1>6. Scope(m) # 0 BY <1>2, <1>3, <1>4, <1>5
<1>7. ASSUME m \in InnerPrototypes(n) PROVE FALSE
  BY <1>7, <1>4, OneKind, <1>2, <1>3, HiddenByPrototype DEF LinkedOf, LocalOf, InnerPrototypes,
     HasLinkage, IsFunctionItem, InValues, Confused, V
<1>8. ASSUME m \in ParametersOf(n) PROVE FALSE
  <2>1. Scope(m) = path[1] /\ Tag(m) = "parameter" BY <1>8, AreVisible DEF ParametersOf
  <2>2. Scope(d) = path[1]
    <3>1. InOpenFunction(d) BY <1>4 DEF InValues
    <3>2. PICK k \in DOMAIN path : Scope(d) = path[k] BY DEF LocalOf, ToSet
    <3>3. path \in Seq(Nat) /\ Rising(path) /\ DOMAIN path = 1 .. Len(path) /\ Len(path) \in Nat
      BY Facts, Places
    <3>4. 1 \in DOMAIN path /\ k \in Nat /\ 1 <= k /\ path[1] \in Nat /\ path[k] \in Nat
      BY <3>2, <3>3
    <3>5. 1 < k => path[1] < path[k] BY <3>3, <3>4 DEF Rising
    <3>6. Scope(d) <= Scope(m) BY <1>2, <1>3
    <3>7. k = 1 \/ 1 < k BY <3>4
    <3>8. ~(path[1] < path[k]) BY <2>1, <3>2, <3>4, <3>6
    <3> QED BY <3>2, <3>5, <3>7, <3>8
  <2>3. d # m /\ Scope(d) = Scope(m)
    BY <1>4, <2>1, <2>2 DEF InValues
  <2>4. ScopeOk(d, m) BY <1>4, <1>5, <2>3, Facts
  <2>5. Tag(d) \in {"object", "enumerator"} BY <1>4 DEF InValues
  <2>6. ~HasLinkage(m) BY <2>1 DEF HasLinkage, IsFunctionItem
  <2> QED BY <1>6, <2>1, <2>3, <2>4, <2>5, <2>6 DEF ScopeOk
<1>9. m \in LocalOf(n)
  BY <1>3, <1>6, <1>7, <1>8, VisibleKinds DEF V
<1>10. Scope(m) = Scope(d)
  BY <1>1, <1>2, <1>3, <1>4, <1>5, <1>9
<1> DEFINE e == OpenFunction(table).values[KeyOf(sid, m)]
<1>11. KeyOf(sid, m) = KeyOf(sid, d) BY <1>4, <1>5, <1>10 DEF KeyOf
<1>12. InValues(m) BY <1>9, LocalOpens
<1>13. BlockEntryOk(sid, m, e) BY <1>5, <1>12 DEF Books, FunctionOk, ValuesOk
<1>14. Find(table, n) = <<e>>
  <2>1. WalkBlockScopes(table, n) = <<e>> BY <1>1, <1>11
  <2> HIDE DEF e
  <2>2. <<e>> # None BY DEF None
  <2> QED BY <2>1, <2>2 DEF Find
<1> HIDE DEF e
<1>15. Meaning(Visible(n)) = Denoted(m) BY <1>3 DEF Meaning, V, m
<1>16. Identify(table, n) =
          IF e.value # None THEN <<"constant", e.value[1]>>
          ELSE IF e.type \in FunctionTypes THEN <<"function", n>> ELSE <<"object", e.object>>
  BY <1>14 DEF None, Identify, IsEnumerator, IsFunction
<1>17. CASE Tag(m) = "enumerator"
  BY <1>5, <1>13, <1>17, <1>15, <1>16 DEF BlockEntryOk, Enumerator, Entry, None, Denoted,
     IsFunctionItem
<1>18. CASE Tag(m) = "object"
  <2>1. Denoted(m) = <<"object", IF HasLinkage(m) THEN FileName(n) ELSE store[m].holder>>
    BY <1>5, <1>18 DEF Denoted, IsFunctionItem
  <2>2. CASE HasLinkage(m)
    BY <1>5, <1>13, <1>18, <2>2, <1>15, <1>16, <2>1 DEF BlockEntryOk, ObjectTypes,
       FunctionTypes
  <2>3. CASE ~HasLinkage(m)
    <3>1. e = LocalEntry(sid, m) BY <1>13, <1>18, <2>3 DEF BlockEntryOk
    <3>2. TypeOf(m) \in ObjectTypes BY <1>5, <1>18, Facts DEF DeclOk, TypeOf, ObjectTypes
    <3>3. e.object = HomeName(sid, m) /\ e.value = None /\ e.type = TypeOf(m)
      BY <3>1 DEF LocalEntry, Entry
    <3>4. e.type \notin FunctionTypes BY <3>2, <3>3 DEF ObjectTypes, FunctionTypes
    <3>5. store[m].holder = HomeName(sid, m)
      BY <1>18, <2>3, <1>5 DEF HasObject, Books, HoldersOk
    <3> QED BY <1>15, <1>16, <2>1, <2>3, <3>3, <3>4, <3>5
  <2> QED BY <2>2, <2>3
<1> QED BY <1>12, <1>17, <1>18 DEF InValues

LEMMA ParameterMeaning ==
    ASSUME Good, NEW sid, Books(sid), NEW n \in Names, ~Confused(n), path # <<>>, LocalOf(n) = {},
           ParametersOf(n) # {}
    PROVE  Identify(table, n) = Meaning(Visible(n))
<1> DEFINE V == Visible(n)
           m == Max(V)
           e == Entry(LocalName(sid[path[1]], n), "int", "automatic")
<1>1. PICK d \in ParametersOf(n) : TRUE OBVIOUS
<1>2. d \in V /\ Scope(d) = path[1] BY AreVisible
<1>3. m \in V /\ \A x \in V : x <= m /\ Scope(x) <= Scope(m) BY <1>2, LastVisible
<1> HIDE DEF V, m, e
<1>4. d \in DOMAIN source /\ Tag(d) = "parameter" /\ Scope(d) # 0 /\ Scope(d) \in Nat
      /\ ~HasLinkage(d)
  BY <1>2, VisibleKinds DEF ParametersOf, InOpenFunction, FileScopeItem, V, HasLinkage,
     IsFunctionItem
<1>5. m \in DOMAIN source /\ source[m].name = n /\ IsDecl(m) /\ Scope(m) \in Nat
  BY <1>3, VisibleKinds DEF V
<1>6. Scope(m) # 0 BY <1>2, <1>3, <1>4, <1>5
<1>7. ASSUME m \in InnerPrototypes(n) PROVE FALSE
  BY <1>2, <1>3, <1>4, <1>7, HiddenByPrototype DEF V, Confused
<1>8. m \in ParametersOf(n) BY <1>3, <1>6, <1>7, VisibleKinds DEF V
<1>9. Tag(m) = "parameter" /\ Scope(m) = path[1] BY <1>8, AreVisible DEF ParametersOf
<1>10. Find(table, n) = <<e>> BY FoundInBlocks, FoundInArguments DEF e, None, Find
<1>11. Identify(table, n) = <<"object", LocalName(sid[path[1]], n)>>
  BY <1>10 DEF None, e, Entry, FunctionTypes, Identify, IsEnumerator, IsFunction
<1>12. Meaning(Visible(n)) = Denoted(m) BY <1>3 DEF Meaning, V, m
<1>13. Denoted(m) = <<"object", store[m].holder>>
  BY <1>9 DEF Denoted, IsFunctionItem, HasLinkage
<1>14. store[m].holder = LocalName(sid[path[1]], n)
  BY <1>9, <1>5 DEF HasObject, HasLinkage, IsFunctionItem, Books, HoldersOk, HomeName
<1> QED BY <1>11, <1>12, <1>13, <1>14

LEMMA FileMeaning ==
    ASSUME Good, NEW sid, Books(sid), NEW n \in Names, ~Confused(n), LocalOf(n) = {},
           path # <<>> => ParametersOf(n) = {}
    PROVE  Identify(table, n) = Meaning(Visible(n))
<1> DEFINE V == Visible(n)
           m == Max(V)
           e == table.global[<<0, n>>]
<1>1. WalkBlockScopes(table, n) = None
  BY FoundInBlocks, FoundInArguments DEF Books, TableOk, WalkBlockScopes, IsAtFileScope
<1>2. Find(table, n) = IF InFile(n) THEN <<e>> ELSE None BY <1>1, FoundInFile DEF Find
<1> HIDE DEF V, m, e
<1>3. ASSUME NEW d \in V
      PROVE  /\ d \in DOMAIN source /\ d \in Declarations(n)
             /\ d \in InnerPrototypes(n) \/ FileScopeItem(d)
  BY Facts, VisibleKinds, Places, InsideOpen DEF V, Visible, Declarations, ParametersOf,
     InOpenFunction
<1>4. ASSUME NEW d \in V PROVE d \in LinkedOf(n) \/ d \in FileEnumerators(n)
  <2>1. CASE d \in InnerPrototypes(n)
    BY <2>1 DEF LinkedOf, InnerPrototypes, HasLinkage, IsFunctionItem
  <2>2. CASE FileScopeItem(d)
    <3>1. d \in Declarations(n) /\ d \in DOMAIN source BY <1>3
    <3>2. IsDecl(d) BY <3>1 DEF Declarations, Declares, IsDecl
    <3>3. Tag(d) # "parameter"
      <4>1. Tag(d) = "parameter" => Len(source[d].path) = 1 BY <3>1, Facts DEF DeclOk
      <4>2. Len(source[d].path) = 0 BY <2>2 DEF FileScopeItem
      <4> QED BY <4>1, <4>2
    <3> QED BY <2>2, <3>1, <3>2, <3>3
          DEF IsDecl, LinkedOf, FileEnumerators, HasLinkage, IsFunctionItem
  <2> QED BY <1>3, <2>1, <2>2
<1>5. CASE ~InFile(n) BY <1>4, <1>5, <1>2 DEF InFile, Identify, Meaning, V
<1>6. CASE InFile(n)
  <2>1. V # {}
    BY AreVisible, <1>6 DEF V, FileEnumerators, AtFile, InFile, LinkedOf, LinkedInBlock,
       OutOfScope, Confused
  <2>2. m \in V BY <2>1, LastVisible DEF V, m
  <2>3. Meaning(Visible(n)) = Denoted(m) BY <2>1 DEF Meaning, V, m
  <2>4. ~SharedWithEnumerator(n) BY DEF Confused
  <2>5. EntryOk(n, e) BY <1>6, <2>4 DEF Books, GlobalOk, e
  <2>6. Identify(table, n) =
          IF e.value # None THEN <<"constant", e.value[1]>>
          ELSE IF e.type \in FunctionTypes THEN <<"function", n>> ELSE <<"object", e.object>>
    BY <1>2, <1>6 DEF None, Identify, IsEnumerator, IsFunction
  <2>7. m \in DOMAIN source /\ source[m].name = n BY <1>3, <2>2 DEF Declarations, Declares
  <2>8. CASE m \in FileEnumerators(n)
    BY <2>5, <2>8, <2>3, <2>6 DEF EntryOk, Enumerator, Entry, None, Denoted, FileEnumerators,
       IsFunctionItem
  <2>9. CASE m \in LinkedOf(n)
    BY <2>5, <2>9, <2>7, <2>3, <2>6 DEF EntryOk, LinkedEntryOk, LinkedOf, Denoted, HasLinkage,
       IsFunctionItem, IsFunction
  <2> QED BY <1>4, <2>2, <2>8, <2>9
<1> QED BY <1>5, <1>6

LEMMA MeaningOfNames ==
    ASSUME Good, NEW sid, Books(sid), NEW n \in Names, ~Confused(n)
    PROVE  Identify(table, n) = Meaning(Visible(n))
BY AreVisible, FileMeaning, LocalMeaning, ParameterMeaning

(* No two objects of the program are one object of the assembly.           *)
LEMMA ObjectsApart ==
    ASSUME Good, NEW sid, Books(sid), NEW d \in DOMAIN source, NEW e \in DOMAIN source,
           d # e, HasObject(d), HasObject(e)
    PROVE  Denoted(d) # Denoted(e)
<1>1. ASSUME NEW x \in DOMAIN source, HasObject(x)
      PROVE  /\ Denoted(x) = <<"object", HomeName(sid, x)>>
             /\ Scope(x) \in DOMAIN source /\ Opens(Scope(x)) /\ Scope(x) # 0
             /\ IsDecl(x) /\ ~HasLinkage(x) /\ Tag(x) # "prototype"
  <2>1. Tag(x) \in {"object", "parameter"} /\ ~HasLinkage(x) BY <1>1 DEF HasObject
  <2>2. store[x].holder = HomeName(sid, x) BY <1>1 DEF Books, HoldersOk
  <2>3. Denoted(x) = <<"object", HomeName(sid, x)>> BY <2>1, <2>2 DEF Denoted, IsFunctionItem
  <2>4. TreeOk /\ DeclOk(x) BY Facts
  <2>5. source[x].path # <<>>
    <3>1. CASE Tag(x) = "object" BY <2>1, <3>1 DEF HasLinkage, FileScopeItem
    <3>2. CASE Tag(x) = "parameter"
      <4>1. Len(source[x].path) = 1 BY <2>4, <3>2 DEF DeclOk
      <4>2. Len(<<>>) = 0 OBVIOUS
      <4> QED BY <4>1, <4>2
    <3> QED BY <2>1, <3>1, <3>2
  <2>6. Scope(x) # 0 /\ Scope(x) \in DOMAIN source BY <2>4, <2>5, Places
  <2>7. IsDecl(x) BY <2>1 DEF IsDecl
  <2> QED BY <2>1, <2>3, <2>4, <2>6, <2>7 DEF DeclOk
<1>2. SUFFICES ASSUME HomeName(sid, d) = HomeName(sid, e) PROVE FALSE BY <1>1
<1>3. sid[Scope(d)] = sid[Scope(e)] /\ source[d].name = source[e].name
  BY <1>2 DEF HomeName, StaticName, LocalName
<1>4. Scope(d) = Scope(e) BY <1>1, <1>3, SidIsOneToOne
<1>5. ScopeOk(d, e) BY <1>1, <1>3, <1>4, Facts
<1> QED BY <1>1, <1>5 DEF ScopeOk

-----------------------------------------------------------------------------
(* What stays true of the scopes when items are added.                     *)

New == DOMAIN source' \ DOMAIN source

(* What is written inside what is open, or opens it.                       *)
InPlace ==
    \/ path' = path /\ \A e \in New : source'[e].path = path
    \/ /\ path' = Append(path, Here) /\ Here \in New /\ source'[Here].path = path
       /\ \A e \in New : e # Here => source'[e].path = path'

LEMMA ItemSame ==
    ASSUME Good, Grows, NEW d \in DOMAIN source
    PROVE  /\ source'[d] = source[d] /\ d \in DOMAIN source'
           /\ Tag(d)' = Tag(d) /\ Scope(d)' = Scope(d)
           /\ TypeOf(d)' = TypeOf(d) /\ TypeOfAny(d)' = TypeOfAny(d)
           /\ FileScopeItem(d)' <=> FileScopeItem(d)
           /\ IsFunctionItem(d)' <=> IsFunctionItem(d)
           /\ HasLinkage(d)' <=> HasLinkage(d)
           /\ HasObject(d)' <=> HasObject(d)
           /\ IsDecl(d)' <=> IsDecl(d)
           /\ IsStaticLocal(d)' <=> IsStaticLocal(d)
           /\ \A n : Declares(d, n)' <=> Declares(d, n)
<1>1. source'[d] = source[d] BY DEF Grows
<1>2. d \in DOMAIN source' BY Domains
<1>3. Tag(d)' = Tag(d) BY <1>1 DEF Tag
<1>4. Scope(d)' = Scope(d) BY <1>1 DEF Scope
<1>5. TypeOf(d)' = TypeOf(d) BY <1>1 DEF TypeOf
<1>6. FileScopeItem(d)' <=> FileScopeItem(d) BY <1>1 DEF FileScopeItem
<1>7. IsFunctionItem(d)' <=> IsFunctionItem(d) BY <1>3 DEF IsFunctionItem
<1>8. HasLinkage(d)' <=> HasLinkage(d) BY <1>1, <1>3, <1>6, <1>7 DEF HasLinkage
<1>9. HasObject(d)' <=> HasObject(d) BY <1>3, <1>8 DEF HasObject
<1>10. IsDecl(d)' <=> IsDecl(d) BY <1>3 DEF IsDecl
<1>11. TypeOfAny(d)' = TypeOfAny(d) BY <1>1, <1>5, <1>7 DEF TypeOfAny
<1>12. IsStaticLocal(d)' <=> IsStaticLocal(d) BY <1>1, <1>3, <1>9 DEF IsStaticLocal
<1>13. \A n : Declares(d, n)' <=> Declares(d, n) BY <1>1, <1>3 DEF Declares
<1> QED BY <1>1, <1>2, <1>3, <1>4, <1>5, <1>6, <1>7, <1>8, <1>9, <1>10, <1>11, <1>12, <1>13

LEMMA ChainGrown ==
    ASSUME Good, Grows, NEW p, Chain(p)
    PROVE  Chain(p)'
BY ItemSame DEF Chain

LEMMA TreeGrown ==
    ASSUME Good, TreeOk, Grows, Good', InPlace
    PROVE  TreeOk'
<1>1. /\ Len(source) \in Nat /\ DOMAIN source = 1 .. Len(source)
      /\ Len(source') \in Nat /\ DOMAIN source' = 1 .. Len(source')
  BY Domains
<1>2. /\ path \in Seq(Nat) /\ Chain(path) /\ Rising(path) /\ ToSet(path) \subseteq DOMAIN source
      /\ Len(path) \in Nat /\ DOMAIN path = 1 .. Len(path)
      /\ \A k \in DOMAIN path : path[k] \in DOMAIN source
  BY Places
<1>3. /\ path' \in Seq(Nat) /\ Rising(path') /\ ToSet(path') \subseteq DOMAIN source'
      /\ \A k \in DOMAIN path' : source'[path'[k]].what = "definition" <=> k = 1
  BY DEF Good, PathOk, Tag
<1> DEFINE l == Len(path)
           h == Here
<1>4. h \in Nat /\ h = Len(source) + 1 BY <1>1 DEF Here
<1>5. ASSUME path' = Append(path, h)
      PROVE  /\ DOMAIN path' = 1 .. l + 1 /\ Len(path') = l + 1 /\ path'[l + 1] = h
             /\ \A i \in 1 .. l : path'[i] = path[i]
             /\ \A k \in 1 .. l + 1 : SubSeq(path', 1, k - 1) = SubSeq(path, 1, k - 1)
             /\ SubSeq(path', 1, l) = path
  <2>1. /\ DOMAIN path' = 1 .. l + 1 /\ Len(path') = l + 1 /\ path'[l + 1] = h
        /\ \A i \in 1 .. l : path'[i] = path[i]
    BY <1>2, <1>5
  <2>2. ASSUME NEW k \in 1 .. l + 1 PROVE SubSeq(path', 1, k - 1) = SubSeq(path, 1, k - 1)
    <3> DEFINE a == SubSeq(path', 1, k - 1)
               b == SubSeq(path, 1, k - 1)
    <3>1. k - 1 \in 0 .. Len(path') /\ k - 1 \in 0 .. Len(path) BY <1>2, <2>1
    <3>2. /\ a \in Seq(Nat) /\ Len(a) = k - 1 /\ \A i \in 1 .. k - 1 : a[i] = path'[i]
          /\ b \in Seq(Nat) /\ Len(b) = k - 1 /\ \A i \in 1 .. k - 1 : b[i] = path[i]
      BY <1>2, <1>3, <3>1, Prefix
    <3>3. \A i \in 1 .. k - 1 : a[i] = b[i] BY <2>1, <3>1, <3>2
    <3> HIDE DEF a, b
    <3> QED BY <3>2, <3>3
  <2>3. SubSeq(path', 1, l) = path BY <1>2, <2>2
  <2> QED BY <2>1, <2>2, <2>3
<1> HIDE DEF l, h
<1>6. \A d \in DOMAIN source : source'[d] = source[d] /\ d \in DOMAIN source' BY ItemSame
<1>10. \A k \in DOMAIN path : path[k] \in DOMAIN source' /\ source'[path[k]].path = SubSeq(path, 1, k - 1)
  BY <1>2, <1>6 DEF Chain
<1>7. Chain(path)'
  <2>1. \A k \in DOMAIN path : path[k] \in DOMAIN source' /\ source'[path[k]].path = SubSeq(path, 1, k - 1)
    BY <1>2, <1>6 DEF Chain
  <2>2. CASE path' = path BY <2>1, <2>2 DEF Chain
  <2>3. CASE path' = Append(path, h) /\ h \in DOMAIN source' /\ source'[h].path = path
    BY <1>2, <1>5, <2>3, <2>1 DEF l, Chain
  <2> QED BY <2>2, <2>3 DEF InPlace, New, h
<1>8. ASSUME NEW d \in DOMAIN source'
      PROVE  /\ Chain(source[d].path)' /\ Rising(source'[d].path)
             /\ \A z \in ToSet(source'[d].path) : z < d
             /\ \A k \in DOMAIN source'[d].path : Tag(source[d].path[k])' = "definition" <=> k = 1
  <2>1. CASE d \in DOMAIN source BY <1>6, <2>1, ChainGrown DEF TreeOk, Tag, Chain
  <2>2. CASE d \notin DOMAIN source
    <3>1. d \in Nat /\ d >= h BY <1>1, <1>4, <2>2
    <3>2. CASE source'[d].path = path
      BY <1>1, <1>2, <1>4, <3>1, <1>6, <1>10, <3>2 DEF Good, PathOk, Tag, Chain
    <3>3. CASE source'[d].path = path' /\ path' = Append(path, h) /\ d # h
      BY <1>2, <1>5, <3>3, <1>1, <1>4, <3>1, <1>7, <1>3 DEF ToSet, l, Chain, Tag
    <3> QED BY <2>2, <3>2, <3>3 DEF InPlace, New, h
  <2> QED BY <2>1, <2>2
<1>9. ASSUME NEW d \in DOMAIN source', NEW k \in DOMAIN path',
             source'[d].path = SubSeq(path', 1, k - 1)
      PROVE  d <= path'[k]
  <2>0. d \in Nat /\ l \in Nat BY <1>1, <1>2 DEF l
  <2>1. CASE path' = path
    <3>1. k \in 1 .. l /\ k - 1 \in 0 .. Len(path) BY <1>2, <2>1 DEF l
    <3>2. Len(SubSeq(path, 1, k - 1)) = k - 1 BY <1>2, <3>1, Prefix
    <3>3. source'[d].path # path BY <2>0, <3>1, <1>9, <2>1, <3>2 DEF l
    <3>4. d \in DOMAIN source BY <3>3, <1>5, <2>0, <2>1 DEF New, l, InPlace, h
    <3> QED BY <1>6, <1>9, <2>1, <3>4 DEF TreeOk
  <2>2. CASE path' = Append(path, h)
    <3>1. k \in 1 .. l + 1 BY <1>5, <2>2
    <3>2. CASE d \in DOMAIN source
      <4>1. CASE k \in 1 .. l BY <1>2, <1>5, <2>2, <4>1, <1>6, <1>9, <3>1, <3>2 DEF l, TreeOk
      <4>2. CASE k = l + 1 BY <1>5, <2>2, <4>2, <1>1, <1>4, <3>2
      <4> QED BY <2>0, <3>1, <4>1, <4>2
    <3>3. CASE d \notin DOMAIN source
      <4>1. Len(source'[d].path) = k - 1 BY <1>5, <2>0, <2>2, <3>1, <1>3, <1>9, Prefix
      <4>2. CASE d = h /\ source'[d].path = path
        BY <2>0, <3>1, <4>1, <4>2, <1>4, <1>5, <2>2 DEF l
      <4>3. CASE source'[d].path = path' BY <1>5, <2>2, <4>1, <4>3, <2>0, <3>1
      <4>4. path' # path
        <5>1. Len(path') = Len(path) + 1 BY <1>5, <2>2 DEF l
        <5> QED BY <2>0, <5>1 DEF l
      <4> QED BY <3>3, <4>2, <4>3, <4>4 DEF InPlace, New, h
    <3> QED BY <3>2, <3>3
  <2> QED BY <2>1, <2>2 DEF InPlace, h
<1> QED BY <1>7, <1>8, <1>9 DEF TreeOk

-----------------------------------------------------------------------------
(* What the books say when items are added, one part after the other.      *)

Continues(sid, sid2) ==
    sid2 = [d \in DOMAIN source' |-> IF d \in DOMAIN source THEN sid[d] ELSE table'.nextScopeId]

Adding(sid, sid2) ==
    /\ Good /\ Books(sid) /\ Grows /\ Good' /\ InPlace /\ Continues(sid, sid2)
    /\ table'.nextScopeId \in Nat /\ table.nextScopeId <= table'.nextScopeId
    /\ \A d \in DOMAIN source : HasObject(d) => store'[d] = store[d]
    /\ \A e \in New, c \in DOMAIN source :
           source'[e].what = "object" /\ Scope(e)' = c => Tag(c) # "loop"

LEMMA AddedFacts ==
    ASSUME NEW sid, NEW sid2, Adding(sid, sid2)
    PROVE  /\ Good /\ Good' /\ Books(sid) /\ Grows /\ TreeOk /\ TreeOk'
           /\ sid2 \in [DOMAIN source' -> Nat]
           /\ \A d \in DOMAIN source : sid2[d] = sid[d] /\ d \in DOMAIN source' /\ d \in Nat
           /\ \A e \in New : sid2[e] = table'.nextScopeId /\ e \in DOMAIN source' /\ e \in Nat
           /\ \A d \in DOMAIN source, e \in New : d < e
           /\ \A d \in DOMAIN source : Scope(d) \in Nat /\ (Scope(d) # 0 => Scope(d) \in DOMAIN source)
           /\ \A d \in DOMAIN source' : d \in DOMAIN source \/ d \in New
BY Facts, TreeGrown, Domains, Places DEF Adding, Continues, New

LEMMA OpensKept ==
    ASSUME NEW sid, NEW sid2, Adding(sid, sid2), NEW c \in DOMAIN source
    PROVE  Opens(c)' <=> Opens(c)
BY AddedFacts, ItemSame DEF Adding, New, Tag, Opens

LEMMA AddScopes ==
    ASSUME NEW sid, NEW sid2, Adding(sid, sid2),
           \A c \in New : Opens(c)' => c = Here /\ table'.nextScopeId = table.nextScopeId + 1
    PROVE  ScopesOk(sid2)'
BY AddedFacts, Facts, OpensKept DEF Adding, Books, TableOk, ScopesOk

LEMMA AddDeclarations ==
    ASSUME NEW sid, NEW sid2, Adding(sid, sid2),
           \A e \in New : DeclOk(e)',
           \A e \in New, d \in DOMAIN source' :
               d # e /\ IsDecl(d)' /\ IsDecl(e)' /\ source'[d].name = source'[e].name
                   /\ Scope(d)' = Scope(e)' => ScopeOk(d, e)'
    PROVE  DeclarationsOk'
BY AddedFacts, Facts, ItemSame, OpensKept DEF Opens, DeclOk, ScopeOk, DeclarationsOk

LEMMA HomeSame ==
    ASSUME NEW sid, NEW sid2, Adding(sid, sid2), NEW d \in DOMAIN source, Scope(d) # 0
    PROVE  /\ HomeName(sid2, d)' = HomeName(sid, d) /\ KeyOf(sid2, d)' = KeyOf(sid, d)
           /\ LocalEntry(sid2, d)' = LocalEntry(sid, d)
           /\ \A x : BlockEntryOk(sid2, d, x)' <=> BlockEntryOk(sid, d, x)
BY AddedFacts, ItemSame DEF HomeName, KeyOf, LocalEntry, BlockEntryOk, Entries

LEMMA ObjectsInBlocks ==
    ASSUME Good, NEW sid, Books(sid), NEW d \in DOMAIN source, HasObject(d)
    PROVE  Scope(d) # 0 /\ source[d].path # <<>>
<1>1. Tag(d) \in {"object", "parameter"} /\ ~HasLinkage(d) BY DEF HasObject
<1>2. Tag(d) = "parameter" => Len(source[d].path) = 1 BY Facts DEF DeclOk
<1>3. Len(<<>>) = 0 OBVIOUS
<1>4. source[d].path # <<>> BY <1>1, <1>2, <1>3 DEF HasLinkage, FileScopeItem
<1>5. TreeOk BY Facts
<1> QED BY <1>4, <1>5, Places

LEMMA AddHolders ==
    ASSUME NEW sid, NEW sid2, Adding(sid, sid2),
           \A e \in New : HasObject(e)' => store'[e].holder = HomeName(sid2, e)'
    PROVE  HoldersOk(sid2)'
BY AddedFacts, ItemSame, ObjectsInBlocks, HomeSame DEF Adding, Books, HoldersOk

(* The entry of a name is not concerned by what else is declared.          *)
LEMMA LinkedSame ==
    ASSUME NEW sid, NEW sid2, Adding(sid, sid2), NEW n,
           \A e \in New : Declares(e, n)' => ~HasLinkage(e)' /\ ~FileScopeItem(e)'
    PROVE  /\ LinkedOf(n)' = LinkedOf(n) /\ FileEnumerators(n)' = FileEnumerators(n)
           /\ AtFile(n)' = AtFile(n) /\ LinkedInBlock(n)' = LinkedInBlock(n)
           /\ (InFile(n)' <=> InFile(n)) /\ (SharedWithEnumerator(n)' <=> SharedWithEnumerator(n))
           /\ \A x : EntryOk(n, x)' <=> EntryOk(n, x)
<1>1. Good /\ Grows BY AddedFacts
<1>2. \A d \in DOMAIN source :
          /\ source'[d] = source[d] /\ d \in DOMAIN source' /\ Tag(d)' = Tag(d)
          /\ TypeOf(d)' = TypeOf(d) /\ TypeOfAny(d)' = TypeOfAny(d)
          /\ (FileScopeItem(d)' <=> FileScopeItem(d)) /\ (HasLinkage(d)' <=> HasLinkage(d))
          /\ (IsFunctionItem(d)' <=> IsFunctionItem(d)) /\ (Declares(d, n)' <=> Declares(d, n))
  BY <1>1, ItemSame
<1>3. \A d \in DOMAIN source' : d \in DOMAIN source \/ d \in New BY AddedFacts
<1>4. LinkedOf(n)' = LinkedOf(n) BY <1>2, <1>3 DEF LinkedOf, Declarations
<1>5. FileEnumerators(n)' = FileEnumerators(n) BY <1>2, <1>3 DEF FileEnumerators, Declarations
<1>6. AtFile(n)' = AtFile(n) BY <1>2, <1>3 DEF AtFile, Declarations
<1>7. LinkedInBlock(n)' = LinkedInBlock(n) BY <1>2, <1>3 DEF LinkedInBlock, Declarations
<1>8. InFile(n)' <=> InFile(n) BY <1>4, <1>5 DEF InFile
<1>9. SharedWithEnumerator(n)' <=> SharedWithEnumerator(n)
  BY <1>5, <1>7 DEF SharedWithEnumerator, FileEnumerators
<1>10. ASSUME NEW x PROVE EntryOk(n, x)' <=> EntryOk(n, x)
  <2>1. \A d \in LinkedOf(n) \cup AtFile(n) \cup FileEnumerators(n) : d \in DOMAIN source
    BY DEF LinkedOf, AtFile, FileEnumerators, Declarations
  <2>2. ObjectEntryOk(n, x)' <=> ObjectEntryOk(n, x) BY <1>2, <1>6, <2>1 DEF ObjectEntryOk
  <2>3. FunctionEntryOk(n, x)' <=> FunctionEntryOk(n, x)
    BY <1>2, <2>1, <1>4 DEF FunctionEntryOk
  <2>4. \A d \in LinkedOf(n) :
            /\ source'[d] = source[d] /\ (IsFunctionItem(d)' <=> IsFunctionItem(d))
            /\ TypeOfAny(d)' = TypeOfAny(d)
    BY <1>2, <2>1
  <2>5. LinkedEntryOk(n, x)' <=> LinkedEntryOk(n, x)
    <3> DEFINE P(d) == (IsFunction(x) <=> IsFunctionItem(d)) /\ Compatible(x.type, TypeOfAny(d))
    <3>1. (\A d \in LinkedOf(n)' : P(d)') <=> (\A d \in LinkedOf(n) : P(d)) BY <1>4, <2>4
    <3>2. (\E d \in LinkedOf(n)' : source'[d].storage = "static")
              <=> (\E d \in LinkedOf(n) : source[d].storage = "static")
      BY <1>4, <2>4
    <3> QED BY <2>2, <2>3, <3>1, <3>2 DEF LinkedEntryOk
  <2> QED BY <1>4, <1>5, <2>5 DEF EntryOk
<1> QED BY <1>4, <1>5, <1>6, <1>7, <1>8, <1>9, <1>10

LEMMA AddGlobal ==
    ASSUME NEW sid, NEW sid2, Adding(sid, sid2), NEW n,
           \A e \in New, m \in Names :
               m # n /\ Declares(e, m)' => ~HasLinkage(e)' /\ ~FileScopeItem(e)',
           DOMAIN table'.global =
               DOMAIN table.global \cup {<<0, m>> : m \in {k \in Names : k = n /\ InFile(k)'}},
           \A m \in Names : m # n /\ InFile(m) => table'.global[<<0, m>>] = table.global[<<0, m>>],
           n \in Names /\ InFile(n)' =>
               /\ table'.global[<<0, n>>] \in Entries /\ table'.global[<<0, n>>].object = FileName(n)
               /\ ~SharedWithEnumerator(n)' => EntryOk(n, table.global[<<0, n>>])'
    PROVE  GlobalOk'
<1>1. GlobalOk BY AddedFacts DEF Books
<1>2. ASSUME NEW m \in Names, m # n
      PROVE  /\ (InFile(m)' <=> InFile(m)) /\ (SharedWithEnumerator(m)' <=> SharedWithEnumerator(m))
             /\ \A x : EntryOk(m, x)' <=> EntryOk(m, x) BY <1>2, LinkedSame
<1>3. InFile(n) => InFile(n)'
  BY AddedFacts, ItemSame DEF InFile, LinkedOf, FileEnumerators, Declarations
<1>4. DOMAIN table'.global = {<<0, m>> : m \in {k \in Names : InFile(k)'}}
  BY <1>1, <1>2, <1>3 DEF GlobalOk
<1>5. ASSUME NEW m \in Names, InFile(m)'
      PROVE  /\ table'.global[<<0, m>>] \in Entries /\ table'.global[<<0, m>>].object = FileName(m)
             /\ ~SharedWithEnumerator(m)' => EntryOk(m, table.global[<<0, m>>])'
  <2>1. CASE m = n BY <1>5, <2>1
  <2>2. CASE m # n
    <3>1. InFile(m) /\ table'.global[<<0, m>>] = table.global[<<0, m>>] BY <1>2, <1>5, <2>2
    <3>2. table'.global[<<0, m>>] \in Entries /\ table'.global[<<0, m>>].object = FileName(m)
      BY <1>1, <3>1 DEF GlobalOk
    <3>3. ASSUME ~SharedWithEnumerator(m)' PROVE EntryOk(m, table.global[<<0, m>>])'
      <4>1. PICK x : x = table.global[<<0, m>>] OBVIOUS
      <4>2. EntryOk(m, x) BY <1>1, <1>2, <2>2, <3>1, <3>3, <4>1 DEF GlobalOk
      <4>3. EntryOk(m, x)' BY <1>2, <2>2, <4>2
      <4>4. table'.global[<<0, m>>] = x BY <3>1, <4>1
      <4> QED BY <4>3, <4>4 DEF EntryOk, LinkedEntryOk, ObjectEntryOk, FunctionEntryOk
    <3> QED BY <3>2, <3>3
  <2> QED BY <2>1, <2>2
<1>6. \A m \in Names :
          InFile(m)' => table'.global[<<0, m>>] \in Entries /\ table'.global[<<0, m>>].object = FileName(m)
  BY <1>5
<1>7. \A m \in Names : InFile(m)' /\ ~SharedWithEnumerator(m)' => EntryOk(m, table.global[<<0, m>>])'
  BY <1>5
<1> QED BY <1>4, <1>6, <1>7 DEF GlobalOk, Entries

LEMMA AddGlobalSame ==
    ASSUME NEW sid, NEW sid2, Adding(sid, sid2), table'.global = table.global,
           \A e \in New, m \in Names : Declares(e, m)' => ~HasLinkage(e)' /\ ~FileScopeItem(e)'
    PROVE  GlobalOk'
<1>1. PICK n : n \notin Names
  <2> DEFINE r == {x \in Names : x \notin x}
  <2>1. r \in Names => (r \in r <=> r \notin r) OBVIOUS
  <2> QED BY <2>1
<1>2. {<<0, m>> : m \in {k \in Names : k = n /\ InFile(k)'}} = {} BY <1>1
<1> QED BY <1>1, <1>2, AddGlobal

(* What is written now is in the function that is open, and what was       *)
(* written stays where it was.                                             *)
LEMMA InsideNow ==
    ASSUME NEW sid, NEW sid2, Adding(sid, sid2)
    PROVE  /\ path # <<>> => path' # <<>> /\ path'[1] = path[1] /\ path[1] \in DOMAIN source
           /\ path = <<>> => path' = <<>> \/ path' = <<Here>>
           /\ path' # <<>> => \A g \in DOMAIN source : g = path'[1] => path # <<>>
           /\ \A e \in New : source'[e].path # <<>> =>
                  path' # <<>> /\ source'[e].path[1] = path'[1] /\ InOpenFunction(e)'
                  /\ ~FunctionEnded(e)'
           /\ \A e \in New : path # <<>> => source'[e].path # <<>>
           /\ \A d \in DOMAIN source : source[d].path # <<>> =>
                  /\ source[d].path[1] \in DOMAIN source
                  /\ FunctionEnded(d)' <=> FunctionEnded(d)
           /\ \A d \in DOMAIN source : path # <<>> => (InOpenFunction(d)' <=> InOpenFunction(d))
<1>1. Good /\ Grows /\ TreeOk /\ Good' /\ InPlace BY AddedFacts DEF Adding
<1>2. /\ path \in Seq(Nat) /\ Len(path) \in Nat /\ DOMAIN path = 1 .. Len(path)
      /\ \A k \in DOMAIN path : path[k] \in DOMAIN source
      /\ Len(source) \in Nat /\ DOMAIN source = 1 .. Len(source)
  BY <1>1, Places
<1>3. Here \notin DOMAIN source BY <1>2 DEF Here
<1>4. path # <<>> => path' # <<>> /\ path'[1] = path[1] /\ path[1] \in DOMAIN source
  <2>1. SUFFICES ASSUME path # <<>> PROVE path' # <<>> /\ path'[1] = path[1] /\ path[1] \in DOMAIN source
    OBVIOUS
  <2>2. 1 \in DOMAIN path /\ path[1] \in DOMAIN source BY <1>2, <2>1
  <2>3. CASE path' = path BY <2>1, <2>2, <2>3
  <2>4. CASE path' = Append(path, Here)
    <3>1. Len(Append(path, Here)) = Len(path) + 1 /\ Append(path, Here)[1] = path[1] BY <1>2, <2>2
    <3>2. Append(path, Here) # <<>>
      <4>1. Append(path, Here) = <<>> => Len(Append(path, Here)) = 0 OBVIOUS
      <4> QED BY <1>2, <3>1, <4>1
    <3> QED BY <2>2, <2>4, <3>1, <3>2
  <2> QED BY <1>1, <2>3, <2>4 DEF InPlace
<1>5. path = <<>> => path' = <<>> \/ path' = <<Here>> BY <1>1 DEF InPlace
<1>6. ASSUME NEW e \in New, source'[e].path # <<>>
      PROVE  path' # <<>> /\ source'[e].path[1] = path'[1] /\ InOpenFunction(e)' /\ ~FunctionEnded(e)'
  BY <1>1, <1>4, <1>6 DEF InPlace, InOpenFunction, FunctionEnded
<1>7. ASSUME NEW e \in New, path # <<>> PROVE source'[e].path # <<>>
  BY <1>1, <1>4, <1>7 DEF InPlace
<1>8. ASSUME NEW d \in DOMAIN source, source[d].path # <<>>
      PROVE  source[d].path[1] \in DOMAIN source /\ (FunctionEnded(d)' <=> FunctionEnded(d))
  <2>1. source[d].path \in Seq(Nat) /\ Chain(source[d].path) BY <1>1, Places
  <2>2. source[d].path[1] \in DOMAIN source BY <1>8, <2>1 DEF Chain
  <2>3. source'[d] = source[d] BY <1>1, ItemSame
  <2>4. CASE path # <<>> BY <1>4, <2>2, <2>3, <2>4 DEF FunctionEnded
  <2>5. CASE path = <<>> BY <1>3, <1>5, <2>2, <2>3, <2>5 DEF FunctionEnded
  <2> QED BY <2>2, <2>4, <2>5
<1>9. ASSUME NEW d \in DOMAIN source, path # <<>> PROVE InOpenFunction(d)' <=> InOpenFunction(d)
  BY <1>1, ItemSame, <1>4, <1>9 DEF InOpenFunction
<1>10. ASSUME path' # <<>>, path'[1] \in DOMAIN source PROVE path # <<>> BY <1>3, <1>5, <1>10
<1> QED BY <1>4, <1>5, <1>6, <1>7, <1>8, <1>9, <1>10

LEMMA ArgumentsSame ==
    ASSUME NEW sid, NEW sid2, Adding(sid, sid2), NEW g \in DOMAIN source, NEW args,
           \A e \in New : source'[e].what = "parameter" => source'[e].path[1] # g,
           ArgumentsOk(sid, g, args)
    PROVE  ArgumentsOk(sid2, g, args)'
BY AddedFacts, ItemSame DEF ArgumentsOk, Tag, Sequence

LEMMA ExportedSame ==
    ASSUME NEW sid, NEW sid2, Adding(sid, sid2), NEW g \in DOMAIN source
    PROVE  ExportedThen(g)' = ExportedThen(g)
BY AddedFacts, ItemSame DEF LinkedThen, LinkedOf, Declarations, ExportedThen

LEMMA AddEnded ==
    ASSUME NEW sid, NEW sid2, Adding(sid, sid2), frames' = frames,
           table'.functionScopeDataHomes = table.functionScopeDataHomes,
           \A e \in New : source'[e].what = "parameter" => source'[e].path # <<>>
    PROVE  EndedOk(sid2)'
<1>1. Good /\ Grows /\ Books(sid) /\ Good' /\ TreeOk' BY AddedFacts
<1>2. \A d \in DOMAIN source :
          /\ source'[d] = source[d] /\ d \in DOMAIN source' /\ Tag(d)' = Tag(d)
          /\ (HasObject(d)' <=> HasObject(d)) /\ (IsStaticLocal(d)' <=> IsStaticLocal(d))
  BY <1>1, ItemSame
<1>3. \A d \in DOMAIN source : HasObject(d) => Scope(d) # 0 /\ source[d].path # <<>>
  BY <1>1, ObjectsInBlocks
<1>4. \A d \in DOMAIN source' : IsStaticLocal(d)' => source'[d].path # <<>>
  BY DEF IsStaticLocal, HasObject, HasLinkage, FileScopeItem
<1>5. EndedStatics' = EndedStatics
  BY <1>4, InsideNow, AddedFacts, <1>2, <1>3 DEF IsStaticLocal, EndedStatics
<1>6. {LocalEntry(sid2, d)' : d \in EndedStatics'} = {LocalEntry(sid, d) : d \in EndedStatics}
  BY <1>3, HomeSame, <1>5 DEF EndedStatics, IsStaticLocal
<1>7. ASSUME NEW f, FrameOk(sid, f) PROVE FrameOk(sid2, f)'
  <2> DEFINE g == f.at
  <2>1. /\ g \in DOMAIN source /\ Tag(g) = "definition" /\ (path = <<>> \/ path[1] # g)
        /\ f.locals = {LocalEntry(sid, d) : d \in AutomaticsOf(g)}
        /\ ArgumentsOk(sid, g, f.arguments) /\ f.exported = ExportedThen(g)
    BY <1>7 DEF FrameOk
  <2> HIDE DEF g
  <2>2. path' = <<>> \/ path'[1] # g BY <2>1, InsideNow
  <2>3. \A e \in New : source'[e].path # <<>> => source'[e].path[1] # g
    BY <2>2, InsideNow
  <2>4. AutomaticsOf(g)' = AutomaticsOf(g)
    BY <2>3, AddedFacts, <1>2 DEF InFunction, AutomaticsOf
  <2>5. {LocalEntry(sid2, d)' : d \in AutomaticsOf(g)'} = {LocalEntry(sid, d) : d \in AutomaticsOf(g)}
    BY <1>3, HomeSame, <2>4 DEF AutomaticsOf
  <2>6. ArgumentsOk(sid2, g, f.arguments)' BY <2>1, <2>3, ArgumentsSame
  <2>7. ExportedThen(g)' = ExportedThen(g) BY <2>1, ExportedSame
  <2>8. f.exported = ExportedThen(g)' BY <2>1, <2>7
  <2> QED BY <1>2, <2>1, <2>2, <2>5, <2>6, <2>8 DEF FrameOk, g
<1>8. EndedOk(sid) BY <1>1 DEF Books
<1>9. \A k \in DOMAIN frames : FrameOk(sid2, frames[k])'
  BY <1>7, <1>8 DEF EndedOk, FrameOk, ArgumentsOk, Sequence
<1>10. Sequence(frames)' BY <1>8 DEF EndedOk, Sequence
<1> QED BY <1>5, <1>6, <1>8, <1>9, <1>10 DEF EndedOk

-----------------------------------------------------------------------------
(* The function that is open.                                              *)

(* The numbers of the scopes that are open.                                *)
IdsOk(sid, ids) ==
    /\ ids \in Seq(Nat) /\ Rising(ids) /\ ToSet(ids) = {sid[c] : c \in OpenScopes}

LEMMA OpenScopesKept ==
    ASSUME NEW sid, NEW sid2, Adding(sid, sid2), NEW h, h = Here
    PROVE  /\ path' = path => OpenScopes' = OpenScopes
           /\ path' = Append(path, h) =>
                  OpenScopes' = OpenScopes \cup (IF Opens(h)' THEN {h} ELSE {})
           /\ \A c \in OpenScopes : c \in DOMAIN source /\ sid2[c] = sid[c]
<1>1. Good /\ TreeOk BY AddedFacts
<1>2. ToSet(path) \subseteq DOMAIN source /\ path \in Seq(Nat) BY <1>1, Places
<1>3. \A c \in ToSet(path) : Opens(c)' <=> Opens(c) BY <1>2, OpensKept
<1>4. path' = path => OpenScopes' = OpenScopes BY <1>3 DEF OpenScopes
<1>5. ASSUME path' = Append(path, h)
      PROVE  OpenScopes' = OpenScopes \cup (IF Opens(h)' THEN {h} ELSE {})
  <2>1. ToSet(Append(path, h)) = ToSet(path) \cup {h} BY <1>1, <1>2, Places, Pushed DEF Here
  <2>2. ToSet(path') = ToSet(path) \cup {h} BY <1>5, <2>1
  <2>3. OpenScopes' = {c \in ToSet(path) \cup {h} : Opens(c)'} BY <2>2 DEF OpenScopes
  <2>4. OpenScopes = {c \in ToSet(path) : Opens(c)} BY DEF OpenScopes
  <2> QED BY <1>3, <2>3, <2>4
<1>6. OpenScopes \subseteq DOMAIN source BY <1>2 DEF OpenScopes
<1>7. \A c \in OpenScopes : sid2[c] = sid[c] BY <1>6, AddedFacts
<1> QED BY <1>4, <1>5, <1>6, <1>7

LEMMA IdsSame ==
    ASSUME NEW sid, NEW sid2, Adding(sid, sid2), NEW h, h = Here,
           path' = path \/ (path' = Append(path, h) /\ ~Opens(h)'), NEW ids, IdsOk(sid, ids)
    PROVE  IdsOk(sid2, ids)'
BY OpenScopesKept DEF IdsOk

LEMMA IdsPushed ==
    ASSUME NEW sid, NEW sid2, Adding(sid, sid2), NEW h, h = Here,
           path' = Append(path, h), Opens(h)', h \in New,
           NEW n, n = table.nextScopeId + 1, table'.nextScopeId = n, NEW ids, IdsOk(sid, ids)
    PROVE  IdsOk(sid2, Append(ids, n))'
<1>1. OpenScopes' = OpenScopes \cup {h} BY OpenScopesKept
<1>2. \A c \in OpenScopes : c \in DOMAIN source /\ sid2[c] = sid[c] BY OpenScopesKept
<1>3. sid2[h] = n BY AddedFacts
<1>4. {sid2[c] : c \in OpenScopes \cup {h}} = {sid[c] : c \in OpenScopes} \cup {n} BY <1>2, <1>3
<1>5. n \in Nat /\ \A c \in OpenScopes : sid[c] < n
  BY AddedFacts, <1>2, Facts DEF Books, TableOk, OpenScopes
<1>6. ids \in Seq(Nat) /\ Rising(ids) /\ ToSet(ids) = {sid[c] : c \in OpenScopes} BY DEF IdsOk
<1>7. \A x \in ToSet(ids) : x < n BY <1>5, <1>6
<1> DEFINE s == Append(ids, n)
<1>8. s \in Seq(Nat) /\ Rising(s) /\ ToSet(s) = ToSet(ids) \cup {n} BY <1>5, <1>6, <1>7, Pushed
<1> HIDE DEF s
<1>9. PICK t : t = s OBVIOUS
<1>11. IdsOk(sid2, t)' BY <1>1, <1>4, <1>6, <1>8, <1>9 DEF IdsOk
<1> QED BY <1>9, <1>11 DEF s

LEMMA ValuesSame ==
    ASSUME NEW sid, NEW sid2, Adding(sid, sid2), path # <<>>, NEW fn, NEW fn2,
           fn2.values = fn.values, ValuesOk(sid, fn),
           \A e \in New : source'[e].what \notin {"object", "enumerator"}
    PROVE  ValuesOk(sid2, fn2)'
<1>1. \A d \in DOMAIN source :
          /\ d \in DOMAIN source' /\ Tag(d)' = Tag(d) /\ (InOpenFunction(d)' <=> InOpenFunction(d))
  BY AddedFacts, ItemSame, InsideNow
<1>2. {d \in DOMAIN source' : InValues(d)'} = {d \in DOMAIN source : InValues(d)}
  BY AddedFacts, <1>1 DEF InValues, Tag
<1>3. ASSUME NEW d \in DOMAIN source, InValues(d)
      PROVE  /\ KeyOf(sid2, d)' = KeyOf(sid, d)
             /\ \A x : BlockEntryOk(sid2, d, x)' <=> BlockEntryOk(sid, d, x)
  BY <1>3, AddedFacts, Places, HomeSame DEF InValues, InOpenFunction
<1>4. {KeyOf(sid2, d)' : d \in {e \in DOMAIN source' : InValues(e)'}}
          = {KeyOf(sid, d) : d \in {e \in DOMAIN source : InValues(e)}}
  BY <1>2, <1>3
<1>5. ASSUME NEW d \in DOMAIN source', InValues(d)'
      PROVE  BlockEntryOk(sid2, d, fn2.values[KeyOf(sid2, d)])'
  BY <1>2, <1>5, <1>3 DEF ValuesOk, BlockEntryOk, Entries
<1> QED BY <1>4, <1>5 DEF ValuesOk

LEMMA ValuesOne ==
    ASSUME NEW sid, NEW sid2, Adding(sid, sid2), path # <<>>, NEW fn, NEW fn2, ValuesOk(sid, fn),
           NEW e \in New, source'[e].what \in {"object", "enumerator"},
           \A d \in New : d # e => source'[d].what \notin {"object", "enumerator"},
           DOMAIN fn2.values = DOMAIN fn.values \cup {KeyOf(sid2, e)'},
           \A k \in DOMAIN fn.values : fn2.values[k] = fn.values[k],
           BlockEntryOk(sid2, e, fn2.values[KeyOf(sid2, e)])'
    PROVE  ValuesOk(sid2, fn2)'
<1>1. \A d \in DOMAIN source :
          /\ d \in DOMAIN source' /\ Tag(d)' = Tag(d) /\ (InOpenFunction(d)' <=> InOpenFunction(d))
  BY AddedFacts, ItemSame, InsideNow
<1>2. {d \in DOMAIN source' : InValues(d)'} = {d \in DOMAIN source : InValues(d)} \cup {e}
  BY AddedFacts, InsideNow, <1>1 DEF InValues, Tag
<1>3. ASSUME NEW d \in DOMAIN source, InValues(d)
      PROVE  /\ KeyOf(sid2, d)' = KeyOf(sid, d)
             /\ \A x : BlockEntryOk(sid2, d, x)' <=> BlockEntryOk(sid, d, x)
  BY <1>3, AddedFacts, Places, HomeSame DEF InValues, InOpenFunction
<1>4. {KeyOf(sid2, d)' : d \in {x \in DOMAIN source' : InValues(x)'}} = DOMAIN fn2.values
  BY <1>2, <1>3 DEF ValuesOk
<1>5. ASSUME NEW d \in DOMAIN source', InValues(d)'
      PROVE  BlockEntryOk(sid2, d, fn2.values[KeyOf(sid2, d)])'
  BY <1>3, <1>2, <1>5 DEF ValuesOk, BlockEntryOk, Entries
<1> QED BY <1>4, <1>5 DEF ValuesOk

LEMMA AddFunction ==
    ASSUME NEW sid, NEW sid2, Adding(sid, sid2), path # <<>>, NEW fn2, table'.function = <<fn2>>,
           fn2 = [values |-> fn2.values, arguments |-> OpenFunction(table).arguments,
                  blockIds |-> fn2.blockIds, function |-> OpenFunction(table).function],
           \A e \in New : source'[e].what # "parameter",
           IdsOk(sid2, fn2.blockIds)', ValuesOk(sid2, fn2)'
    PROVE  FunctionOk(sid2)'
<1> DEFINE fn == OpenFunction(table)
<1>1. /\ ArgumentsOk(sid, path[1], fn.arguments)
      /\ ProvidesExternalDefinition(fn.function) = ExportedThen(path[1])
  BY AddedFacts DEF Books, FunctionOk
<1>2. OpenFunction(table)' = fn2 BY DEF OpenFunction
<1>3. fn2.arguments = fn.arguments /\ fn2.function = fn.function OBVIOUS
<1> HIDE DEF fn
<1>4. PICK g : g = path[1] OBVIOUS
<1>5. g \in DOMAIN source /\ path' # <<>> /\ path'[1] = g BY <1>4, InsideNow
<1>6. PICK args : args = fn.arguments OBVIOUS
<1>7. ArgumentsOk(sid2, g, args)' BY <1>1, <1>4, <1>5, <1>6, ArgumentsSame
<1>8. ExportedThen(g)' = ExportedThen(g) BY <1>5, ExportedSame
<1>9. ProvidesExternalDefinition(fn2.function)' = ExportedThen(g)'
  BY <1>1, <1>3, <1>4, <1>8 DEF ProvidesExternalDefinition
<1>10. ArgumentsOk(sid2, path[1], fn2.arguments)'
  BY <1>3, <1>5, <1>6, <1>7 DEF ArgumentsOk, Sequence
<1>11. ExportedThen(path[1])' = ExportedThen(g)'
  BY <1>5 DEF ExportedThen, LinkedThen
<1>12. /\ fn2.blockIds \in Seq(Nat) /\ Rising(fn2.blockIds)'
       /\ ToSet(fn2.blockIds)' = {sid2[c] : c \in OpenScopes'}
  BY DEF IdsOk
<1>13. fn2 = [values |-> fn2.values, arguments |-> fn2.arguments, blockIds |-> fn2.blockIds,
              function |-> fn2.function]
  OBVIOUS
<1> QED BY <1>2, <1>9, <1>10, <1>11, <1>12, <1>13 DEF FunctionOk, ValuesOk, Rising, ToSet, ProvidesExternalDefinition

LEMMA OpenFunctionIs ==
    ASSUME NEW sid, Books(sid), path # <<>>
    PROVE  LET fn == OpenFunction(table)
           IN  /\ table.function = <<fn>> /\ ~IsAtFileScope(table)
               /\ fn = [values |-> fn.values, arguments |-> fn.arguments, blockIds |-> fn.blockIds,
                        function |-> fn.function]
               /\ IdsOk(sid, fn.blockIds) /\ ValuesOk(sid, fn)
<1> DEFINE fn == OpenFunction(table)
<1>1. /\ table.function = <<fn>>
      /\ fn = [values |-> fn.values, arguments |-> fn.arguments, blockIds |-> fn.blockIds,
               function |-> fn.function]
      /\ IdsOk(sid, fn.blockIds) /\ ValuesOk(sid, fn)
  BY DEF Books, FunctionOk, IdsOk
<1> HIDE DEF fn
<1>2. ~IsAtFileScope(table) BY <1>1 DEF IsAtFileScope, None
<1> QED BY <1>1, <1>2 DEF fn

-----------------------------------------------------------------------------
(* Statements.                                                             *)

LEMMA StatementBooks ==
    ASSUME Good, Good', NEW sid, Books(sid), Grows, NEW h, h = Here, New = {h},
           path' = path \/ path' = Append(path, h), path # <<>>, source'[h].path = path,
           source'[h].what \notin {"object", "prototype", "definition", "parameter", "enumerator", "block"},
           table' = table, frames' = frames, \A d \in DOMAIN source : HasObject(d) => store'[d] = store[d]
    PROVE  \E sid2 : Books(sid2)'
<1>1. PICK sid2 : Continues(sid, sid2) BY DEF Continues
<1>2. InPlace BY DEF InPlace
<1>3. table.nextScopeId \in Nat BY DEF Books, TableOk
<1>4. Adding(sid, sid2) BY <1>1, <1>2, <1>3 DEF Adding
<1>5. ~Opens(h)' BY <1>4, AddedFacts, ItemSame, Domains DEF Tag, New, Opens
<1>6. ScopesOk(sid2)' BY <1>4, <1>5, AddScopes
<1>7. ~IsDecl(h)' /\ ~IsFunctionItem(h)' BY DEF IsDecl, IsFunctionItem, Tag
<1>8. DeclarationsOk' BY <1>7, <1>4, AddDeclarations DEF DeclOk, Tag
<1>9. HoldersOk(sid2)' BY <1>4, AddHolders DEF HasObject, Tag
<1>10. GlobalOk' BY <1>4, AddGlobalSame DEF Declares, Tag
<1>11. EndedOk(sid2)' BY <1>4, AddEnded
<1>12. FunctionOk(sid2)' BY OpenFunctionIs, <1>4, <1>5, IdsSame, ValuesSame, AddFunction
<1>13. TableOk' BY <1>4, InsideNow DEF Books, TableOk
<1>14. TreeOk' BY <1>4, AddedFacts
<1> QED BY <1>6, <1>8, <1>9, <1>10, <1>11, <1>12, <1>13, <1>14 DEF Books

StatementTags == {"label", "goto", "break", "continue", "switch", "loop", "case", "default"}

LEMMA OneStatementBooks ==
    ASSUME Good, Good', NEW sid, Books(sid), NEW item, NEW note, "what" \in DOMAIN item,
           item.what \in StatementTags, Write(<<Written(item)>>, <<note>>), path # <<>>,
           path' = path \/ path' = Append(path, Here), table' = table, frames' = frames
    PROVE  \E sid2 : Books(sid2)'
<1>1. source' = source \o <<Written(item)>> /\ store' = store \o <<note>> BY DEF Write
<1>2. PICK it : it = Written(item) OBVIOUS
<1>3. PICK h : h = Here OBVIOUS
<1>4. /\ Grows
      /\ \A d \in DOMAIN source : store'[d] = store[d]
      /\ DOMAIN source' \ DOMAIN source = {Here}
      /\ source'[Here] = it
  BY ONLY Good, <1>1, <1>2, AddedOne
<1>5. it.what = item.what /\ it.path = path BY <1>2, WrittenIs
<1>6. New = {h} /\ source'[h].what = item.what /\ source'[h].path = path
  BY <1>3, <1>4, <1>5 DEF New
<1>7. source'[h].what \notin {"object", "prototype", "definition", "parameter", "enumerator", "block"}
  BY <1>6 DEF StatementTags
<1> QED BY <1>3, <1>4, <1>6, <1>7, StatementBooks

LEMMA LabelBooks ==
    ASSUME Good, Good', NEW sid, Books(sid), NEW item, NEW on, NEW sw, sw = Last(jumps.switchStack),
           jumps.switchStack # <<>>, path # <<>>, "what" \in DOMAIN item,
           item.what \in {"case", "default"}, WriteLabel(item, on), on.exit = store[sw].exit,
           jumps' = [jumps EXCEPT !.nextLabel = @ + 1]
    PROVE  \E sid2 : Books(sid2)'
<1>1. PICK h : h = Here OBVIOUS
<1>2. /\ Wrote(h, jumps.nextLabel, jumps'.nextLabel) /\ source'[h].what = item.what
      /\ Tag(sw) = "switch" /\ \A d \in DOMAIN source : d # sw => store'[d] = store[d]
  BY <1>1, LabelWritten
<1>3. Grows /\ New = {h} /\ source'[h].path = path /\ path' = path BY <1>2 DEF Wrote, New
<1>4. \A d \in DOMAIN source : HasObject(d) => store'[d] = store[d] BY <1>2 DEF HasObject
<1>5. table' = table /\ frames' = frames BY DEF WriteLabel
<1>6. source'[h].what \notin {"object", "prototype", "definition", "parameter", "enumerator", "block"}
  BY <1>2
<1> QED BY <1>1, <1>3, <1>4, <1>5, <1>6, StatementBooks

LEMMA LabeledStatementBooks ==
    ASSUME Good, Good', NEW sid, Books(sid), NEW name, LabeledStatement(name)
    PROVE  \E sid2 : Books(sid2)'
<1> DEFINE item == [what |-> "label", name |-> name]
           note == [label |-> jumps.nextLabel + 1]
<1>1. /\ Write(<<Written(item)>>, <<note>>) /\ path # <<>> /\ path' = path
      /\ table' = table /\ frames' = frames
  BY DEF LabeledStatement
<1>2. "what" \in DOMAIN item /\ item.what \in StatementTags BY DEF StatementTags
<1> HIDE DEF item, note
<1> QED BY <1>1, <1>2, OneStatementBooks

LEMMA GotoStatementBooks ==
    ASSUME Good, Good', NEW sid, Books(sid), NEW name, GotoStatement(name)
    PROVE  \E sid2 : Books(sid2)'
<1> DEFINE item == [what |-> "goto", name |-> name]
           note == [jumpTo |-> None]
<1>1. /\ Write(<<Written(item)>>, <<note>>) /\ path # <<>> /\ path' = path
      /\ table' = table /\ frames' = frames
  BY DEF GotoStatement
<1>2. "what" \in DOMAIN item /\ item.what \in StatementTags BY DEF StatementTags
<1> HIDE DEF item, note
<1> QED BY <1>1, <1>2, OneStatementBooks

LEMMA JumpStatementBooks ==
    ASSUME Good, Good', NEW sid, Books(sid), NEW kind \in {"break", "continue"}, JumpStatement(kind)
    PROVE  \E sid2 : Books(sid2)'
<1> DEFINE item == [what |-> kind]
<1>1. PICK note : Write(<<Written(item)>>, <<note>>) BY DEF JumpStatement
<1>2. /\ path # <<>> /\ path' = path /\ table' = table /\ frames' = frames BY DEF JumpStatement
<1>3. "what" \in DOMAIN item /\ item.what \in StatementTags BY DEF StatementTags
<1> HIDE DEF item
<1> QED BY <1>1, <1>2, <1>3, OneStatementBooks

LEMMA SwitchBooks ==
    ASSUME Good, Good', NEW sid, Books(sid), Switch
    PROVE  \E sid2 : Books(sid2)'
<1> DEFINE item == [what |-> "switch"]
<1>1. PICK note : Write(<<Written(item)>>, <<note>>) BY DEF Switch
<1>2. /\ path # <<>> /\ path' = Append(path, Here) /\ table' = table /\ frames' = frames BY DEF Switch
<1>3. "what" \in DOMAIN item /\ item.what \in StatementTags BY DEF StatementTags
<1> HIDE DEF item
<1> QED BY <1>1, <1>2, <1>3, OneStatementBooks

LEMMA PlainLoopBooks ==
    ASSUME Good, Good', NEW sid, Books(sid), NEW kind, NEW declared, Loop(kind, declared), declared = None
    PROVE  \E sid2 : Books(sid2)'
<1> DEFINE item == [what |-> "loop", kind |-> kind]
<1>1. PICK note : Write(<<Written(item)>>, <<note>>)
  <2> DEFINE entry == jumps.nextLabel + 1
             own == kind \in {"forIncrement", "do"}
             cont == IF ~own THEN entry ELSE IF kind = "do" THEN entry + 1 ELSE entry + 2
             exit == IF kind = "do" THEN entry + 2 ELSE entry + 1
             note == [entry |-> entry, cont |-> cont, exit |-> exit]
  <2>1. PICK t, u : t = <<>> /\ u = <<>>
                    /\ Write(<<Written(item)>> \o t, <<note>> \o u)
    BY DEF Loop
  <2> HIDE DEF note, item
  <2>2. <<Written(item)>> \o t = <<Written(item)>> /\ <<note>> \o u = <<note>> BY <2>1
  <2> QED BY <2>1, <2>2
<1>2. /\ path # <<>> /\ path' = Append(path, Here) /\ table' = table /\ frames' = frames
  BY DEF Loop
<1>3. "what" \in DOMAIN item /\ item.what \in StatementTags BY DEF StatementTags
<1> HIDE DEF item
<1> QED BY <1>1, <1>2, <1>3, OneStatementBooks

LEMMA SwitchNote ==
    ASSUME Good, jumps.switchStack # <<>>
    PROVE  CurrentSwitch \in SwitchNotes
BY TopSwitch DEF Good, SettledOk, SwitchOk, CurrentSwitch

LEMMA CaseLabelBooks ==
    ASSUME Good, Good', NEW sid, Books(sid), NEW value, CaseLabel(value), ~hasErrors'
    PROVE  \E sid2 : Books(sid2)'
<1> DEFINE item == [what |-> "case", value |-> value]
<1>1. /\ jumps.switchStack # <<>> /\ path # <<>>
      /\ jumps' = [jumps EXCEPT !.nextLabel = @ + 1]
  BY DEF CaseLabel
<1>2. PICK on : /\ WriteLabel(item, on)
                /\ on \in {CurrentSwitch, [CurrentSwitch EXCEPT !.cases = @ \cup {<<value, Here>>}]}
  BY DEF CaseLabel
<1>3. PICK s : s = CurrentSwitch OBVIOUS
<1>4. on.exit = s.exit BY <1>1, <1>3, SwitchNote, <1>2 DEF SwitchNotes
<1>5. PICK sw : sw = Last(jumps.switchStack) /\ s = store[sw] BY <1>3 DEF CurrentSwitch
<1>6. "what" \in DOMAIN item /\ item.what \in {"case", "default"} OBVIOUS
<1> HIDE DEF item
<1> QED BY <1>1, <1>2, <1>4, <1>5, <1>6, LabelBooks

LEMMA DefaultLabelBooks ==
    ASSUME Good, Good', NEW sid, Books(sid), DefaultLabel, ~hasErrors'
    PROVE  \E sid2 : Books(sid2)'
<1> DEFINE item == [what |-> "default"]
<1>1. /\ jumps.switchStack # <<>> /\ path # <<>>
      /\ jumps' = [jumps EXCEPT !.nextLabel = @ + 1]
  BY DEF DefaultLabel
<1>2. PICK on : /\ WriteLabel(item, on)
                /\ on \in {CurrentSwitch, [CurrentSwitch EXCEPT !.defaultLabel = <<Here>>]}
  BY DEF DefaultLabel
<1>3. PICK s : s = CurrentSwitch OBVIOUS
<1>4. on.exit = s.exit BY <1>1, <1>3, SwitchNote, <1>2 DEF SwitchNotes
<1>5. PICK sw : sw = Last(jumps.switchStack) /\ s = store[sw] BY <1>3 DEF CurrentSwitch
<1>6. "what" \in DOMAIN item /\ item.what \in {"case", "default"} OBVIOUS
<1> HIDE DEF item
<1> QED BY <1>1, <1>2, <1>4, <1>5, <1>6, LabelBooks

-----------------------------------------------------------------------------
(* Blocks.                                                                 *)

TableRecord(t) ==
    t = [global |-> t.global, function |-> t.function,
         functionScopeDataHomes |-> t.functionScopeDataHomes, nextScopeId |-> t.nextScopeId]

FunctionRecord(fn) ==
    fn = [values |-> fn.values, arguments |-> fn.arguments, blockIds |-> fn.blockIds,
          function |-> fn.function]

WithIds(f, v) == [f EXCEPT ![1].blockIds = v]
WithValues(f, v) == [f EXCEPT ![1].values = v]
WithFunction(t, v) == [t EXCEPT !.function = v]
WithGlobal(t, v) == [t EXCEPT !.global = v]
WithScope(t, v, n) == [t EXCEPT !.function = v, !.nextScopeId = n]

LEMMA FunctionChanged ==
    ASSUME NEW f, NEW fn, f = <<fn>>, FunctionRecord(fn), NEW v
    PROVE  /\ WithIds(f, v) = <<[values |-> fn.values, arguments |-> fn.arguments, blockIds |-> v,
                                 function |-> fn.function]>>
           /\ WithValues(f, v) = <<[values |-> v, arguments |-> fn.arguments,
                                    blockIds |-> fn.blockIds, function |-> fn.function]>>
BY DEF FunctionRecord, WithIds, WithValues

LEMMA TableChanged ==
    ASSUME NEW t, TableRecord(t), NEW v
    PROVE  /\ WithFunction(t, v) =
                  [global |-> t.global, function |-> v,
                   functionScopeDataHomes |-> t.functionScopeDataHomes, nextScopeId |-> t.nextScopeId]
           /\ WithGlobal(t, v) =
                  [global |-> v, function |-> t.function,
                   functionScopeDataHomes |-> t.functionScopeDataHomes, nextScopeId |-> t.nextScopeId]
           /\ \A n : WithScope(t, v, n) =
                  [global |-> t.global, function |-> v,
                   functionScopeDataHomes |-> t.functionScopeDataHomes, nextScopeId |-> n]
<1>1. PICK a, b, c, d :
          /\ t = [global |-> a, function |-> b, functionScopeDataHomes |-> c, nextScopeId |-> d]
          /\ t.global = a /\ t.function = b /\ t.functionScopeDataHomes = c /\ t.nextScopeId = d
  BY DEF TableRecord
<1>2. [t EXCEPT !.function = v] =
          [global |-> a, function |-> v, functionScopeDataHomes |-> c, nextScopeId |-> d]
  BY <1>1
<1>3. [t EXCEPT !.global = v] =
          [global |-> v, function |-> b, functionScopeDataHomes |-> c, nextScopeId |-> d]
  BY <1>1
<1>4. ASSUME NEW n
      PROVE  [t EXCEPT !.function = v, !.nextScopeId = n] =
                 [global |-> a, function |-> v, functionScopeDataHomes |-> c, nextScopeId |-> n]
  <2>1. PICK u : u = [t EXCEPT !.function = v] OBVIOUS
  <2>2. u = [global |-> a, function |-> v, functionScopeDataHomes |-> c, nextScopeId |-> d]
    BY <1>2, <2>1
  <2>3. [u EXCEPT !.nextScopeId = n] =
            [global |-> a, function |-> v, functionScopeDataHomes |-> c, nextScopeId |-> n]
    BY <2>2
  <2>4. [t EXCEPT !.function = v, !.nextScopeId = n] = [u EXCEPT !.nextScopeId = n]
    BY <2>1
  <2> QED BY <2>3, <2>4
<1> QED BY <1>1, <1>2, <1>3, <1>4 DEF WithFunction, WithGlobal, WithScope

LEMMA BlockEntered ==
    ASSUME NEW t, NEW fn, TableRecord(t), t.function = <<fn>>, FunctionRecord(fn)
    PROVE  EnterBlockScope(t) =
               [global |-> t.global,
                function |-> <<[values |-> fn.values, arguments |-> fn.arguments,
                                blockIds |-> Append(fn.blockIds, t.nextScopeId + 1),
                                function |-> fn.function]>>,
                functionScopeDataHomes |-> t.functionScopeDataHomes,
                nextScopeId |-> t.nextScopeId + 1]
<1>1. PICK n, ids : n = t.nextScopeId + 1 /\ ids = Append(fn.blockIds, n) OBVIOUS
<1>2. PICK u : u = t.function OBVIOUS
<1>3. u[1] = fn BY <1>2
<1>4. EnterBlockScope(t) = WithScope(t, WithIds(u, ids), n)
  BY <1>2, <1>3, <1>1 DEF EnterBlockScope, WithScope, WithIds
<1>5. WithIds(u, ids) = <<[values |-> fn.values, arguments |-> fn.arguments, blockIds |-> ids,
                           function |-> fn.function]>>
  BY <1>2, FunctionChanged
<1>6. WithScope(t, WithIds(u, ids), n) =
          [global |-> t.global, function |-> WithIds(u, ids),
           functionScopeDataHomes |-> t.functionScopeDataHomes, nextScopeId |-> n]
  BY TableChanged
<1> QED BY <1>1, <1>4, <1>5, <1>6

LEMMA FirstAndLast ==
    ASSUME NEW s \in Seq(Nat), Rising(s), s # <<>>
    PROVE  /\ Len(s) \in Nat /\ Len(s) >= 1 /\ DOMAIN s = 1 .. Len(s)
           /\ s[1] \in ToSet(s) /\ Last(s) \in ToSet(s) /\ Last(s) = s[Len(s)]
           /\ \A x \in ToSet(s) : x \in Nat /\ s[1] <= x /\ x <= Last(s)
BY DEF Last, ToSet, Rising

(* The scope that a declaration is written in.                             *)
LEMMA CurrentScope ==
    ASSUME Good, NEW sid, Books(sid), path # <<>>, NEW ids, ids = OpenFunction(table).blockIds
    PROVE  /\ ids \in Seq(Nat) /\ Rising(ids) /\ ids # <<>> /\ Len(ids) \in Nat /\ Len(ids) >= 1
           /\ path[1] \in DOMAIN source /\ ids[1] = sid[path[1]]
           /\ Last(path) \in DOMAIN source /\ Last(path) \in ToSet(path)
           /\ CurrentScopeId(table) = Last(ids)
           /\ Opens(Last(path)) => CurrentScopeId(table) = sid[Last(path)]
           /\ \A x \in ToSet(ids) : x \in Nat /\ x <= table.nextScopeId
<1>1. ids \in Seq(Nat) /\ Rising(ids) /\ ToSet(ids) = {sid[c] : c \in OpenScopes}
  BY OpenFunctionIs DEF IdsOk
<1>2. /\ path \in Seq(Nat) /\ Rising(path) /\ ToSet(path) \subseteq DOMAIN source
  BY Facts, Places
<1>3. /\ Len(path) >= 1 /\ DOMAIN path = 1 .. Len(path) /\ Len(path) \in Nat
      /\ path[1] \in ToSet(path) /\ Last(path) \in ToSet(path)
      /\ \A x \in ToSet(path) : x \in Nat /\ path[1] <= x /\ x <= Last(path)
  BY <1>2, FirstAndLast
<1>4. Opens(path[1]) BY <1>3 DEF Good, PathOk, Opens
<1>5. path[1] \in OpenScopes BY <1>3, <1>4 DEF OpenScopes
<1>6. ids # <<>>
  <2>1. sid[path[1]] \in ToSet(ids) BY <1>1, <1>5
  <2>2. ids = <<>> => ToSet(ids) = {} BY DEF ToSet
  <2> QED BY <2>1, <2>2
<1>7. /\ Len(ids) \in Nat /\ Len(ids) >= 1 /\ ids[1] \in ToSet(ids) /\ Last(ids) \in ToSet(ids)
      /\ Last(ids) = ids[Len(ids)]
      /\ \A x \in ToSet(ids) : x \in Nat /\ ids[1] <= x /\ x <= Last(ids)
  BY <1>1, <1>6, FirstAndLast
<1>8. /\ sid \in [DOMAIN source -> Nat]
      /\ \A c \in DOMAIN source : Opens(c) => sid[c] \in 1 .. table.nextScopeId
      /\ \A c, e \in DOMAIN source : Opens(c) /\ Opens(e) /\ c < e => sid[c] < sid[e]
  BY Facts
<1>9. \A c \in OpenScopes : c \in DOMAIN source /\ Opens(c) /\ c \in ToSet(path)
  BY <1>2 DEF OpenScopes
<1>10. ids[1] = sid[path[1]]
  <2>1. PICK c \in OpenScopes : ids[1] = sid[c] BY <1>1, <1>7
  <2>2. c = path[1] \/ path[1] < c BY <1>3, <1>9
  <2>3. sid[path[1]] <= sid[c] BY <1>5, <1>8, <1>9, <2>2
  <2>4. ids[1] <= sid[path[1]] BY <1>1, <1>5, <1>7
  <2>5. sid[path[1]] \in Nat /\ sid[c] \in Nat BY <1>5, <1>8, <1>9
  <2> QED BY <2>1, <2>3, <2>4, <2>5
<1>11. CurrentScopeId(table) = Last(ids) BY <1>7 DEF CurrentScopeId
<1>12. ASSUME Opens(Last(path)) PROVE Last(ids) = sid[Last(path)]
  <2>0. Last(path) \in OpenScopes BY <1>3, <1>12 DEF OpenScopes
  <2>1. PICK c \in OpenScopes : Last(ids) = sid[c] BY <1>1, <1>7
  <2>2. c = Last(path) \/ c < Last(path) BY <1>3, <1>9
  <2>3. sid[c] <= sid[Last(path)] BY <1>8, <1>9, <2>0, <2>2
  <2>4. sid[Last(path)] <= Last(ids) BY <1>1, <2>0, <1>7
  <2>5. sid[Last(path)] \in Nat /\ sid[c] \in Nat BY <1>8, <1>9, <2>0
  <2> QED BY <2>1, <2>3, <2>4, <2>5
<1>13. ASSUME NEW x \in ToSet(ids) PROVE x \in Nat /\ x <= table.nextScopeId
  BY <1>1, <1>7, <1>8, <1>9 DEF Books, TableOk
<1> QED BY <1>1, <1>2, <1>3, <1>6, <1>7, <1>10, <1>11, <1>12, <1>13

(* What the innermost scope holds is found there.                          *)
LEMMA TopFound ==
    ASSUME NEW t, NEW fn, t.function = <<fn>>, fn.blockIds \in Seq(Nat), fn.blockIds # <<>>,
           NEW n, <<Last(fn.blockIds), n>> \in DOMAIN fn.values
    PROVE  Find(t, n) = <<fn.values[<<Last(fn.blockIds), n>>]>>
<1> DEFINE ids == fn.blockIds
           holding == {k \in DOMAIN ids : <<ids[k], n>> \in DOMAIN fn.values}
<1>1. PICK l : l = Len(ids) OBVIOUS
<1>2. l \in Nat /\ l >= 1 /\ DOMAIN ids = 1 .. l /\ Last(ids) = ids[l] BY <1>1 DEF Last
<1>3. l \in holding /\ holding \subseteq Nat /\ \A k \in holding : k <= l BY <1>2
<1> HIDE DEF ids
<1>4. Max(holding) = l
  <2> HIDE DEF holding
  <2> QED BY <1>3, MaxIs
<1>5. holding # {} BY <1>3
<1>6. OpenFunction(t) = fn /\ ~IsAtFileScope(t) BY DEF OpenFunction, IsAtFileScope, None
<1>7. WalkBlockScopes(t, n) = <<fn.values[<<ids[Max(holding)], n>>]>>
  BY <1>5, <1>6 DEF WalkBlockScopes, ids
<1>8. WalkBlockScopes(t, n) = <<fn.values[<<Last(ids), n>>]>> BY <1>2, <1>4, <1>7
<1>9. WalkBlockScopes(t, n) # None BY <1>8 DEF None
<1> QED BY <1>8, <1>9 DEF Find, ids

TableFor(t, fn, key, e) ==
    [global |-> t.global,
     function |-> <<[values |-> With(fn.values, key, e), arguments |-> fn.arguments,
                     blockIds |-> fn.blockIds, function |-> fn.function]>>,
     functionScopeDataHomes |-> t.functionScopeDataHomes, nextScopeId |-> t.nextScopeId]

LEMMA Inserted ==
    ASSUME NEW t, NEW fn, TableRecord(t), t.function = <<fn>>, FunctionRecord(fn), NEW key, NEW e
    PROVE  /\ key \in DOMAIN fn.values => WithLocal(t, key, e) = {}
           /\ key \notin DOMAIN fn.values => WithLocal(t, key, e) = {TableFor(t, fn, key, e)}
<1>1. OpenFunction(t) = fn BY DEF OpenFunction
<1>2. PICK f : f = t.function OBVIOUS
<1>3. WithLocal(t, key, e) = {WithFunction(t, WithValues(f, v)) : v \in Insert(fn.values, key, e)}
  BY <1>1, <1>2 DEF WithLocal, WithFunction, WithValues
<1>4. key \in DOMAIN fn.values => Insert(fn.values, key, e) = {} BY DEF Insert
<1>5. key \notin DOMAIN fn.values => Insert(fn.values, key, e) = {With(fn.values, key, e)} BY DEF Insert
<1>6. PICK v : v = With(fn.values, key, e) OBVIOUS
<1>7. WithValues(f, v) = <<[values |-> v, arguments |-> fn.arguments, blockIds |-> fn.blockIds,
                            function |-> fn.function]>>
  BY <1>2, FunctionChanged
<1>8. PICK g : g = WithValues(f, v) OBVIOUS
<1>9. WithFunction(t, g) = [global |-> t.global, function |-> g,
                            functionScopeDataHomes |-> t.functionScopeDataHomes,
                            nextScopeId |-> t.nextScopeId]
  BY TableChanged
<1>10. key \in DOMAIN fn.values => WithLocal(t, key, e) = {} BY <1>3, <1>4
<1>11. key \notin DOMAIN fn.values => WithLocal(t, key, e) = {WithFunction(t, g)}
  BY <1>3, <1>5, <1>6, <1>8
<1> QED BY <1>6, <1>7, <1>8, <1>9, <1>10, <1>11 DEF TableFor

LEMMA WithIs ==
    ASSUME NEW s, NEW key, NEW e
    PROVE  /\ DOMAIN With(s, key, e) = DOMAIN s \cup {key} /\ With(s, key, e)[key] = e
           /\ \A k \in DOMAIN s : k # key => With(s, key, e)[k] = s[k]
BY DEF With

-----------------------------------------------------------------------------
(* Inside a function.                                                      *)

LEMMA BooksInside ==
    ASSUME NEW sid, NEW sid2, Adding(sid, sid2), path # <<>>, TableRecord(table'),
           table'.functionScopeDataHomes = table.functionScopeDataHomes, frames' = frames,
           NEW fn2, table'.function = <<fn2>>,
           fn2 = [values |-> fn2.values, arguments |-> OpenFunction(table).arguments,
                  blockIds |-> fn2.blockIds, function |-> OpenFunction(table).function],
           \A e \in New : source'[e].what # "parameter",
           IdsOk(sid2, fn2.blockIds)', ValuesOk(sid2, fn2)',
           ScopesOk(sid2)', DeclarationsOk', HoldersOk(sid2)', GlobalOk'
    PROVE  Books(sid2)'
BY AddedFacts, AddEnded, AddFunction, InsideNow DEF TableOk, TableRecord, Adding, Books

LEMMA BlockBooks ==
    ASSUME Good, Good', NEW sid, Books(sid), Block
    PROVE  \E sid2 : Books(sid2)'
<1> DEFINE item == [what |-> "block"]
<1>1. "what" \in DOMAIN item /\ item.what = "block" OBVIOUS
<1>2. /\ Write(<<Written(item)>>, <<NoNote>>) /\ path # <<>> /\ path' = Append(path, Here)
      /\ table' = EnterBlockScope(table) /\ frames' = frames
  BY DEF Block
<1> HIDE DEF item
<1>3. source' = source \o <<Written(item)>> /\ store' = store \o <<NoNote>> BY <1>2 DEF Write
<1>4. PICK it : it = Written(item) OBVIOUS
<1>5. it.what = "block" /\ it.path = path BY <1>1, <1>4, WrittenIs
<1>6. PICK h : h = Here OBVIOUS
<1>7. /\ Grows
      /\ \A d \in DOMAIN source : store'[d] = store[d]
      /\ DOMAIN source' \ DOMAIN source = {h}
      /\ source'[h] = it
  BY ONLY Good, <1>3, <1>4, <1>6, AddedOne
<1>8. New = {h} /\ source'[h].what = "block" /\ source'[h].path = path BY <1>5, <1>7 DEF New
<1>9. PICK sid2 : Continues(sid, sid2) BY DEF Continues
<1>10. InPlace BY <1>2, <1>6, <1>8 DEF InPlace
<1>11. PICK fn : fn = OpenFunction(table) OBVIOUS
<1>12. table.function = <<fn>> /\ FunctionRecord(fn) /\ IdsOk(sid, fn.blockIds) /\ ValuesOk(sid, fn)
  BY <1>2, <1>11, OpenFunctionIs DEF FunctionRecord
<1>13. TableRecord(table) /\ table.nextScopeId \in Nat BY DEF Books, TableOk, TableRecord
<1>14. PICK n : n = table.nextScopeId + 1 OBVIOUS
<1>15. PICK fn2 : fn2 = [values |-> fn.values, arguments |-> fn.arguments,
                         blockIds |-> Append(fn.blockIds, n), function |-> fn.function]
  OBVIOUS
<1>16. table' = [global |-> table.global, function |-> <<fn2>>,
                 functionScopeDataHomes |-> table.functionScopeDataHomes, nextScopeId |-> n]
  BY <1>2, <1>12, <1>13, <1>14, <1>15, BlockEntered
<1>17. Adding(sid, sid2)
  BY <1>7, <1>8, <1>9, <1>10, <1>13, <1>14, <1>16 DEF Adding
<1>18. Opens(h)' BY <1>8 DEF Opens, Tag
<1>19. ScopesOk(sid2)' BY <1>6, <1>8, <1>14, <1>16, <1>17, AddScopes
<1>20. ~IsDecl(h)' /\ ~IsFunctionItem(h)' /\ Tag(h)' = "block" BY <1>8 DEF IsDecl, IsFunctionItem, Tag
<1>21. DeclarationsOk' BY <1>2, <1>8, <1>20, <1>17, AddDeclarations DEF DeclOk, Tag
<1>22. HoldersOk(sid2)' BY <1>20, <1>8, <1>17, AddHolders DEF HasObject
<1>23. GlobalOk' BY <1>20, <1>16, <1>8, <1>17, AddGlobalSame DEF Declares
<1>24. IdsOk(sid2, fn2.blockIds)'
  <2>1. PICK ids : ids = fn.blockIds OBVIOUS
  <2>2. table'.nextScopeId = n /\ path' = Append(path, h) /\ h \in New BY <1>2, <1>6, <1>8, <1>16
  <2>3. IdsOk(sid2, Append(ids, n))' BY <1>6, <1>12, <1>14, <1>17, <1>18, <2>1, <2>2, IdsPushed
  <2>4. fn2.blockIds = Append(ids, n) BY <1>15, <2>1
  <2> QED BY <2>3, <2>4
<1>25. ValuesOk(sid2, fn2)'
  <2>1. fn2.values = fn.values BY <1>15
  <2>2. \A e \in New : source'[e].what \notin {"object", "enumerator"} BY <1>8
  <2> QED BY <1>2, <1>12, <1>17, <2>1, <2>2, ValuesSame
<1>26. /\ TableRecord(table') /\ table'.function = <<fn2>>
       /\ table'.functionScopeDataHomes = table.functionScopeDataHomes
  BY <1>16 DEF TableRecord
<1>27. fn2 = [values |-> fn2.values, arguments |-> OpenFunction(table).arguments,
              blockIds |-> fn2.blockIds, function |-> OpenFunction(table).function]
  BY <1>11, <1>15
<1>28. \A e \in New : source'[e].what # "parameter" BY <1>8
<1> QED BY <1>2, <1>17, <1>19, <1>21, <1>22, <1>23, <1>24, <1>25, <1>26, <1>27, <1>28, BooksInside

-----------------------------------------------------------------------------
(* What the analysis of an object leaves.                                  *)

TypeFor(item) == IF item.type = "int[]" /\ item.init # None THEN "int[3]" ELSE item.type

MentionedBy(t, item) ==
    IF item.init \in {None, <<None>>} THEN NoNote ELSE Identify(t, item.init[1][1])

Outcome(t, item, at, after) ==
    IF item.init # None /\ IsGlobal(Find(after, item.name)[1])
    THEN SetStaticInit(after, item.name, at) ELSE after

BoundTables(t, item) == BindObject(t, item, TypeFor(item), StorageOf(t, item))

Visiting(t, item, after) == IF item.type = "int[]" THEN t ELSE after

LEMMA Analyzed ==
    ASSUME NEW t, NEW item, NEW at, NEW after,
           BoundTables(t, item) = {} \/ BoundTables(t, item) = {after}
    PROVE  /\ BoundTables(t, item) = {} => AnalyzeObject(t, item, at).refused
           /\ BoundTables(t, item) = {after} =>
                  /\ AnalyzeObject(t, item, at).table = Outcome(t, item, at, after)
                  /\ AnalyzeObject(t, item, at).note.holder = Find(after, item.name)[1].object
                  /\ AnalyzeObject(t, item, at).note.mentioned = MentionedBy(Visiting(t, item, after), item)
                  /\ AnalyzeObject(t, item, at).refused =
                         (AnalyzeObject(t, item, at).note.mentioned = <<"undefined">>)
<1> DEFINE bound == BoundTables(t, item)
           visiting == Visiting(t, item, after)
           done == AnalyzeObject(t, item, at)
<1>3. bound = BindObject(t, item, TypeFor(item), StorageOf(t, item)) BY DEF BoundTables
<1>4. visiting = IF item.type = "int[]" THEN t ELSE after BY DEF Visiting
<1>5. done = AnalyzeObject(t, item, at) OBVIOUS
<1> HIDE DEF bound, visiting, done
<1>1. CASE bound = {} BY <1>1, <1>3, <1>5 DEF AnalyzeObject, TypeFor, bound, visiting, done
<1>2. CASE bound = {after}
  <2>1. bound # {} /\ (CHOOSE u \in bound : TRUE) = after BY <1>2
  <2>2. PICK holder, mentioned :
            /\ holder = Find(after, item.name)[1]
            /\ mentioned = MentionedBy(visiting, item)
    OBVIOUS
  <2>3. AnalyzeObject(t, item, at) =
            [table |-> Outcome(t, item, at, after),
             note |-> [holder |-> holder.object, mentioned |-> mentioned],
             refused |-> (mentioned = <<"undefined">>)]
    <3>1. /\ (bound = {}) = FALSE /\ (bound # {}) = TRUE
          /\ (IF bound = {} THEN t ELSE CHOOSE u \in bound : TRUE) = after
      BY <2>1
    <3>2. Outcome(t, item, at, after) =
              IF bound # {} /\ item.init # None /\ IsGlobal(holder)
              THEN SetStaticInit(after, item.name, at) ELSE after
      BY <2>1, <2>2 DEF Outcome
    <3>3. mentioned = IF item.init \in {None, <<None>>} THEN NoNote
                      ELSE Identify(visiting, item.init[1][1])
      BY <2>2 DEF MentionedBy
    <3>4. (bound = {} \/ mentioned = <<"undefined">>) = (mentioned = <<"undefined">>) BY <2>1
    <3>5. (IF bound = {} THEN None ELSE holder.object) = holder.object BY <2>1
    <3> HIDE DEF Outcome
    <3> QED BY <1>3, <1>4, <2>2, <3>1, <3>2, <3>3, <3>4, <3>5 DEF AnalyzeObject, TypeFor
  <2>4. /\ done.table = Outcome(t, item, at, after) /\ done.note.holder = holder.object
        /\ done.note.mentioned = mentioned /\ done.refused = (mentioned = <<"undefined">>)
    BY <1>5, <2>3
  <2> QED BY <2>1, <2>2, <2>4 DEF bound, visiting, done
<1>6. bound = {} \/ bound = {after} BY DEF bound
<1> QED BY <1>1, <1>2, <1>6 DEF bound, visiting, done

(* An object of a block.                                                   *)
EntryFor(item, at, id) ==
    LET static == item.storage = "static"
    IN  [Entry(IF static THEN StaticName(id, item.name) ELSE LocalName(id, item.name), TypeFor(item),
               IF static THEN "static" ELSE "automatic")
            EXCEPT !.staticInit = IF static /\ item.init # None THEN <<at>> ELSE None]

LEMMA TableForIs ==
    ASSUME NEW t, NEW fn, NEW key, NEW e
    PROVE  /\ TableRecord(TableFor(t, fn, key, e))
           /\ \E fn2 : /\ TableFor(t, fn, key, e).function = <<fn2>> /\ FunctionRecord(fn2)
                       /\ fn2.values = With(fn.values, key, e) /\ fn2.arguments = fn.arguments
                       /\ fn2.blockIds = fn.blockIds /\ fn2.function = fn.function
           /\ TableFor(t, fn, key, e).global = t.global
           /\ TableFor(t, fn, key, e).nextScopeId = t.nextScopeId
           /\ TableFor(t, fn, key, e).functionScopeDataHomes = t.functionScopeDataHomes
BY DEF TableFor, FunctionRecord, TableRecord

WithInit(e, at) == [e EXCEPT !.staticInit = <<at>>]

LEMMA StaticInitSet ==
    ASSUME NEW t, NEW fn, TableRecord(t), t.function = <<fn>>, FunctionRecord(fn),
           fn.blockIds \in Seq(Nat), fn.blockIds # <<>>, NEW n, NEW at,
           NEW key, key = <<Last(fn.blockIds), n>>, key \in DOMAIN fn.values
    PROVE  SetStaticInit(t, n, at) =
               TableFor(t, fn, key, WithInit(fn.values[key], at))
<1>1. OpenFunction(t) = fn /\ ~IsAtFileScope(t) /\ t.function[1] = fn
  BY DEF OpenFunction, IsAtFileScope, None
<1>2. CurrentScopeId(t) = Last(fn.blockIds) BY <1>1 DEF CurrentScopeId, Last
<1>3. PICK e : e = [fn.values[key] EXCEPT !.staticInit = <<at>>] OBVIOUS
<1>31. e = WithInit(fn.values[key], at) BY <1>3 DEF WithInit
<1>4. PICK v : v = [fn.values EXCEPT ![key] = e] OBVIOUS
<1>5. PICK f : f = t.function OBVIOUS
<1>6. SetStaticInit(t, n, at) = WithFunction(t, WithValues(f, v))
  BY <1>1, <1>2, <1>3, <1>4, <1>5 DEF SetStaticInit, WithFunction, WithValues
<1>7. WithValues(f, v) = <<[values |-> v, arguments |-> fn.arguments, blockIds |-> fn.blockIds,
                            function |-> fn.function]>>
  BY <1>5, FunctionChanged
<1>8. PICK g : g = WithValues(f, v) OBVIOUS
<1>9. WithFunction(t, g) = [global |-> t.global, function |-> g,
                            functionScopeDataHomes |-> t.functionScopeDataHomes,
                            nextScopeId |-> t.nextScopeId]
  BY TableChanged
<1>10. v = With(fn.values, key, e) BY <1>4 DEF With
<1> QED BY <1>31, <1>6, <1>7, <1>8, <1>9, <1>10 DEF TableFor

(* What a name is taken for does not depend on initial values.             *)
Alike(e, f) == e.value = f.value /\ e.type = f.type /\ e.object = f.object

LEMMA IdentifyAlike ==
    ASSUME NEW t, NEW u, NEW n,
           \/ t.function = None /\ u.function = None
           \/ \E f, g : /\ t.function = <<f>> /\ u.function = <<g>>
                        /\ f.blockIds = g.blockIds /\ f.arguments = g.arguments
                        /\ f.blockIds \in Seq(Nat)
                        /\ DOMAIN f.values = DOMAIN g.values
                        /\ \A k \in DOMAIN f.values : Alike(f.values[k], g.values[k]),
           DOMAIN t.global = DOMAIN u.global,
           \A k \in DOMAIN t.global : Alike(t.global[k], u.global[k])
    PROVE  Identify(t, n) = Identify(u, n)
<1> DEFINE Same(a, b) == \/ a = None /\ b = None
                         \/ \E e, f : a = <<e>> /\ b = <<f>> /\ Alike(e, f)
<1>1. Same(FileScope(t, n), FileScope(u, n)) BY DEF FileScope, At
<1>2. Same(WalkBlockScopes(t, n), WalkBlockScopes(u, n))
  <2>1. CASE t.function = None /\ u.function = None
    BY <2>1 DEF WalkBlockScopes, IsAtFileScope
  <2>2. CASE \E f, g : /\ t.function = <<f>> /\ u.function = <<g>>
                       /\ f.blockIds = g.blockIds /\ f.arguments = g.arguments
                       /\ f.blockIds \in Seq(Nat)
                       /\ DOMAIN f.values = DOMAIN g.values
                       /\ \A k \in DOMAIN f.values : Alike(f.values[k], g.values[k])
    <3>1. PICK f, g : /\ t.function = <<f>> /\ u.function = <<g>>
                      /\ f.blockIds = g.blockIds /\ f.arguments = g.arguments
                      /\ f.blockIds \in Seq(Nat)
                      /\ DOMAIN f.values = DOMAIN g.values
                      /\ \A k \in DOMAIN f.values : Alike(f.values[k], g.values[k])
      BY <2>2
    <3> DEFINE holding == {k \in DOMAIN f.blockIds : <<f.blockIds[k], n>> \in DOMAIN f.values}
               other == {k \in DOMAIN g.blockIds : <<g.blockIds[k], n>> \in DOMAIN g.values}
    <3>2. holding = other BY <3>1
    <3>3. <<f>> # <<>> /\ <<f>>[1] = f /\ <<g>> # <<>> /\ <<g>>[1] = g OBVIOUS
    <3>4. /\ OpenFunction(t) = f /\ ~IsAtFileScope(t) /\ OpenFunction(u) = g /\ ~IsAtFileScope(u)
      BY <3>1, <3>3 DEF OpenFunction, IsAtFileScope, None
    <3>5. /\ WalkBlockScopes(t, n) = IF holding = {} THEN FindArgument(f, n)
                                     ELSE <<f.values[<<f.blockIds[Max(holding)], n>>]>>
          /\ WalkBlockScopes(u, n) = IF other = {} THEN FindArgument(g, n)
                                     ELSE <<g.values[<<g.blockIds[Max(other)], n>>]>>
      BY <3>4 DEF WalkBlockScopes
    <3>6. FindArgument(f, n) = FindArgument(g, n) BY <3>1 DEF FindArgument
    <3>7. CASE holding = {}
      <4>1. Same(FindArgument(f, n), FindArgument(f, n))
        <5> DEFINE mine == {k \in DOMAIN f.arguments : f.arguments[k].object[3] = n}
        <5>1. FindArgument(f, n) = IF mine = {} THEN None ELSE <<f.arguments[Min(mine)]>>
          BY DEF FindArgument
        <5>2. Alike(f.arguments[Min(mine)], f.arguments[Min(mine)]) BY DEF Alike
        <5> HIDE DEF mine
        <5> QED BY <5>1, <5>2
      <4> QED BY <3>2, <3>5, <3>6, <3>7, <4>1
    <3>8. CASE holding # {}
      <4>1. Max(holding) \in holding
        <5>1. PICK l : l = Len(f.blockIds) OBVIOUS
        <5>2. l \in Nat /\ DOMAIN f.blockIds = 1 .. l BY <3>1, <5>1
        <5>3. holding \subseteq 1 .. l BY <5>2
        <5> HIDE DEF holding
        <5> QED BY <3>8, <5>2, <5>3, Greatest
      <4>2. PICK m : m = Max(holding) OBVIOUS
      <4>3. PICK key : key = <<f.blockIds[m], n>> OBVIOUS
      <4>4. key \in DOMAIN f.values BY <4>1, <4>2, <4>3
      <4>5. Alike(f.values[key], g.values[key]) BY <3>1, <4>4
      <4>6. WalkBlockScopes(t, n) = <<f.values[key]>> /\ WalkBlockScopes(u, n) = <<g.values[key]>>
        BY <3>1, <3>2, <3>5, <3>8, <4>2, <4>3
      <4> QED BY <4>5, <4>6
    <3> QED BY <3>7, <3>8
  <2> QED BY <2>1, <2>2
<1>3. Same(Find(t, n), Find(u, n)) BY <1>1, <1>2 DEF None, Find
<1>4. CASE Find(t, n) = None /\ Find(u, n) = None BY <1>4 DEF Identify
<1>5. CASE \E e, f : Find(t, n) = <<e>> /\ Find(u, n) = <<f>> /\ Alike(e, f)
  BY <1>5 DEF None, Alike, IsEnumerator, IsFunction, Identify
<1> QED BY <1>3, <1>4, <1>5

(* The initializer is visited with the table that is left, initial values  *)
(* apart.                                                                  *)
VisitedIn(t, item, note, left) ==
    \E after : /\ note.mentioned = MentionedBy(Visiting(t, item, after), item)
              /\ \A n : Identify(left, n) = Identify(after, n)

LEMMA BoundInBlock ==
    ASSUME NEW t, NEW fn, TableRecord(t), t.function = <<fn>>, FunctionRecord(fn),
           fn.blockIds \in Seq(Nat), fn.blockIds # <<>>, NEW item, item.storage # "extern", NEW at,
           NEW id, id = Last(fn.blockIds), NEW key, key = <<id, item.name>>,
           NEW done, done = AnalyzeObject(t, item, at), ~done.refused
    PROVE  /\ key \notin DOMAIN fn.values /\ TypeFor(item) # "int[]"
           /\ ~(id = fn.blockIds[1] /\ FindArgument(fn, item.name) # None)
           /\ done.table = TableFor(t, fn, key, EntryFor(item, at, id))
           /\ done.note.holder = EntryFor(item, at, id).object
           /\ VisitedIn(t, item, done.note, done.table)
           /\ done.note.mentioned # <<"undefined">>
<1>1. OpenFunction(t) = fn /\ ~IsAtFileScope(t) /\ CurrentScopeId(t) = id
  BY DEF OpenFunction, IsAtFileScope, None, CurrentScopeId, Last
<1> DEFINE static == item.storage = "static"
           name == item.name
           type == TypeFor(item)
           object == IF static THEN StaticName(id, name) ELSE LocalName(id, name)
           storage == IF static THEN "static" ELSE "automatic"
<1>2. PICK inserted : inserted = Entry(object, type, storage) OBVIOUS
<1>3. PICK after : after = TableFor(t, fn, key, inserted) OBVIOUS
<1>4. PICK bound : bound = BindObject(t, item, type, StorageOf(t, item)) OBVIOUS
<1>5. StorageOf(t, item) = storage BY <1>1 DEF StorageOf
<1> HIDE DEF type
<1>6. bound = IF \/ type = "int[]"
                 \/ id = fn.blockIds[1] /\ FindArgument(fn, name) # None
                 \/ key \in DOMAIN fn.values
              THEN {} ELSE {after}
  BY <1>1, <1>4, <1>5, <1>2, <1>3, Inserted DEF BindObject, InsertSymbol
<1>7. bound = {} \/ bound = {after} BY <1>6
<1>8. /\ bound = {} => done.refused
      /\ bound = {after} =>
             /\ done.table = Outcome(t, item, at, after)
             /\ done.note.holder = Find(after, item.name)[1].object
             /\ done.note.mentioned = MentionedBy(Visiting(t, item, after), item)
             /\ done.refused = (done.note.mentioned = <<"undefined">>)
  <2>1. bound = BoundTables(t, item) BY <1>4 DEF type, BoundTables
  <2>2. BoundTables(t, item) = {} \/ BoundTables(t, item) = {after} BY <1>7, <2>1
  <2>3. /\ BoundTables(t, item) = {} => AnalyzeObject(t, item, at).refused
        /\ BoundTables(t, item) = {after} =>
               /\ AnalyzeObject(t, item, at).table = Outcome(t, item, at, after)
               /\ AnalyzeObject(t, item, at).note.holder = Find(after, item.name)[1].object
               /\ AnalyzeObject(t, item, at).note.mentioned = MentionedBy(Visiting(t, item, after), item)
               /\ AnalyzeObject(t, item, at).refused =
                      (AnalyzeObject(t, item, at).note.mentioned = <<"undefined">>)
    BY <2>2, Analyzed
  <2> QED BY <2>1, <2>3
<1>9. bound = {after} BY <1>7, <1>8
<1>10. /\ key \notin DOMAIN fn.values /\ type # "int[]"
       /\ ~(id = fn.blockIds[1] /\ FindArgument(fn, item.name) # None) BY <1>6, <1>9
<1>11. PICK fn2 : /\ after.function = <<fn2>> /\ FunctionRecord(fn2)
                  /\ fn2.values = With(fn.values, key, inserted) /\ fn2.arguments = fn.arguments
                  /\ fn2.blockIds = fn.blockIds /\ fn2.function = fn.function
  BY <1>3, TableForIs
<1>12. /\ TableRecord(after) /\ after.global = t.global /\ after.nextScopeId = t.nextScopeId
       /\ after.functionScopeDataHomes = t.functionScopeDataHomes
  BY <1>3, TableForIs
<1>13. /\ DOMAIN fn2.values = DOMAIN fn.values \cup {key} /\ fn2.values[key] = inserted
       /\ key = <<Last(fn2.blockIds), name>> BY WithIs, <1>11 DEF With
<1>14. Find(after, name) = <<inserted>> BY <1>13, <1>11, TopFound
<1>15. IsGlobal(inserted) <=> static BY <1>2 DEF IsGlobal, Entry
<1>16. PICK e : e = EntryFor(item, at, id) OBVIOUS
<1>17. e = IF static /\ item.init # None THEN [inserted EXCEPT !.staticInit = <<at>>] ELSE inserted
  <2>1. CASE static /\ item.init # None BY <1>2, <1>16, <2>1 DEF EntryFor, type
  <2>2. CASE ~(static /\ item.init # None)
    <3>1. e = [inserted EXCEPT !.staticInit = None] BY <1>2, <1>16, <2>2 DEF EntryFor, type
    <3>2. [inserted EXCEPT !.staticInit = None] = inserted
      <4>1. DOMAIN inserted = {"object", "type", "storage", "value", "staticInit", "definingInitializer",
                "functionDefined", "inline", "externalNonInline", "functionExtern"}
        BY <1>2 DEF Entry
      <4>2. inserted.staticInit = None BY <1>2 DEF Entry
      <4>3. inserted = [f \in DOMAIN inserted |-> inserted[f]] BY <1>2 DEF Entry
      <4> QED BY <4>1, <4>2, <4>3
    <3> QED BY <2>2, <3>1, <3>2
  <2> QED BY <2>1, <2>2
<1>18. e.object = inserted.object /\ Alike(inserted, e)
  BY <1>2, <1>17 DEF Alike, Entry
<1>19. done.table = TableFor(t, fn, key, e)
  <2>1. CASE static /\ item.init # None
    <3>1. done.table = SetStaticInit(after, name, at) BY <1>8, <1>9, <1>14, <1>15, <2>1 DEF Outcome
    <3>2. SetStaticInit(after, name, at) =
              TableFor(after, fn2, key, WithInit(fn2.values[key], at))
      <4>1. /\ TableRecord(after) /\ after.function = <<fn2>> /\ FunctionRecord(fn2)
            /\ fn2.blockIds \in Seq(Nat) /\ fn2.blockIds # <<>>
            /\ key = <<Last(fn2.blockIds), name>> /\ key \in DOMAIN fn2.values
        BY <1>11, <1>12, <1>13
      <4>2. \A n : key = <<Last(fn2.blockIds), n>> =>
                SetStaticInit(after, n, at) = TableFor(after, fn2, key, WithInit(fn2.values[key], at))
        BY ONLY <4>1, StaticInitSet
      <4> QED BY <4>1, <4>2
    <3>3. With(fn2.values, key, e) = With(fn.values, key, e) BY <1>11 DEF With
    <3>4. TableFor(after, fn2, key, e) = TableFor(t, fn, key, e) BY <1>11, <1>12, <3>3 DEF TableFor
    <3>5. e = WithInit(fn2.values[key], at) BY <1>13, <1>17, <2>1 DEF WithInit
    <3> QED BY <3>1, <3>2, <3>4, <3>5
  <2>2. CASE ~(static /\ item.init # None)
    BY <1>8, <1>9, <1>14, <1>15, <2>2, <1>3, <1>17 DEF Outcome
  <2> QED BY <2>1, <2>2
<1>20. ASSUME NEW n PROVE Identify(done.table, n) = Identify(after, n)
  <2>1. PICK u : u = done.table OBVIOUS
  <2>2. PICK fn3 : /\ u.function = <<fn3>> /\ FunctionRecord(fn3)
                   /\ fn3.values = With(fn.values, key, e) /\ fn3.arguments = fn.arguments
                   /\ fn3.blockIds = fn.blockIds /\ fn3.function = fn.function
    BY <1>19, <2>1, TableForIs
  <2>3. u.global = after.global BY <1>12, <1>19, <2>1, TableForIs
  <2>4. DOMAIN fn3.values = DOMAIN fn2.values
    <3>1. DOMAIN With(fn.values, key, e) = DOMAIN fn.values \cup {key} BY ONLY WithIs
    <3> QED BY <1>13, <2>2, <3>1
  <2>5. \A k \in DOMAIN fn3.values : Alike(fn3.values[k], fn2.values[k])
    BY <1>11, <1>18, <2>2 DEF With, Alike
  <2>6. \A k \in DOMAIN u.global : Alike(u.global[k], after.global[k]) BY <2>3 DEF Alike
  <2> QED BY <1>11, <2>1, <2>2, <2>3, <2>4, <2>5, <2>6, IdentifyAlike
<1>21. done.note.holder = e.object BY <1>8, <1>9, <1>14, <1>18
<1>22. /\ done.note.mentioned = MentionedBy(Visiting(t, item, after), item)
       /\ done.note.mentioned # <<"undefined">>
  BY <1>8, <1>9
<1>23. VisitedIn(t, item, done.note, done.table) BY <1>20, <1>22 DEF VisitedIn
<1> QED BY <1>10, <1>16, <1>19, <1>21, <1>22, <1>23 DEF type

-----------------------------------------------------------------------------
(* An object of a block is added.                                          *)

LEMMA EntryIs ==
    ASSUME NEW o \in Homes, NEW type \in ObjectTypes \cup FunctionTypes, NEW s \in Storages
    PROVE  /\ Entry(o, type, s) \in Entries /\ Entry(o, type, s).object = o
           /\ Entry(o, type, s).type = type /\ Entry(o, type, s).storage = s
           /\ Entry(o, type, s).value = None
BY DEF Entry, Entries, Optional

LEMMA HomesAre ==
    ASSUME NEW n \in Names, NEW k \in Nat
    PROVE  FileName(n) \in Homes /\ LocalName(k, n) \in Homes /\ StaticName(k, n) \in Homes
BY DEF Homes

(* Item e of the unit is one that was offered.                             *)
SameObject(e, item) ==
    /\ Tag(e) = "object" /\ source[e].name = item.name /\ source[e].storage = item.storage
    /\ source[e].type = item.type /\ source[e].init = item.init

ObjectItem(item) ==
    /\ item.name \in Names /\ item.storage \in StorageSpecifiers /\ item.type \in ObjectTypes
    /\ item.init \in Initializers

LEMMA TypeForIs ==
    ASSUME NEW item, item.type \in ObjectTypes
    PROVE  TypeFor(item) \in ObjectTypes
BY DEF TypeFor, ObjectTypes

LEMMA EntryForIs ==
    ASSUME NEW sid, NEW e, NEW item, SameObject(e, item)', ObjectItem(item), item.storage # "extern",
           NEW id \in Nat, sid[Scope(e)'] = id, e \in Nat
    PROVE  /\ EntryFor(item, e, id) = LocalEntry(sid, e)'
           /\ EntryFor(item, e, id).object = HomeName(sid, e)'
           /\ EntryFor(item, e, id) \in Entries
<1> DEFINE static == item.storage = "static"
<1>1. PICK o : o = IF static THEN StaticName(id, item.name) ELSE LocalName(id, item.name) OBVIOUS
<1>2. PICK s : s = IF static THEN "static" ELSE "automatic" OBVIOUS
<1>3. PICK type : type = TypeFor(item) OBVIOUS
<1>4. PICK init : init = IF static /\ item.init # None THEN <<e>> ELSE None OBVIOUS
<1>5. PICK first : first = Entry(o, type, s) OBVIOUS
<1>6. EntryFor(item, e, id) = [first EXCEPT !.staticInit = init]
  BY <1>1, <1>2, <1>3, <1>4, <1>5 DEF EntryFor
<1>7. o \in Homes BY <1>1, HomesAre DEF ObjectItem
<1>8. s \in Storages BY <1>2 DEF Storages
<1>9. type \in ObjectTypes BY <1>3, TypeForIs DEF ObjectItem
<1>10. init \in Optional BY <1>4 DEF Optional, None
<1>11. first \in Entries /\ first.object = o /\ first.staticInit = None
  BY <1>5, <1>7, <1>8, <1>9, EntryIs DEF Entry
<1>12. /\ [first EXCEPT !.staticInit = init] \in Entries
       /\ [first EXCEPT !.staticInit = init].object = o
       /\ init = None => [first EXCEPT !.staticInit = init] = first
  BY <1>10, <1>11 DEF Entries
<1>13. HomeName(sid, e)' = o BY <1>1 DEF HomeName, SameObject, Tag
<1>14. TypeOf(e)' = type BY <1>3 DEF TypeOf, TypeFor, SameObject
<1>15. LocalEntry(sid, e)' = [first EXCEPT !.staticInit = init]
  BY <1>2, <1>4, <1>5, <1>13, <1>14, <1>12 DEF SameObject, LocalEntry
<1> QED BY <1>6, <1>12, <1>13, <1>15

LEMMA ObjectAdded ==
    ASSUME NEW sid, NEW sid2, Adding(sid, sid2), path # <<>>, NEW e \in New, NEW item, NEW id \in Nat,
           SameObject(e, item)', ObjectItem(item), item.storage # "extern", TypeFor(item) # "int[]",
           Scope(e)' # 0, Opens(Scope(e))', sid2[Scope(e)'] = id,
           \A d \in New : d # e => source'[d].what = "loop" /\ source'[d].path # <<>>,
           \A d \in DOMAIN source :
               IsDecl(d) /\ source[d].name = item.name /\ Scope(d) = Scope(e)' => Tag(d) = "prototype",
           NEW fn2, table'.function = <<fn2>>, FunctionRecord(fn2),
           fn2.values = With(OpenFunction(table).values, <<id, item.name>>, EntryFor(item, e, id)),
           <<id, item.name>> \notin DOMAIN OpenFunction(table).values,
           fn2.arguments = OpenFunction(table).arguments, fn2.function = OpenFunction(table).function,
           IdsOk(sid2, fn2.blockIds)', TableRecord(table'), table'.global = table.global,
           table'.functionScopeDataHomes = table.functionScopeDataHomes, frames' = frames,
           ScopesOk(sid2)', store'[e].holder = EntryFor(item, e, id).object
    PROVE  Books(sid2)'
<1>1. PICK entry : entry = EntryFor(item, e, id) OBVIOUS
<1>2. /\ entry = LocalEntry(sid2, e)' /\ entry.object = HomeName(sid2, e)' /\ entry \in Entries
      /\ e \in Nat
  <2>1. e \in Nat BY AddedFacts
  <2> QED BY <1>1, <2>1, EntryForIs
<1>3. /\ Tag(e)' = "object" /\ source'[e].name = item.name /\ source'[e].storage # "extern"
      /\ source'[e].storage \in StorageSpecifiers /\ source'[e].type \in ObjectTypes
      /\ source'[e].init \in Initializers /\ source'[e].name \in Names /\ TypeOf(e)' # "int[]"
      /\ source'[e].what = "object"
  BY DEF SameObject, ObjectItem, TypeOf, TypeFor, Tag
<1>4. source'[e].path # <<>> BY DEF Scope
<1>5. ~FileScopeItem(e)' /\ ~HasLinkage(e)' /\ HasObject(e)' /\ ~IsFunctionItem(e)' /\ IsDecl(e)'
  BY <1>3, <1>4 DEF FileScopeItem, HasLinkage, HasObject, IsFunctionItem, IsDecl
<1>6. \A d \in New : d # e =>
          /\ Tag(d)' = "loop" /\ ~IsDecl(d)' /\ ~HasObject(d)' /\ ~IsFunctionItem(d)'
          /\ \A n : ~Declares(d, n)'
  BY DEF Tag, IsDecl, HasObject, IsFunctionItem, Declares
<1>7. DeclarationsOk'
  <2>1. DeclOk(e)' BY <1>3, <1>4, <1>5 DEF DeclOk, Tag
  <2>2. ASSUME NEW d \in New, d # e PROVE DeclOk(d)' BY <2>2, <1>6 DEF DeclOk
  <2>3. ASSUME NEW f \in New, NEW d \in DOMAIN source', d # f, IsDecl(d)', IsDecl(f)',
               source'[d].name = source'[f].name, Scope(d)' = Scope(f)'
        PROVE  ScopeOk(d, f)' BY <1>6, <2>3, AddedFacts, <1>3, ItemSame DEF ScopeOk
  <2> QED BY <2>1, <2>2, <2>3, AddDeclarations
<1>8. HoldersOk(sid2)' BY <1>1, <1>2, <1>6, AddHolders
<1>9. GlobalOk' BY <1>5, <1>6, AddGlobalSame
<1>10. ValuesOk(sid2, fn2)'
  <2>1. PICK fn : fn = OpenFunction(table) OBVIOUS
  <2>2. ValuesOk(sid, fn) BY <2>1, AddedFacts, OpenFunctionIs
  <2>3. PICK key : key = <<id, item.name>> OBVIOUS
  <2>4. KeyOf(sid2, e)' = key BY <1>3, <2>3 DEF KeyOf
  <2>5. fn2.values = With(fn.values, key, entry) BY <1>1, <2>1, <2>3
  <2>6. DOMAIN With(fn.values, key, entry) = DOMAIN fn.values \cup {key} BY ONLY WithIs
  <2>7. With(fn.values, key, entry)[key] = entry BY DEF With
  <2>8. \A k \in DOMAIN fn.values : fn2.values[k] = fn.values[k] BY <2>1, <2>3, <2>5 DEF With
  <2>9. BlockEntryOk(sid2, e, entry)' BY <1>2, <1>3, <1>5 DEF BlockEntryOk, Entries
  <2>10. fn2.values[KeyOf(sid2, e)'] = entry BY <2>4, <2>5, <2>7
  <2>11. BlockEntryOk(sid2, e, fn2.values[KeyOf(sid2, e)])' BY <2>9, <2>10
  <2>12. \A d \in New : d # e => source'[d].what \notin {"object", "enumerator"} OBVIOUS
  <2>13. DOMAIN fn2.values = DOMAIN fn.values \cup {KeyOf(sid2, e)'} BY <2>4, <2>5, <2>6
  <2> QED BY <1>3, <2>2, <2>8, <2>11, <2>12, <2>13, ValuesOne
<1>11. \A d \in New : source'[d].what # "parameter" BY <1>3
<1>12. fn2 = [values |-> fn2.values, arguments |-> OpenFunction(table).arguments,
              blockIds |-> fn2.blockIds, function |-> OpenFunction(table).function]
  BY DEF FunctionRecord
<1> QED BY <1>7, <1>8, <1>9, <1>10, <1>11, <1>12, BooksInside

-----------------------------------------------------------------------------
(* A loop with a variable.                                                 *)

LoopVariable(n, p) ==
    [what |-> "object", name |-> n, storage |-> "", type |-> "int", init |-> <<None>>, path |-> p]

LEMMA LoopVariableIs ==
    ASSUME NEW n \in Names, NEW p
    PROVE  LET v == LoopVariable(n, p)
           IN  /\ v.what = "object" /\ v.name = n /\ v.type = "int" /\ v.init = <<None>> /\ v.path = p
               /\ v.storage # "extern" /\ ObjectItem(v) /\ TypeFor(v) # "int[]"
<1>0. PICK v : v = LoopVariable(n, p) OBVIOUS
<1>1. v.what = "object" /\ v.name = n /\ v.storage = "" /\ v.type = "int" /\ v.init = <<None>> /\ v.path = p
  BY Zenon, <1>0 DEF LoopVariable
<1>2. v.storage \in StorageSpecifiers /\ v.storage # "extern" BY Zenon, <1>1 DEF StorageSpecifiers
<1> HIDE DEF LoopVariable
<1>3. v.what = "object" /\ v.name = n /\ v.type = "int" /\ v.init = <<None>> /\ v.path = p
  BY Zenon, <1>1
<1>4. ObjectItem(v) BY <1>2, <1>3 DEF ObjectItem, ObjectTypes, Initializers
<1>5. TypeFor(v) # "int[]" BY <1>3 DEF TypeFor
<1> QED BY <1>0, <1>2, <1>3, <1>4, <1>5

LEMMA LoopOpened ==
    ASSUME NEW kind, NEW n, NEW declared, declared = <<n>>, Loop(kind, declared)
    PROVE  \E it, note, v, done, t, h :
               /\ h = Here /\ v = LoopVariable(n, path') /\ t = EnterBlockScope(table)
               /\ done = AnalyzeObject(t, v, h + 1) /\ it.what = "loop" /\ it.path = path
               /\ Write(<<it>> \o <<v>>, <<note>> \o <<done.note>>)
               /\ path' = Append(path, h) /\ path # <<>> /\ table' = done.table /\ frames' = frames
               /\ ~hasErrors' => ~done.refused
               /\ hasErrors' => done.refused
<1>1. declared # None /\ declared[1] = n BY DEF None
<1>2. PICK v : v = [what |-> "object", name |-> declared[1], storage |-> "", type |-> "int",
                    init |-> <<None>>, path |-> Append(path, Here)]
  OBVIOUS
<1>3. PICK t : t = EnterBlockScope(table) OBVIOUS
<1>4. PICK done : done = AnalyzeObject(t, v, Here + 1) OBVIOUS
<1>5. PICK item : item = [what |-> "loop", kind |-> kind] OBVIOUS
<1>6. PICK it : it = Written(item) OBVIOUS
<1>7. it.what = "loop" /\ it.path = path BY <1>5, <1>6, WrittenIs
<1>8. /\ path' = Append(path, Here) /\ path # <<>> /\ frames' = frames BY DEF Loop
<1>9. PICK note :
          /\ Write(<<it>> \o (IF declared = None THEN <<>> ELSE <<v>>),
                   <<note>> \o (IF declared = None THEN <<>> ELSE <<done.note>>))
          /\ table' = IF declared = None THEN table ELSE done.table
          /\ hasErrors' = (declared # None /\ done.refused)
  BY <1>1, <1>3, <1>4, <1>2, <1>5, <1>6 DEF Loop
<1>11. (IF declared = None THEN <<>> ELSE <<v>>) = <<v>> BY Zenon, <1>1
<1>12. (IF declared = None THEN <<>> ELSE <<done.note>>) = <<done.note>> BY Zenon, <1>1
<1>13. (IF declared = None THEN table ELSE done.table) = done.table BY Zenon, <1>1
<1>14. Write(<<it>> \o <<v>>, <<note>> \o <<done.note>>) BY Zenon, <1>9, <1>11, <1>12
<1>15. table' = done.table BY Zenon, <1>9, <1>13
<1>16. (~hasErrors' => ~done.refused) /\ (hasErrors' => done.refused) BY Zenon, <1>1, <1>9
<1>10. v = LoopVariable(n, path') BY Zenon, <1>1, <1>2, <1>8 DEF LoopVariable
<1> QED BY Zenon, <1>3, <1>4, <1>7, <1>8, <1>14, <1>15, <1>16, <1>10

(* Two items are added.                                                    *)
LEMMA AddedTwo ==
    ASSUME Good, NEW it, NEW note, NEW v, NEW vn, Write(<<it>> \o <<v>>, <<note>> \o <<vn>>),
           NEW h, h = Here
    PROVE  /\ Grows /\ \A d \in DOMAIN source : store'[d] = store[d]
           /\ New = {h, h + 1} /\ h \in Nat /\ h \notin DOMAIN source
           /\ source'[h] = it /\ source'[h + 1] = v /\ store'[h + 1] = vn
<1>1. PICK items, notes : items = <<it>> \o <<v>> /\ notes = <<note>> \o <<vn>> OBVIOUS
<1>2. Sequence(<<v>>) /\ Len(<<v>>) = 1 /\ <<v>>[1] = v /\ Sequence(<<vn>>) /\ Len(<<vn>>) = 1 /\ <<vn>>[1] = vn
  BY Single
<1>3. Sequence(items) /\ Len(items) = 2 /\ items[1] = it /\ items[2] = v
  BY <1>2, HeadAndTail, <1>1
<1>4. Sequence(notes) /\ Len(notes) = 2 /\ notes[1] = note /\ notes[2] = vn
  BY <1>2, HeadAndTail, <1>1
<1>5. Adds(items, notes) BY <1>1, <1>3, <1>4 DEF Adds, Write
<1>6. /\ Grows /\ Len(source) \in Nat /\ Len(items) \in Nat
      /\ \A d \in DOMAIN source : store'[d] = store[d]
      /\ \A e \in DOMAIN source' \ DOMAIN source : \E i \in 1 .. Len(items) : e = Len(source) + i
      /\ \A i \in 1 .. Len(items) : /\ Len(source) + i \in DOMAIN source' \ DOMAIN source
                                    /\ source'[Len(source) + i] = items[i]
                                    /\ store'[Len(source) + i] = notes[i]
  BY <1>5, Added
<1>7. h = Len(source) + 1 /\ h + 1 = Len(source) + 2 /\ h \in Nat BY <1>6 DEF Here
<1>8. 1 \in 1 .. Len(items) /\ 2 \in 1 .. Len(items) BY <1>3
<1>9. /\ h \in DOMAIN source' \ DOMAIN source /\ source'[h] = items[1]
      /\ h + 1 \in DOMAIN source' \ DOMAIN source /\ source'[h + 1] = items[2]
      /\ store'[h + 1] = notes[2]
  BY <1>6, <1>7, <1>8
<1>10. \A e \in DOMAIN source' \ DOMAIN source : e = h \/ e = h + 1
  BY <1>3, <1>6, <1>7
<1> QED BY <1>3, <1>4, <1>6, <1>7, <1>9, <1>10 DEF New

LEMMA DeclaredLoopBooks ==
    ASSUME Good, Good', NEW sid, Books(sid), NEW kind, NEW n \in Names, NEW declared, declared = <<n>>,
           Loop(kind, declared), ~hasErrors'
    PROVE  \E sid2 : Books(sid2)'
<1>1. PICK it, note, v, done, t, h :
          /\ h = Here /\ v = LoopVariable(n, path') /\ t = EnterBlockScope(table)
          /\ done = AnalyzeObject(t, v, h + 1) /\ it.what = "loop" /\ it.path = path
          /\ Write(<<it>> \o <<v>>, <<note>> \o <<done.note>>)
          /\ path' = Append(path, h) /\ path # <<>> /\ table' = done.table /\ frames' = frames
          /\ ~hasErrors' => ~done.refused
  BY ZenonT(30), LoopOpened
<1>2. PICK k : k = h + 1 OBVIOUS
<1>3. /\ Grows /\ \A d \in DOMAIN source : store'[d] = store[d]
      /\ New = {h, k} /\ h \in Nat /\ h \notin DOMAIN source
      /\ source'[h] = it /\ source'[k] = v /\ store'[k] = done.note
  BY <1>1, <1>2, AddedTwo
<1>4. /\ v.what = "object" /\ v.name = n /\ v.path = path'
      /\ v.storage # "extern" /\ ObjectItem(v) /\ TypeFor(v) # "int[]"
  <2>1. PICK p : p = path' OBVIOUS
  <2>2. v = LoopVariable(n, p) BY <1>1, <2>1
  <2>3. /\ v.what = "object" /\ v.name = n /\ v.path = p
        /\ v.storage # "extern" /\ ObjectItem(v) /\ TypeFor(v) # "int[]"
    BY <2>2, LoopVariableIs
  <2> QED BY <2>1, <2>3
<1>5. PICK fn : fn = OpenFunction(table) OBVIOUS
<1>6. table.function = <<fn>> /\ FunctionRecord(fn) /\ IdsOk(sid, fn.blockIds)
  BY <1>1, <1>5, OpenFunctionIs DEF FunctionRecord
<1>7. TableRecord(table) /\ table.nextScopeId \in Nat BY DEF Books, TableOk, TableRecord
<1>8. PICK id : id = table.nextScopeId + 1 OBVIOUS
<1>9. id \in Nat BY <1>7, <1>8
<1>10. PICK ids : ids = Append(fn.blockIds, id) OBVIOUS
<1>11. ids \in Seq(Nat) /\ ids # <<>> /\ Last(ids) = id BY <1>6, <1>9, <1>10 DEF IdsOk, Last
<1>12. PICK fn1 : fn1 = [values |-> fn.values, arguments |-> fn.arguments, blockIds |-> ids,
                         function |-> fn.function]
  OBVIOUS
<1>13. t = [global |-> table.global, function |-> <<fn1>>,
            functionScopeDataHomes |-> table.functionScopeDataHomes, nextScopeId |-> id]
  BY <1>1, <1>6, <1>7, <1>8, <1>10, <1>12, BlockEntered
<1>14. /\ TableRecord(t) /\ t.function = <<fn1>> /\ t.global = table.global /\ t.nextScopeId = id
       /\ t.functionScopeDataHomes = table.functionScopeDataHomes
  BY <1>13 DEF TableRecord
<1>15. FunctionRecord(fn1) /\ fn1.blockIds = ids /\ fn1.values = fn.values
       /\ fn1.arguments = fn.arguments /\ fn1.function = fn.function
  BY <1>12 DEF FunctionRecord
<1>16. PICK key : key = <<id, v.name>> OBVIOUS
<1>17. /\ key \notin DOMAIN fn1.values /\ done.table = TableFor(t, fn1, key, EntryFor(v, k, id))
       /\ done.note.holder = EntryFor(v, k, id).object
  <2>1. /\ fn1.blockIds \in Seq(Nat) /\ fn1.blockIds # <<>> /\ id = Last(fn1.blockIds)
        /\ done = AnalyzeObject(t, v, k) /\ ~done.refused
    BY <1>1, <1>2, <1>11, <1>15
  <2> QED BY <1>4, <1>14, <1>15, <1>16, <2>1, BoundInBlock
<1>18. PICK e : e = EntryFor(v, k, id) OBVIOUS
<1>19. PICK fn2 : /\ table'.function = <<fn2>> /\ FunctionRecord(fn2)
                  /\ fn2.values = With(fn1.values, key, e) /\ fn2.arguments = fn1.arguments
                  /\ fn2.blockIds = fn1.blockIds /\ fn2.function = fn1.function
  <2>1. \E f : /\ TableFor(t, fn1, key, e).function = <<f>> /\ FunctionRecord(f)
                /\ f.values = With(fn1.values, key, e) /\ f.arguments = fn1.arguments
                /\ f.blockIds = fn1.blockIds /\ f.function = fn1.function
    BY ONLY TableForIs
  <2>2. table' = TableFor(t, fn1, key, e) BY <1>1, <1>17, <1>18
  <2> QED BY <2>1, <2>2
<1>20. /\ TableRecord(table') /\ table'.global = table.global /\ table'.nextScopeId = id
       /\ table'.functionScopeDataHomes = table.functionScopeDataHomes
  <2>1. /\ TableRecord(TableFor(t, fn1, key, e)) /\ TableFor(t, fn1, key, e).global = t.global
        /\ TableFor(t, fn1, key, e).nextScopeId = t.nextScopeId
        /\ TableFor(t, fn1, key, e).functionScopeDataHomes = t.functionScopeDataHomes
    BY ONLY TableForIs
  <2>2. table' = TableFor(t, fn1, key, e) BY <1>1, <1>17, <1>18
  <2> QED BY <1>14, <2>1, <2>2
<1>21. PICK sid2 : Continues(sid, sid2) BY DEF Continues
<1>22. InPlace BY <1>1, <1>3, <1>4 DEF InPlace
<1>23. path \in Seq(Nat) /\ path' # <<>> /\ Last(path') = h
  <2>1. path \in Seq(Nat) BY DEF Good, PathOk
  <2>2. PICK p : p = path OBVIOUS
  <2>3. Append(p, h) \in Seq(Nat) /\ Len(Append(p, h)) = Len(p) + 1 /\ Len(p) \in Nat
        /\ Append(p, h)[Len(p) + 1] = h
    BY <1>3, <2>1, <2>2
  <2>4. path' = Append(p, h) BY <1>1, <2>2
  <2> QED BY <2>1, <2>3, <2>4 DEF Last
<1>24. Scope(k)' = h /\ source'[k].path # <<>> BY <1>3, <1>4, <1>23 DEF Scope
<1>25. Adding(sid, sid2)
  <2>1. \A d \in New, c \in DOMAIN source :
            source'[d].what = "object" /\ Scope(d)' = c => Tag(c) # "loop"
    BY <1>1, <1>3, <1>24
  <2>2. table'.nextScopeId \in Nat /\ table.nextScopeId <= table'.nextScopeId BY <1>7, <1>8, <1>9, <1>20
  <2> QED BY <1>3, <1>21, <1>22, <2>1, <2>2 DEF Adding
<1>26. Opens(h)' /\ ~Opens(k)' BY <1>1, <1>3, <1>4, <1>24 DEF Tag, New, Opens
<1>27. ScopesOk(sid2)' BY <1>1, <1>3, <1>8, <1>20, <1>26, <1>25, AddScopes
<1>28. sid2[Scope(k)'] = id BY <1>3, <1>20, <1>24, <1>25, AddedFacts
<1>29. IdsOk(sid2, fn2.blockIds)'
  <2>1. PICK s : s = fn.blockIds OBVIOUS
  <2>2. IdsOk(sid2, Append(s, id))' BY <1>1, <1>3, <1>6, <1>8, <1>20, <1>25, <1>26, <2>1, IdsPushed
  <2>3. fn2.blockIds = Append(s, id) BY <1>10, <1>15, <1>19, <2>1
  <2> QED BY <2>2, <2>3
<1>30. SameObject(k, v)' BY <1>3, <1>4 DEF SameObject, Tag
<1>31. \A d \in DOMAIN source :
           IsDecl(d) /\ source[d].name = v.name /\ Scope(d) = Scope(k)' => Tag(d) = "prototype"
  BY <1>25, AddedFacts, <1>1, JumpsType, <1>3, <1>24 DEF Here
<1>32. \A d \in New : d # k => source'[d].what = "loop" /\ source'[d].path # <<>> BY <1>1, <1>3
<1>33. /\ Scope(k)' # 0 /\ Opens(Scope(k))' /\ k \in New
  BY <1>1, JumpsType, <1>3, <1>24, <1>26 DEF Here, Opens, Tag
<1>34. /\ fn2.values = With(OpenFunction(table).values, <<id, v.name>>, EntryFor(v, k, id))
       /\ <<id, v.name>> \notin DOMAIN OpenFunction(table).values
       /\ fn2.arguments = OpenFunction(table).arguments /\ fn2.function = OpenFunction(table).function
  BY <1>5, <1>15, <1>16, <1>17, <1>18, <1>19
<1>35. store'[k].holder = EntryFor(v, k, id).object BY <1>3, <1>17
<1>36. Books(sid2)'
  BY <1>1, <1>4, <1>9, <1>19, <1>20, <1>25, <1>27, <1>28, <1>29, <1>30, <1>31, <1>32, <1>33, <1>34, <1>35,
     ObjectAdded
<1> QED BY <1>36

-----------------------------------------------------------------------------
(* The declaration of an object.                                           *)

LEMMA OfferedObject ==
    ASSUME Good, NEW item \in Offered.objects
    PROVE  /\ ObjectItem(item) /\ item.what = "object"
           /\ DOMAIN item = {"what", "name", "storage", "type", "init"}
BY MenusAssumption DEF Good, TypesOk, Offered, Objects, ObjectItem

LEMMA ObjectWritten ==
    ASSUME NEW item, DOMAIN item = {"what", "name", "storage", "type", "init"}
    PROVE  /\ Written(item).what = item.what /\ Written(item).name = item.name
           /\ Written(item).storage = item.storage /\ Written(item).type = item.type
           /\ Written(item).init = item.init /\ Written(item).path = path
BY DEF Written

LEMMA DeclarationFacts ==
    ASSUME Good, NEW item \in Offered.objects, NEW h, h = Here, Declaration(item), ~hasErrors'
    PROVE  /\ Grows /\ New = {h} /\ \A d \in DOMAIN source : store'[d] = store[d]
           /\ h \in Nat /\ h # 0 /\ h \notin DOMAIN source
           /\ SameObject(h, item)' /\ source'[h].path = path
           /\ ObjectItem(item)
           /\ ~AnalyzeObject(table, item, h).refused
           /\ table' = AnalyzeObject(table, item, h).table
           /\ store'[h] = AnalyzeObject(table, item, h).note
           /\ path' = path /\ frames' = frames
           /\ path = <<>> \/ Open({"definition", "block"})
           /\ ~BesideEnumerator(item.name)
<1>1. PICK done : done = AnalyzeObject(table, item, Here) OBVIOUS
<1>2. /\ Write(<<Written(item)>>, <<done.note>>) /\ table' = done.table /\ hasErrors' = done.refused
      /\ path' = path /\ frames' = frames /\ DeclarationAllowed /\ ~BesideEnumerator(item.name)
  BY <1>1 DEF Declaration
<1>3. PICK it : it = Written(item) OBVIOUS
<1>4. source' = source \o <<it>> /\ store' = store \o <<done.note>> BY <1>2, <1>3 DEF Write
<1>5. /\ Grows /\ DOMAIN source' \ DOMAIN source = {h}
      /\ \A d \in DOMAIN source : store'[d] = store[d]
      /\ source'[h] = it /\ store'[h] = done.note
  BY <1>4, AddedOne
<1>6. ObjectItem(item) /\ item.what = "object" /\ DOMAIN item = {"what", "name", "storage", "type", "init"}
  BY OfferedObject
<1>7. SameObject(h, item)' /\ source'[h].path = path
  BY <1>3, <1>5, <1>6, ObjectWritten DEF SameObject, Tag
<1>8. h \in Nat /\ h # 0 /\ h \notin DOMAIN source BY JumpsType DEF Here
<1>9. path = <<>> \/ Open({"definition", "block"}) BY <1>2 DEF DeclarationAllowed
<1>10. ~done.refused BY <1>2
<1> QED BY <1>1, <1>2, <1>5, <1>6, <1>7, <1>8, <1>9, <1>10 DEF New

(* What every declaration in a function has in common: nothing else is     *)
(* added, and no scope is opened.                                          *)
LEMMA InsideAdding ==
    ASSUME Good, Good', NEW sid, Books(sid), Grows, NEW h, h = Here, New = {h},
           \A d \in DOMAIN source : store'[d] = store[d],
           path # <<>>, path' = path, source'[h].path = path, Open({"definition", "block"}),
           source'[h].what \in {"object", "prototype", "enumerator"},
           table'.nextScopeId = table.nextScopeId, NEW sid2, Continues(sid, sid2)
    PROVE  /\ Adding(sid, sid2) /\ Scope(h)' = Last(path) /\ ~Opens(h)' /\ ScopesOk(sid2)'
           /\ Scope(h)' # 0 /\ Opens(Scope(h))' /\ sid2[Scope(h)'] = CurrentScopeId(table)
           /\ CurrentScopeId(table) \in Nat /\ Opens(Last(path)) /\ Last(path) \in DOMAIN source
           /\ sid[Last(path)] = CurrentScopeId(table) /\ Last(path) \in ToSet(path)
           /\ \A ids : IdsOk(sid, ids) => IdsOk(sid2, ids)'
<1>1. Scope(h)' = Last(path) BY DEF Scope
<1>2. InPlace BY DEF InPlace
<1>3. table.nextScopeId \in Nat BY DEF Books, TableOk
<1>4. Tag(Last(path)) \in {"definition", "block"} BY DEF Open
<1>5. Opens(Last(path)) BY <1>4 DEF Opens
<1>6. Adding(sid, sid2) BY <1>1, <1>4, <1>2, <1>3 DEF Adding
<1>7. ~Opens(h)' BY DEF Opens, Tag
<1>8. ScopesOk(sid2)' BY <1>6, <1>7, AddScopes
<1>9. PICK ids : ids = OpenFunction(table).blockIds OBVIOUS
<1>10. /\ ids \in Seq(Nat) /\ Last(path) \in DOMAIN source /\ Last(path) \in ToSet(path)
       /\ CurrentScopeId(table) = Last(ids) /\ CurrentScopeId(table) = sid[Last(path)]
  BY <1>5, <1>9, CurrentScope
<1>11. sid2[Last(path)] = sid[Last(path)] /\ sid[Last(path)] \in Nat /\ Last(path) # 0
  BY Facts, <1>10, JumpsType, <1>6, AddedFacts
<1>12. Opens(Last(path))' BY <1>5, <1>6, <1>10, OpensKept DEF Opens, Tag
<1>13. Opens(Scope(h))' BY <1>1, <1>12 DEF Opens, Tag
<1>14. \A i : IdsOk(sid, i) => IdsOk(sid2, i)' BY <1>6, IdsSame
<1> QED BY <1>1, <1>5, <1>6, <1>7, <1>8, <1>10, <1>11, <1>13, <1>14

(* The parameters stand in the scope of the function.                      *)
LEMMA ParameterBeside ==
    ASSUME Good, NEW sid, Books(sid), path # <<>>, NEW d \in DOMAIN source, Tag(d) = "parameter",
           Scope(d) = Last(path), Opens(Last(path))
    PROVE  /\ CurrentScopeId(table) = OpenFunction(table).blockIds[1]
           /\ FindArgument(OpenFunction(table), source[d].name) # None
<1>1. TreeOk /\ Len(source[d].path) = 1 BY Facts DEF DeclOk
<1>2. /\ path \in Seq(Nat) /\ Len(path) \in Nat /\ DOMAIN path = 1 .. Len(path) /\ Len(path) >= 1
      /\ Last(path) = path[Len(path)] BY <1>1, Places DEF Last
<1>3. PICK k : k = Len(path) OBVIOUS
<1>4. k \in DOMAIN path /\ Scope(d) = path[k] BY <1>2, <1>3
<1>5. source[d].path = SubSeq(path, 1, k) BY <1>1, <1>4, PathOfScope
<1>6. Len(SubSeq(path, 1, k)) = k BY <1>2, <1>3, Prefix
<1>7. k = 1 BY <1>1, <1>5, <1>6
<1>8. Last(path) = path[1] BY <1>2, <1>3, <1>7
<1>9. PICK ids : ids = OpenFunction(table).blockIds OBVIOUS
<1>10. ids[1] = sid[path[1]] /\ CurrentScopeId(table) = sid[Last(path)] BY <1>9, CurrentScope
<1>11. InOpenFunction(d) BY <1>9, CurrentScope, <1>1, InsideOpen
<1>12. d \in ParametersOf(source[d].name)
  BY <1>11 DEF ParametersOf, Declarations, Declares
<1>13. \A x : <<x>> # None BY DEF None
<1> QED BY <1>8, <1>9, <1>10, <1>12, <1>13, FoundInArguments

(* What already stands in the scope that is open.                          *)
LEMMA BesideIs ==
    ASSUME Good, NEW sid, Books(sid), path # <<>>, Opens(Last(path)), NEW n,
           NEW d \in DOMAIN source, IsDecl(d), source[d].name = n, Scope(d) = Last(path)
    PROVE  /\ Tag(d) \in {"object", "enumerator"} =>
                  /\ InValues(d) /\ KeyOf(sid, d) = <<CurrentScopeId(table), n>>
                  /\ KeyOf(sid, d) \in DOMAIN OpenFunction(table).values
                  /\ BlockEntryOk(sid, d, OpenFunction(table).values[KeyOf(sid, d)])
           /\ Tag(d) = "parameter" =>
                  /\ CurrentScopeId(table) = OpenFunction(table).blockIds[1]
                  /\ FindArgument(OpenFunction(table), n) # None
           /\ Tag(d) # "definition"
<1>1. PICK ids : ids = OpenFunction(table).blockIds OBVIOUS
<1>2. /\ Last(path) \in DOMAIN source /\ Last(path) \in ToSet(path)
      /\ CurrentScopeId(table) = sid[Last(path)]
  BY <1>1, CurrentScope
<1>3. ASSUME Tag(d) \in {"object", "enumerator"}
      PROVE  /\ InValues(d) /\ KeyOf(sid, d) = <<CurrentScopeId(table), n>>
             /\ KeyOf(sid, d) \in DOMAIN OpenFunction(table).values
             /\ BlockEntryOk(sid, d, OpenFunction(table).values[KeyOf(sid, d)])
  BY <1>2, Facts, InsideOpen, <1>3, OpenFunctionIs DEF InValues, ValuesOk, KeyOf
<1>4. ASSUME Tag(d) = "definition" PROVE FALSE
  BY <1>4, Facts, <1>2, JumpsType DEF DeclOk, Scope
<1> QED BY <1>3, <1>4, ParameterBeside

LEMMA LocalDeclared ==
    ASSUME Good, Good', NEW sid, Books(sid), NEW item \in Offered.objects, Declaration(item), ~hasErrors',
           path # <<>>, item.storage # "extern"
    PROVE  /\ \E sid2 : Books(sid2)'
           /\ VisitedIn(table, item, store'[Here], table')
<1>1. PICK h : h = Here OBVIOUS
<1>2. PICK done : done = AnalyzeObject(table, item, h) OBVIOUS
<1>3. /\ Grows /\ New = {h} /\ \A d \in DOMAIN source : store'[d] = store[d]
      /\ h \in Nat /\ h # 0 /\ h \notin DOMAIN source
      /\ SameObject(h, item)' /\ source'[h].path = path
      /\ ObjectItem(item) /\ ~done.refused /\ table' = done.table /\ store'[h] = done.note
      /\ path' = path /\ frames' = frames /\ Open({"definition", "block"})
  BY <1>1, <1>2, DeclarationFacts
<1>4. PICK fn : fn = OpenFunction(table) OBVIOUS
<1>5. table.function = <<fn>> /\ FunctionRecord(fn) /\ IdsOk(sid, fn.blockIds)
  BY <1>4, OpenFunctionIs DEF FunctionRecord
<1>6. TableRecord(table) /\ table.nextScopeId \in Nat BY DEF Books, TableOk, TableRecord
<1>7. PICK id : id = CurrentScopeId(table) OBVIOUS
<1>8. fn.blockIds \in Seq(Nat) /\ fn.blockIds # <<>> /\ id = Last(fn.blockIds)
  BY <1>4, <1>7, CurrentScope
<1>9. PICK key : key = <<id, item.name>> OBVIOUS
<1>10. PICK e : e = EntryFor(item, h, id) OBVIOUS
<1>11. /\ key \notin DOMAIN fn.values /\ TypeFor(item) # "int[]"
       /\ ~(id = fn.blockIds[1] /\ FindArgument(fn, item.name) # None)
       /\ done.table = TableFor(table, fn, key, e)
       /\ done.note.holder = EntryFor(item, h, id).object
       /\ VisitedIn(table, item, done.note, done.table)
  <2>1. PICK t : t = table OBVIOUS
  <2>2. /\ TableRecord(t) /\ t.function = <<fn>> /\ FunctionRecord(fn) /\ fn.blockIds \in Seq(Nat)
        /\ fn.blockIds # <<>> /\ item.storage # "extern" /\ id = Last(fn.blockIds)
        /\ key = <<id, item.name>> /\ done = AnalyzeObject(t, item, h) /\ ~done.refused
    BY <1>2, <1>3, <1>5, <1>6, <1>8, <1>9, <2>1
  <2>3. /\ key \notin DOMAIN fn.values /\ TypeFor(item) # "int[]"
        /\ ~(id = fn.blockIds[1] /\ FindArgument(fn, item.name) # None)
        /\ done.table = TableFor(t, fn, key, EntryFor(item, h, id))
        /\ done.note.holder = EntryFor(item, h, id).object
        /\ VisitedIn(t, item, done.note, done.table)
    BY ONLY <2>2, BoundInBlock
  <2> QED BY <1>10, <2>1, <2>3
<1>12. table' = TableFor(table, fn, key, e) BY <1>3, <1>11
<1>13. PICK fn2 : /\ table'.function = <<fn2>> /\ FunctionRecord(fn2)
                  /\ fn2.values = With(fn.values, key, e) /\ fn2.arguments = fn.arguments
                  /\ fn2.blockIds = fn.blockIds /\ fn2.function = fn.function
  BY TableForIs, <1>12
<1>14. /\ TableRecord(table') /\ table'.global = table.global /\ table'.nextScopeId = table.nextScopeId
       /\ table'.functionScopeDataHomes = table.functionScopeDataHomes BY TableForIs, <1>12
<1>15. PICK sid2 : Continues(sid, sid2) BY DEF Continues
<1>16. source'[h].what = "object" BY <1>3 DEF SameObject, Tag
<1>17. /\ Adding(sid, sid2) /\ Scope(h)' = Last(path) /\ ScopesOk(sid2)'
       /\ Scope(h)' # 0 /\ Opens(Scope(h))' /\ sid2[Scope(h)'] = id
       /\ id \in Nat /\ Opens(Last(path)) /\ Last(path) \in DOMAIN source
       /\ IdsOk(sid2, fn.blockIds)'
  BY <1>1, <1>3, <1>5, <1>7, <1>14, <1>15, <1>16, InsideAdding
<1>18. \A d \in DOMAIN source :
           IsDecl(d) /\ source[d].name = item.name /\ Scope(d) = Scope(h)' => Tag(d) = "prototype"
  BY <1>17, <1>4, <1>7, BesideIs, <1>9, <1>11 DEF IsDecl
<1>19. \A d \in New : d = h BY <1>3
<1>20. /\ fn2.values = With(OpenFunction(table).values, <<id, item.name>>, EntryFor(item, h, id))
       /\ <<id, item.name>> \notin DOMAIN OpenFunction(table).values
       /\ fn2.arguments = OpenFunction(table).arguments /\ fn2.function = OpenFunction(table).function
       /\ IdsOk(sid2, fn2.blockIds)' BY <1>17, <1>13, <1>4, <1>9, <1>10, <1>11
<1>21. store'[h].holder = EntryFor(item, h, id).object BY <1>3, <1>11
<1>22. h \in New BY <1>3
<1>23. Books(sid2)'
  BY <1>3, <1>11, <1>13, <1>14, <1>17, <1>18, <1>19, <1>20, <1>21, <1>22, ObjectAdded
<1>24. VisitedIn(table, item, store'[Here], table') BY <1>1, <1>3, <1>11
<1> QED BY <1>23, <1>24

-----------------------------------------------------------------------------
(* "extern" in a block.                                                    *)

(* What it finds in the file, or puts there: the table of the file it      *)
(* leaves and the type that is seen.                                       *)
ExternInFile(t, n, type, global, seen) ==
    \/ /\ FileScope(t, n) = None /\ seen = type
       /\ global = With(t.global, <<0, n>>, Entry(FileName(n), type, "extern"))
    \/ \E e : /\ FileScope(t, n) = <<e>> /\ ~IsFunction(e) /\ Composite(e.type, type) = <<seen>>
              /\ global = t.global

ExternInBlock(fn, key, n, seen, values) ==
    \/ key \notin DOMAIN fn.values /\ values = With(fn.values, key, Entry(FileName(n), seen, "extern"))
    \/ /\ key \in DOMAIN fn.values /\ fn.values[key].storage = "extern"
       /\ Compatible(fn.values[key].type, seen) /\ values = fn.values

TableOf(t, fn, global, values) ==
    [global |-> global,
     function |-> <<[values |-> values, arguments |-> fn.arguments,
                     blockIds |-> fn.blockIds, function |-> fn.function]>>,
     functionScopeDataHomes |-> t.functionScopeDataHomes, nextScopeId |-> t.nextScopeId]

(* Why it is refused.                                                      *)
ExternSeen(t, n, type, seen) ==
    \/ FileScope(t, n) = None /\ seen = type
    \/ \E e : FileScope(t, n) = <<e>> /\ ~IsFunction(e) /\ Composite(e.type, type) = <<seen>>

ExternClash(t, fn, key, n, type) ==
    \/ \E e : FileScope(t, n) = <<e>> /\ (IsFunction(e) \/ ~Compatible(e.type, type))
    \/ /\ key \in DOMAIN fn.values
       /\ \E seen : /\ ExternSeen(t, n, type, seen)
                    /\ ~(fn.values[key].storage = "extern" /\ Compatible(fn.values[key].type, seen))

LEMMA CompositeIs ==
    ASSUME NEW a, NEW b, Composite(a, b) # None
    PROVE  \E c : Composite(a, b) = <<c>>
BY DEF Composite

LEMMA ExternBound ==
    ASSUME NEW t, NEW fn, TableRecord(t), t.function = <<fn>>, FunctionRecord(fn),
           NEW n, NEW type, NEW id, id = CurrentScopeId(t), NEW key, key = <<id, n>>
    PROVE  \/ BindBlockScopeExtern(t, n, type) = {} /\ ExternClash(t, fn, key, n, type)
           \/ \E global, seen, values :
                  /\ ExternInFile(t, n, type, global, seen)
                  /\ ExternInBlock(fn, key, n, seen, values)
                  /\ BindBlockScopeExtern(t, n, type) = {TableOf(t, fn, global, values)}
<1> DEFINE existing == FileScope(t, n)
           visible == IF existing = None THEN <<type>>
                      ELSE IF IsFunction(existing[1]) THEN None
                      ELSE Composite(existing[1].type, type)
           known == IF existing # None THEN t
                    ELSE [t EXCEPT !.global = With(@, <<0, n>>, Entry(FileName(n), type, "extern"))]
           declared == At(OpenFunction(t).values, key)
<1>1. OpenFunction(t) = fn /\ t.function[1] = fn BY DEF OpenFunction
<1>2. BindBlockScopeExtern(t, n, type) =
          IF visible = None THEN {}
          ELSE IF declared = None THEN WithLocal(known, key, Entry(FileName(n), visible[1], "extern"))
          ELSE IF declared[1].storage = "extern" /\ Compatible(declared[1].type, visible[1])
          THEN {known} ELSE {}
  BY Zenon DEF BindBlockScopeExtern
<1>3. existing = None \/ \E e : existing = <<e>> BY DEF FileScope, At
<1>4. \A e : <<e>> # None /\ <<e>>[1] = e BY DEF None
<1>5. PICK global0 : global0 = With(t.global, <<0, n>>, Entry(FileName(n), type, "extern")) OBVIOUS
<1>6. existing = None => visible = <<type>> /\ known = WithGlobal(t, global0)
  BY <1>5 DEF WithGlobal
<1>7. \A e : existing = <<e>> =>
          /\ visible = (IF IsFunction(e) THEN None ELSE Composite(e.type, type)) /\ known = t
  BY <1>4
<1>8. declared = IF key \in DOMAIN fn.values THEN <<fn.values[key]>> ELSE None BY <1>1 DEF At
<1> HIDE DEF existing, visible, known, declared
<1>9. ASSUME visible # None
      PROVE  \E global, seen : /\ ExternInFile(t, n, type, global, seen) /\ visible = <<seen>>
                               /\ known = TableOf(t, fn, global, fn.values)
                               /\ known = WithGlobal(t, global)
  BY TableChanged, <1>5, <1>6, <1>7, <1>9, CompositeIs, <1>3 DEF FunctionRecord, TableOf,
     ExternInFile, existing, TableRecord
<1>10. CASE visible = None
  BY <1>4, <1>6, <1>10, <1>3, <1>7, <1>2 DEF Compatible, ExternClash, existing
<1>11. CASE visible # None
  <2>1. PICK global, seen : /\ ExternInFile(t, n, type, global, seen) /\ visible = <<seen>>
                            /\ known = TableOf(t, fn, global, fn.values)
                            /\ known = WithGlobal(t, global)
    BY <1>9, <1>11
  <2>2. visible[1] = seen BY <2>1
  <2>3. PICK e : e = Entry(FileName(n), seen, "extern") OBVIOUS
  <2>4. CASE key \notin DOMAIN fn.values
    <3>1. BindBlockScopeExtern(t, n, type) = WithLocal(known, key, e)
      BY <1>2, <1>8, <1>11, <2>2, <2>3, <2>4
    <3>2. PICK u : u = known OBVIOUS
    <3>3. u = [global |-> global, function |-> t.function,
               functionScopeDataHomes |-> t.functionScopeDataHomes, nextScopeId |-> t.nextScopeId]
      BY <2>1, <3>2, TableChanged
    <3>4. TableRecord(u) /\ u.function = <<fn>> /\ u.global = global /\ u.nextScopeId = t.nextScopeId
          /\ u.functionScopeDataHomes = t.functionScopeDataHomes
      BY <3>3 DEF TableRecord
    <3>5. WithLocal(u, key, e) = {TableFor(u, fn, key, e)} BY <2>4, <3>4, Inserted
    <3>6. PICK values : values = With(fn.values, key, e) OBVIOUS
    <3>7. TableFor(u, fn, key, e) = TableOf(t, fn, global, values)
      BY <3>4, <3>6 DEF TableFor, TableOf
    <3>8. ExternInBlock(fn, key, n, seen, values) BY <2>3, <2>4, <3>6 DEF ExternInBlock
    <3> QED BY <2>1, <3>1, <3>2, <3>5, <3>7, <3>8
  <2>5. CASE key \in DOMAIN fn.values
    <3>1. declared = <<fn.values[key]>> /\ declared # None /\ declared[1] = fn.values[key]
      BY <1>4, <1>8, <2>5
    <3>2. CASE fn.values[key].storage = "extern" /\ Compatible(fn.values[key].type, seen)
      BY <1>2, <1>11, <2>2, <3>1, <3>2, <2>5, <2>1 DEF ExternInBlock
    <3>3. CASE ~(fn.values[key].storage = "extern" /\ Compatible(fn.values[key].type, seen))
      BY <1>2, <1>11, <2>2, <3>1, <3>3, <2>1, <2>5 DEF ExternInFile, ExternSeen, ExternClash
    <3> QED BY <3>2, <3>3
  <2> QED BY <2>4, <2>5
<1> QED BY <1>10, <1>11

LEMMA ExternAnalyzed ==
    ASSUME NEW t, NEW fn, TableRecord(t), t.function = <<fn>>, FunctionRecord(fn),
           NEW item, item.storage = "extern", NEW at,
           NEW id, id = CurrentScopeId(t), NEW key, key = <<id, item.name>>,
           NEW done, done = AnalyzeObject(t, item, at), ~done.refused
    PROVE  /\ item.init = None
           /\ ~(id = fn.blockIds[1] /\ FindArgument(fn, item.name) # None)
           /\ VisitedIn(t, item, done.note, done.table)
           /\ \E global, seen, values :
                  /\ ExternInFile(t, item.name, item.type, global, seen)
                  /\ ExternInBlock(fn, key, item.name, seen, values)
                  /\ done.table = TableOf(t, fn, global, values)
<1>1. OpenFunction(t) = fn /\ ~IsAtFileScope(t) BY DEF None, OpenFunction, IsAtFileScope
<1>2. StorageOf(t, item) = IF item.init = None THEN "extern" ELSE "global"
  BY Zenon DEF StorageOf
<1>3. PICK s : s = StorageOf(t, item) OBVIOUS
<1>4. BoundTables(t, item) = BindObject(t, item, TypeFor(item), s) BY <1>3 DEF BoundTables
<1>5. item.init # None => BindObject(t, item, TypeFor(item), s) = {} BY <1>1 DEF BindObject
<1>6. PICK n : n = item.name OBVIOUS
<1>7. ASSUME item.init = None
      PROVE  \/ BoundTables(t, item) = {}
             \/ /\ BoundTables(t, item) = BindBlockScopeExtern(t, n, item.type)
                /\ ~(id = fn.blockIds[1] /\ FindArgument(fn, n) # None)
  BY <1>2, <1>3, <1>7, <1>1, <1>4, <1>6 DEF TypeFor, BindObject, InsertSymbol
<1>8. BoundTables(t, item) # {} BY Analyzed
<1>9. item.init = None BY <1>4, <1>5, <1>8
<1>10. PICK global, seen, values :
           /\ ExternInFile(t, n, item.type, global, seen)
           /\ ExternInBlock(fn, key, n, seen, values)
           /\ BindBlockScopeExtern(t, n, item.type) = {TableOf(t, fn, global, values)}
  BY <1>6, <1>7, <1>8, <1>9, ExternBound
<1>11. PICK after : after = TableOf(t, fn, global, values) OBVIOUS
<1>12. BoundTables(t, item) = {after} BY <1>7, <1>8, <1>9, <1>10, <1>11
<1>13. /\ done.table = Outcome(t, item, at, after)
       /\ done.note.mentioned = MentionedBy(Visiting(t, item, after), item)
  BY <1>12, Analyzed
<1>14. done.table = after BY <1>9, <1>13 DEF Outcome
<1>15. VisitedIn(t, item, done.note, done.table) BY <1>13, <1>14 DEF VisitedIn
<1> QED BY <1>6, <1>7, <1>8, <1>9, <1>10, <1>11, <1>14, <1>15

(* What is declared of a name when h is written and declares it.           *)
LEMMA NamesGrown ==
    ASSUME NEW sid, NEW sid2, Adding(sid, sid2), NEW n, NEW h \in New, Declares(h, n)',
           \A e \in New : e # h /\ Declares(e, n)' => ~HasLinkage(e)' /\ ~FileScopeItem(e)'
    PROVE  /\ LinkedOf(n)' = LinkedOf(n) \cup (IF HasLinkage(h)' THEN {h} ELSE {})
           /\ AtFile(n)' = AtFile(n) \cup (IF FileScopeItem(h)' THEN {h} ELSE {})
           /\ FileEnumerators(n)' =
                  FileEnumerators(n) \cup (IF Tag(h)' = "enumerator" /\ FileScopeItem(h)' THEN {h} ELSE {})
           /\ SharedWithEnumerator(n) => SharedWithEnumerator(n)'
           /\ \A d \in LinkedOf(n) \cup AtFile(n) \cup FileEnumerators(n) : d \in DOMAIN source /\ d < h
BY AddedFacts, ItemSame DEF New, LinkedOf, Declarations, AtFile, FileEnumerators,
   LinkedInBlock, SharedWithEnumerator

(* What stands in the file under a name.                                   *)
LEMMA AtFileIs ==
    ASSUME Good, NEW sid, Books(sid), NEW n, NEW d \in AtFile(n)
    PROVE  d \in DOMAIN source /\ (d \in LinkedOf(n) \/ d \in FileEnumerators(n))
<1>1. d \in DOMAIN source /\ Declares(d, n) /\ FileScopeItem(d) BY DEF AtFile, Declarations
<1>2. Tag(d) \in {"object", "prototype", "definition", "parameter", "enumerator"} BY <1>1 DEF Declares
<1>3. Tag(d) # "parameter"
  <2>1. Tag(d) = "parameter" => Len(source[d].path) = 1 BY <1>1, Facts DEF DeclOk
  <2>2. Len(<<>>) = 0 OBVIOUS
  <2> QED BY <1>1, <2>1, <2>2 DEF FileScopeItem
<1> QED BY <1>1, <1>2, <1>3 DEF LinkedOf, FileEnumerators, Declarations, HasLinkage, IsFunctionItem

LEMMA Compatibility ==
    ASSUME NEW a \in ObjectTypes, NEW b \in ObjectTypes, NEW c \in ObjectTypes
    PROVE  /\ Compatible(a, a) /\ Compatible(a, b) => Compatible(b, a)
           /\ Compatible(a, b) /\ Compatible(b, c) => Compatible(a, c)
           /\ \A d : Composite(a, b) = <<d>> =>
                  /\ d \in ObjectTypes /\ Compatible(a, b) /\ Compatible(d, b) /\ Compatible(d, a)
                  /\ a = "int[3]" \/ b = "int[3]" => d = "int[3]"
           /\ a \notin FunctionTypes
BY DEF None, ObjectTypes, FunctionTypes, Compatible, Composite

ExternItem(item) == ObjectItem(item) /\ item.storage = "extern" /\ item.init = None

(* What is the same in the entry of an object of the file as long as       *)
(* nothing is declared there.                                              *)
LEMMA ObjectEntrySame ==
    ASSUME NEW sid, NEW sid2, Adding(sid, sid2), NEW n, AtFile(n)' = AtFile(n), NEW x
    PROVE  ObjectEntryOk(n, x)' <=> ObjectEntryOk(n, x)
BY AddedFacts, ItemSame DEF AtFile, Declarations, ObjectEntryOk

LEMMA LinkedOld ==
    ASSUME NEW sid, NEW sid2, Adding(sid, sid2), NEW n, NEW d \in LinkedOf(n)
    PROVE  /\ d \in DOMAIN source /\ source'[d] = source[d] /\ Tag(d)' = Tag(d)
           /\ (IsFunctionItem(d)' <=> IsFunctionItem(d)) /\ TypeOfAny(d)' = TypeOfAny(d)
BY AddedFacts, ItemSame DEF LinkedOf, Declarations

(* The entry that "extern" in a block makes of an unknown name,            *)
LEMMA ExternFirst ==
    ASSUME NEW sid, NEW sid2, Adding(sid, sid2), NEW h \in New, NEW n \in Names, NEW type \in ObjectTypes,
           LinkedOf(n)' = {h}, AtFile(n)' = {}, ~IsFunctionItem(h)', TypeOfAny(h)' = type,
           source'[h].storage = "extern", NEW e, e = Entry(FileName(n), type, "extern")
    PROVE  LinkedEntryOk(n, e)' /\ e \in Entries
<1>1. FileName(n) \in Homes BY HomesAre
<1>2. "extern" \in Storages BY DEF Storages
<1>3. PICK o : o = FileName(n) OBVIOUS
<1>4. /\ e \in Entries /\ e.object = o /\ e.type = type /\ e.storage = "extern" /\ e.value = None
  BY <1>1, <1>3, <1>2, EntryIs
<1>5. e.definingInitializer = FALSE /\ e.staticInit = None BY <1>3 DEF Entry
<1>6. ~IsFunction(e) /\ Compatible(e.type, type) 
  BY <1>4 DEF IsFunction, ObjectTypes, FunctionTypes, Compatible, Composite, None
<1>7. ObjectEntryOk(n, e)' BY <1>4, <1>5 DEF ObjectEntryOk
<1>8. \A d \in LinkedOf(n)' : (IsFunction(e) <=> IsFunctionItem(d)') /\ Compatible(e.type, TypeOfAny(d)')
  BY <1>6
<1>9. (e.storage = "static" <=> \E d \in LinkedOf(n) : source[d].storage = "static")' BY <1>4
<1>10. LinkedEntryOk(n, e)' BY <1>3, <1>4, <1>6, <1>7, <1>8, <1>9 DEF LinkedEntryOk
<1> QED BY <1>4, <1>10

(* and the one it leaves of a known one.                                   *)
LEMMA ExternAgain ==
    ASSUME NEW sid, NEW sid2, Adding(sid, sid2), NEW h \in New, NEW n \in Names, NEW type,
           LinkedOf(n)' = LinkedOf(n) \cup {h}, AtFile(n)' = AtFile(n), ~IsFunctionItem(h)',
           TypeOfAny(h)' = type, source'[h].storage = "extern",
           NEW e, LinkedEntryOk(n, e), ~IsFunction(e), Compatible(e.type, type)
    PROVE  LinkedEntryOk(n, e)'
BY ObjectEntrySame, LinkedOld DEF LinkedEntryOk

LEMMA ExternGlobal ==
    ASSUME NEW sid, NEW sid2, Adding(sid, sid2), NEW h, New = {h}, NEW item, SameObject(h, item)',
           ExternItem(item), source'[h].path # <<>>, NEW n, n = item.name, NEW seen,
           ExternInFile(table, n, item.type, table'.global, seen)
    PROVE  GlobalOk' /\ seen \in ObjectTypes /\ Compatible(seen, item.type)
<1>1. Good /\ Good' /\ Books(sid) /\ Grows BY AddedFacts
<1>2. n \in Names /\ item.type \in ObjectTypes BY DEF ExternItem, ObjectItem
<1>3. /\ Tag(h)' = "object" /\ source'[h].name = n /\ source'[h].storage = "extern"
      /\ TypeOf(h)' = item.type /\ h \in DOMAIN source'
  BY DEF SameObject, ExternItem, TypeOf, New
<1>4. /\ ~FileScopeItem(h)' /\ HasLinkage(h)' /\ ~IsFunctionItem(h)' /\ TypeOfAny(h)' = item.type
      /\ Declares(h, n)' /\ \A m : m # n => ~Declares(h, m)'
  BY <1>3 DEF FileScopeItem, HasLinkage, IsFunctionItem, TypeOfAny, Declares
<1>5. /\ LinkedOf(n)' = LinkedOf(n) \cup {h} /\ AtFile(n)' = AtFile(n)
      /\ FileEnumerators(n)' = FileEnumerators(n)
      /\ SharedWithEnumerator(n) => SharedWithEnumerator(n)'
  BY ZenonT(30), <1>3, <1>4, NamesGrown
<1>6. InFile(n)' BY <1>5 DEF InFile
<1>7. ~SharedWithEnumerator(n)' => FileEnumerators(n)' = {}
  BY <1>3, <1>4 DEF LinkedInBlock, Declarations, SharedWithEnumerator, FileEnumerators
<1>8. {k \in Names : k = n /\ InFile(k)'} = {n} BY <1>2, <1>6
<1>9. {<<0, m>> : m \in {k \in Names : k = n /\ InFile(k)'}} = {<<0, n>>} BY <1>8
<1>10. GlobalOk BY <1>1 DEF Books
<1>11. FileScope(table, n) = IF InFile(n) THEN <<table.global[<<0, n>>]>> ELSE None
  BY <1>1, <1>2, FoundInFile
<1>12. \A x : <<x>> # None BY DEF None
<1>13. \A e \in New, m \in Names : m # n /\ Declares(e, m)' => ~HasLinkage(e)' /\ ~FileScopeItem(e)'
  BY <1>4
<1>14. CASE FileScope(table, n) = None
  <2>1. ~InFile(n) BY <1>11, <1>12, <1>14
  <2>2. LinkedOf(n) = {} /\ FileEnumerators(n) = {} BY <2>1 DEF InFile
  <2>3. AtFile(n) = {} BY <1>1, <2>2, AtFileIs
  <2>4. PICK e : e = Entry(FileName(n), item.type, "extern") OBVIOUS
  <2>5. table'.global = With(table.global, <<0, n>>, e) /\ seen = item.type
    BY <1>12, <1>14, <2>4 DEF ExternInFile
  <2>6. LinkedEntryOk(n, e)' /\ e \in Entries
    BY <1>5, <2>2, <2>3, <1>2, <1>3, <1>4, <2>4, ExternFirst
  <2>7. <<0, n>> \notin DOMAIN table.global BY <1>10, <2>1 DEF GlobalOk
  <2>8. /\ DOMAIN table'.global = DOMAIN table.global \cup {<<0, n>>}
        /\ table'.global[<<0, n>>] = e
        /\ \A k \in DOMAIN table.global : table'.global[k] = table.global[k]
    BY WithIs, <2>5, <2>7 DEF With
  <2>9. EntryOk(n, e)' \/ SharedWithEnumerator(n)' BY <1>7, <2>6 DEF EntryOk
  <2>10. \A m \in Names : m # n /\ InFile(m) => table'.global[<<0, m>>] = table.global[<<0, m>>]
    BY <1>10, <2>8 DEF GlobalOk
  <2>11. ~SharedWithEnumerator(n)' => EntryOk(n, table.global[<<0, n>>])'
    BY <2>8, <2>9 DEF EntryOk, LinkedEntryOk, ObjectEntryOk, FunctionEntryOk
  <2>12. table'.global[<<0, n>>] \in Entries /\ table'.global[<<0, n>>].object = FileName(n)
    BY <2>6, <2>8 DEF LinkedEntryOk
  <2>13. GlobalOk' BY <1>9, <1>13, <2>8, <2>10, <2>11, <2>12, AddGlobal
  <2>14. \A a \in ObjectTypes : Compatible(a, a) BY DEF Compatible, Composite, None
  <2> QED BY <1>2, <2>5, <2>13, <2>14
<1>15. CASE FileScope(table, n) # None
  <2>1. PICK e : /\ FileScope(table, n) = <<e>> /\ ~IsFunction(e) /\ Composite(e.type, item.type) = <<seen>>
                 /\ table'.global = table.global
    BY <1>15 DEF ExternInFile
  <2>2. InFile(n) /\ e = table.global[<<0, n>>] BY <1>11, <1>15, <2>1
  <2>3. /\ e \in Entries /\ e.object = FileName(n)
        /\ ~SharedWithEnumerator(n) => EntryOk(n, e)
    BY <1>2, <1>10, <2>2 DEF GlobalOk
  <2>4. e.type \in ObjectTypes BY <2>1, <2>3 DEF Entries, IsFunction
  <2>5. seen \in ObjectTypes /\ Compatible(seen, item.type) /\ Compatible(e.type, item.type)
    BY <1>2, <2>1, <2>4, Compatibility
  <2>6. ASSUME ~SharedWithEnumerator(n)' PROVE EntryOk(n, e)'
    <3>1. FileEnumerators(n)' = {} /\ FileEnumerators(n) = {} BY <1>5, <1>7, <2>6
    <3>2. LinkedOf(n) # {} BY <2>2, <3>1 DEF InFile
    <3>3. LinkedEntryOk(n, e) BY <1>5, <2>3, <2>6, <3>2 DEF EntryOk
    <3>4. PICK type : type = item.type OBVIOUS
    <3>5. LinkedEntryOk(n, e)'
      <4>1. h \in New OBVIOUS
      <4> QED BY <1>2, <1>3, <1>4, <1>5, <2>1, <2>5, <3>3, <3>4, <4>1, ExternAgain
    <3> QED BY <3>1, <3>5 DEF EntryOk
  <2>7. <<0, n>> \in DOMAIN table.global BY <1>10, <1>2, <2>2 DEF GlobalOk
  <2>8. DOMAIN table'.global = DOMAIN table.global \cup {<<0, n>>} BY <2>1, <2>7
  <2>9. \A m \in Names : m # n /\ InFile(m) => table'.global[<<0, m>>] = table.global[<<0, m>>]
    BY <2>1
  <2>10. table'.global[<<0, n>>] = e BY <2>1, <2>2
  <2>11. ~SharedWithEnumerator(n)' => EntryOk(n, table.global[<<0, n>>])'
    BY <2>6, <2>10 DEF EntryOk, LinkedEntryOk, ObjectEntryOk, FunctionEntryOk
  <2>12. table'.global[<<0, n>>] \in Entries /\ table'.global[<<0, n>>].object = FileName(n)
    BY <2>3, <2>10
  <2>13. GlobalOk' BY <1>9, <1>13, <2>8, <2>9, <2>11, <2>12, AddGlobal
  <2> QED BY <2>5, <2>13
<1> QED BY <1>14, <1>15

LEMMA ExternEntry ==
    ASSUME NEW sid, NEW d, NEW v, BlockEntryOk(sid, d, v), v.storage = "extern",
           Tag(d) \in {"object", "enumerator"}
    PROVE  /\ Tag(d) = "object" /\ HasLinkage(d)
           /\ v \in Entries /\ v.object = FileName(source[d].name) /\ v.value = None /\ v.type \in ObjectTypes
BY DEF Enumerator, Entry, BlockEntryOk, LocalEntry

LEMMA ExternValues ==
    ASSUME NEW sid, NEW sid2, Adding(sid, sid2), path # <<>>, NEW fn, ValuesOk(sid, fn),
           NEW h, New = {h}, NEW item, SameObject(h, item)', ExternItem(item), source'[h].path # <<>>,
           NEW n, n = item.name, NEW key, key = <<sid2[Scope(h)'], n>>,
           NEW seen \in ObjectTypes, Compatible(seen, item.type),
           NEW fn2, ExternInBlock(fn, key, n, seen, fn2.values)
    PROVE  ValuesOk(sid2, fn2)'
<1>1. n \in Names /\ item.type \in ObjectTypes BY DEF ExternItem, ObjectItem
<1>2. /\ source'[h].what = "object" /\ Tag(h)' = "object" /\ source'[h].name = n
      /\ source'[h].storage = "extern" /\ TypeOf(h)' = item.type /\ HasLinkage(h)'
  BY DEF SameObject, ExternItem, TypeOf, Tag, HasLinkage
<1>3. KeyOf(sid2, h)' = key BY <1>2 DEF KeyOf
<1>4. PICK v : v = fn2.values[key] OBVIOUS
<1>5. /\ DOMAIN fn2.values = DOMAIN fn.values \cup {key}
      /\ \A k \in DOMAIN fn.values : fn2.values[k] = fn.values[k]
      /\ v \in Entries /\ v.object = FileName(n) /\ v.storage = "extern" /\ v.value = None
      /\ v.type \in ObjectTypes /\ Compatible(v.type, item.type)
  BY WithIs, <1>4, <1>1, HomesAre, EntryIs, ExternEntry, Compatibility DEF With, Storages,
     ValuesOk, InValues, KeyOf, ExternInBlock
<1>6. BlockEntryOk(sid2, h, v)' BY <1>2, <1>5 DEF BlockEntryOk, Entries
<1>7. BlockEntryOk(sid2, h, fn2.values[KeyOf(sid2, h)])' BY <1>3, <1>4, <1>6
<1>8. h \in New /\ \A d \in New : h # d => source'[d].what \notin {"object", "enumerator"} OBVIOUS
<1>9. DOMAIN fn2.values = DOMAIN fn.values \cup {KeyOf(sid2, h)'} BY <1>3, <1>5
<1> QED BY <1>2, <1>5, <1>7, <1>8, <1>9, ValuesOne

LEMMA ExternBeside ==
    ASSUME NEW sid, NEW sid2, Adding(sid, sid2), path # <<>>, NEW fn, fn = OpenFunction(table),
           NEW h, New = {h}, NEW item, SameObject(h, item)', ExternItem(item), source'[h].path # <<>>,
           Opens(Last(path)), Scope(h)' = Last(path), Opens(Scope(h))',
           NEW n, n = item.name, NEW id, id = CurrentScopeId(table), NEW key, key = <<id, n>>,
           ~(id = fn.blockIds[1] /\ FindArgument(fn, n) # None),
           NEW seen, NEW values, ExternInBlock(fn, key, n, seen, values)
    PROVE  DeclarationsOk'
<1>1. Good /\ Books(sid) /\ Grows BY AddedFacts
<1>2. /\ Tag(h)' = "object" /\ source'[h].name = n /\ source'[h].storage = "extern"
      /\ source'[h].init = None /\ n \in Names /\ source'[h].type \in ObjectTypes
      /\ source'[h].storage \in StorageSpecifiers /\ source'[h].init \in Initializers
  BY DEF SameObject, ExternItem, ObjectItem, Tag
<1>3. HasLinkage(h)' /\ ~IsFunctionItem(h)' /\ IsDecl(h)' BY <1>2 DEF HasLinkage, IsFunctionItem, IsDecl
<1>4. DeclOk(h)' BY <1>2, <1>3 DEF DeclOk
<1>5. ASSUME NEW f \in New, NEW d \in DOMAIN source', d # f, IsDecl(d)', IsDecl(f)',
             source'[d].name = source'[f].name, Scope(d)' = Scope(f)'
      PROVE  ScopeOk(d, f)'
  <2>1. f = h /\ d \in DOMAIN source BY <1>5, AddedFacts
  <2>2. /\ source[d].name = n /\ Scope(d) = Last(path) /\ IsDecl(d) /\ Tag(d)' = Tag(d)
        /\ (HasLinkage(d)' <=> HasLinkage(d))
    BY <1>1, <1>2, <1>5, <2>1, ItemSame
  <2>3. /\ Tag(d) \in {"object", "enumerator"} =>
               /\ KeyOf(sid, d) = <<id, n>> /\ KeyOf(sid, d) \in DOMAIN fn.values
               /\ BlockEntryOk(sid, d, fn.values[KeyOf(sid, d)])
        /\ Tag(d) = "parameter" => id = fn.blockIds[1] /\ FindArgument(fn, n) # None
        /\ Tag(d) # "definition"
    BY <1>1, <2>1, <2>2, BesideIs
  <2>4. Tag(d) \in {"object", "enumerator", "prototype"} BY <2>2, <2>3 DEF IsDecl
  <2>5. ASSUME Tag(d) \in {"object", "enumerator"} PROVE Tag(d) = "object" /\ HasLinkage(d)
    BY <2>3, <2>5, ExternEntry DEF ExternInBlock
  <2> QED BY <1>2, <1>3, <2>1, <2>2, <2>4, <2>5 DEF ScopeOk
<1>6. \A e \in New : DeclOk(e)' BY <1>4
<1> QED BY <1>5, <1>6, AddDeclarations

LEMMA TableOfIs ==
    ASSUME NEW t, NEW fn, NEW global, NEW values
    PROVE  LET u == TableOf(t, fn, global, values)
           IN  /\ TableRecord(u) /\ u.global = global /\ u.nextScopeId = t.nextScopeId
               /\ u.functionScopeDataHomes = t.functionScopeDataHomes
               /\ \E fn2 : /\ u.function = <<fn2>> /\ FunctionRecord(fn2) /\ fn2.values = values
                           /\ fn2.arguments = fn.arguments /\ fn2.blockIds = fn.blockIds
                           /\ fn2.function = fn.function
BY DEF TableOf, TableRecord, FunctionRecord

LEMMA ExternDeclared ==
    ASSUME Good, Good', NEW sid, Books(sid), NEW item \in Offered.objects, Declaration(item), ~hasErrors',
           path # <<>>, item.storage = "extern"
    PROVE  /\ \E sid2 : Books(sid2)'
           /\ VisitedIn(table, item, store'[Here], table')
<1>1. PICK h : h = Here OBVIOUS
<1>2. PICK done : done = AnalyzeObject(table, item, h) OBVIOUS
<1>3. /\ Grows /\ New = {h} /\ \A d \in DOMAIN source : store'[d] = store[d]
      /\ h \in Nat /\ h # 0 /\ h \notin DOMAIN source
      /\ SameObject(h, item)' /\ source'[h].path = path
      /\ ObjectItem(item) /\ ~done.refused /\ table' = done.table /\ store'[h] = done.note
      /\ path' = path /\ frames' = frames /\ Open({"definition", "block"})
  BY <1>1, <1>2, DeclarationFacts
<1>4. PICK fn : fn = OpenFunction(table) OBVIOUS
<1>5. table.function = <<fn>> /\ FunctionRecord(fn) /\ IdsOk(sid, fn.blockIds) /\ ValuesOk(sid, fn)
  BY <1>4, OpenFunctionIs DEF FunctionRecord
<1>6. TableRecord(table) /\ table.nextScopeId \in Nat BY DEF Books, TableOk, TableRecord
<1>7. PICK id, n : id = CurrentScopeId(table) /\ n = item.name OBVIOUS
<1>8. PICK key : key = <<id, n>> OBVIOUS
<1>9. /\ item.init = None
      /\ ~(id = fn.blockIds[1] /\ FindArgument(fn, n) # None)
      /\ VisitedIn(table, item, done.note, done.table)
      /\ \E global, seen, values :
             /\ ExternInFile(table, n, item.type, global, seen)
             /\ ExternInBlock(fn, key, n, seen, values)
             /\ done.table = TableOf(table, fn, global, values)
  BY <1>2, <1>3, <1>5, <1>6, <1>7, <1>8, ExternAnalyzed
<1>10. PICK global, seen, values :
           /\ ExternInFile(table, n, item.type, global, seen)
           /\ ExternInBlock(fn, key, n, seen, values)
           /\ done.table = TableOf(table, fn, global, values)
  BY <1>9
<1>11. /\ TableRecord(table') /\ table'.global = global /\ table'.nextScopeId = table.nextScopeId
       /\ table'.functionScopeDataHomes = table.functionScopeDataHomes
       /\ \E f : /\ table'.function = <<f>> /\ FunctionRecord(f) /\ f.values = values
                 /\ f.arguments = fn.arguments /\ f.blockIds = fn.blockIds /\ f.function = fn.function
  BY <1>3, <1>10, TableOfIs
<1>12. PICK fn2 : /\ table'.function = <<fn2>> /\ FunctionRecord(fn2) /\ fn2.values = values
                  /\ fn2.arguments = fn.arguments /\ fn2.blockIds = fn.blockIds
                  /\ fn2.function = fn.function
  BY <1>11
<1>13. PICK sid2 : Continues(sid, sid2) BY DEF Continues
<1>14. source'[h].what = "object" /\ ExternItem(item) BY <1>3, <1>9 DEF SameObject, Tag, ExternItem
<1>15. /\ Adding(sid, sid2) /\ Scope(h)' = Last(path) /\ ScopesOk(sid2)'
       /\ Scope(h)' # 0 /\ Opens(Scope(h))' /\ sid2[Scope(h)'] = id
       /\ id \in Nat /\ Opens(Last(path)) /\ Last(path) \in DOMAIN source
       /\ IdsOk(sid2, fn.blockIds)'
  BY <1>1, <1>3, <1>5, <1>7, <1>11, <1>13, <1>14, InsideAdding
<1>16. source'[h].path # <<>> BY <1>3
<1>17. DeclarationsOk'
  BY <1>3, <1>4, <1>7, <1>8, <1>9, <1>10, <1>14, <1>15, <1>16, ExternBeside
<1>18. GlobalOk' /\ seen \in ObjectTypes /\ Compatible(seen, item.type)
  BY <1>10, <1>11, <1>3, <1>7, <1>14, <1>15, <1>16, ExternGlobal
<1>19. ValuesOk(sid2, fn2)'
  <2>1. ExternInBlock(fn, key, n, seen, fn2.values) BY <1>10, <1>12
  <2>2. key = <<sid2[Scope(h)'], n>> BY <1>8, <1>15
  <2> QED BY <1>3, <1>5, <1>7, <1>14, <1>15, <1>16, <1>18, <2>1, <2>2, ExternValues
<1>20. HoldersOk(sid2)'
  BY <1>3, <1>14, <1>15, AddHolders DEF HasObject, HasLinkage, ExternItem, SameObject
<1>21. IdsOk(sid2, fn2.blockIds)' BY <1>12, <1>15
<1>22. \A e \in New : source'[e].what # "parameter" BY <1>3, <1>14
<1>23. fn2 = [values |-> fn2.values, arguments |-> OpenFunction(table).arguments,
              blockIds |-> fn2.blockIds, function |-> OpenFunction(table).function]
  BY <1>4, <1>12 DEF FunctionRecord
<1>24. Books(sid2)'
  BY <1>3, <1>11, <1>12, <1>15, <1>17, <1>18, <1>19, <1>20, <1>21, <1>22, <1>23, BooksInside
<1>25. VisitedIn(table, item, store'[Here], table') BY <1>1, <1>3, <1>9
<1> QED BY <1>24, <1>25

-----------------------------------------------------------------------------
(* A declaration of the file.                                              *)

(* What a step does that leaves the scopes of the function alone.          *)
FileOnly ==
    /\ table'.nextScopeId = table.nextScopeId /\ table'.function = table.function
    /\ table'.functionScopeDataHomes = table.functionScopeDataHomes /\ TableRecord(table')

LEMMA FileAdding ==
    ASSUME Good, Good', NEW sid, Books(sid), Grows, NEW h, h = Here, New = {h},
           \A d \in DOMAIN source : store'[d] = store[d],
           path = <<>>, path' = path, source'[h].path = path, frames' = frames,
           source'[h].what \in {"object", "prototype", "enumerator"},
           FileOnly, NEW sid2, Continues(sid, sid2)
    PROVE  /\ Adding(sid, sid2) /\ Scope(h)' = 0 /\ FileScopeItem(h)'
           /\ DeclarationsOk' /\ HoldersOk(sid2)' /\ GlobalOk' => Books(sid2)'
<1>1. Scope(h)' = 0 /\ FileScopeItem(h)' BY DEF Scope, FileScopeItem
<1>2. InPlace BY DEF InPlace
<1>3. table.nextScopeId \in Nat /\ table.function = None BY DEF Books, TableOk
<1>4. Adding(sid, sid2) BY JumpsType, <1>1, <1>2, <1>3 DEF Adding, FileOnly
<1>5. ~Opens(h)' BY DEF Opens, Tag
<1>6. ScopesOk(sid2)' BY <1>4, <1>5, AddScopes
<1>7. FunctionOk(sid2)' BY DEF FunctionOk
<1>8. EndedOk(sid2)' BY <1>4, AddEnded DEF FileOnly
<1>9. TreeOk' BY <1>4, AddedFacts
<1>10. TableOk' BY <1>3 DEF TableOk, FileOnly, TableRecord
<1> QED BY <1>1, <1>4, <1>6, <1>7, <1>8, <1>9, <1>10 DEF Books

(* The entry of one name is written.                                       *)
FileWritten(t, u, key, x) ==
    /\ TableRecord(u) /\ u.function = t.function /\ u.nextScopeId = t.nextScopeId
    /\ u.functionScopeDataHomes = t.functionScopeDataHomes
    /\ DOMAIN u.global = DOMAIN t.global \cup {key} /\ u.global[key] = x
    /\ \A k \in DOMAIN t.global : k # key => u.global[k] = t.global[k]

LEMMA WrittenWith ==
    ASSUME NEW t, TableRecord(t), NEW key, NEW x
    PROVE  FileWritten(t, [t EXCEPT !.global = With(@, key, x)], key, x)
BY WithIs, TableChanged DEF With, WithGlobal, TableRecord, FileWritten

LEMMA WrittenAgain ==
    ASSUME NEW t, TableRecord(t), NEW key, key \in DOMAIN t.global, NEW x
    PROVE  FileWritten(t, [t EXCEPT !.global[key] = x], key, x)
BY TableChanged DEF WithGlobal, TableRecord, FileWritten

LEMMA WrittenTwice ==
    ASSUME NEW t, NEW u, NEW key, NEW x, FileWritten(t, u, key, x), NEW w, NEW y, FileWritten(u, w, key, y)
    PROVE  FileWritten(t, w, key, y)
BY DEF FileWritten

(* What that does to GlobalOk.                                             *)
LEMMA GlobalWritten ==
    ASSUME NEW sid, NEW sid2, Adding(sid, sid2), NEW n \in Names, NEW x \in Entries,
           x.object = FileName(n),
           FileWritten(table, table', <<0, n>>, x),
           \A e \in New, m \in Names :
               m # n /\ Declares(e, m)' => ~HasLinkage(e)' /\ ~FileScopeItem(e)',
           InFile(n)', ~SharedWithEnumerator(n)' => EntryOk(n, x)'
    PROVE  GlobalOk'
<1>1. {k \in Names : k = n /\ InFile(k)'} = {n} OBVIOUS
<1>2. {<<0, m>> : m \in {k \in Names : k = n /\ InFile(k)'}} = {<<0, n>>} BY <1>1
<1>3. DOMAIN table'.global = DOMAIN table.global \cup {<<0, n>>} BY DEF FileWritten
<1>4. GlobalOk BY AddedFacts DEF Books
<1>5. \A m \in Names : m # n /\ InFile(m) => table'.global[<<0, m>>] = table.global[<<0, m>>]
  BY <1>4 DEF GlobalOk, FileWritten
<1>6. table'.global[<<0, n>>] = x BY DEF FileWritten
<1>7. ~SharedWithEnumerator(n)' => EntryOk(n, table.global[<<0, n>>])'
  BY <1>6 DEF EntryOk, LinkedEntryOk, ObjectEntryOk, FunctionEntryOk
<1>8. table'.global[<<0, n>>] \in Entries /\ table'.global[<<0, n>>].object = FileName(n) BY <1>6
<1> QED BY <1>2, <1>3, <1>5, <1>7, <1>8, AddGlobal

FileStorage(item) ==
    IF item.storage = "static" THEN "static"
    ELSE IF item.storage = "extern" /\ item.init = None THEN "extern" ELSE "global"

(* The entry before its initializer is set: that of a first declaration,   *)
FirstEntry(n, item, x) ==
    /\ x \in Entries /\ x.object = FileName(n) /\ x.value = None /\ x.type = TypeFor(item)
    /\ x.storage = FileStorage(item) /\ (x.definingInitializer <=> item.init # None)
    /\ x.staticInit = None

(* or of one that is merged with e.                                        *)
MergedEntry(e, item, x) ==
    /\ ~IsEnumerator(e) /\ ~IsFunction(e)
    /\ item.storage = "static" => e.storage = "static"
    /\ e.storage = "static" => FileStorage(item) # "global"
    /\ ~(item.init # None /\ e.definingInitializer)
    /\ x \in Entries /\ x.object = e.object /\ x.value = e.value
    /\ Composite(e.type, TypeFor(item)) = <<x.type>>
    /\ x.storage = (IF e.storage = "extern" /\ FileStorage(item) = "global" THEN "global" ELSE e.storage)
    /\ (x.definingInitializer <=> (e.definingInitializer \/ item.init # None))
    /\ x.staticInit = e.staticInit

FileEntry(t, n, item, x) ==
    \/ FileScope(t, n) = None /\ FirstEntry(n, item, x)
    \/ \E e : FileScope(t, n) = <<e>> /\ MergedEntry(e, item, x)

Initialized(x, item, at) == IF item.init # None /\ IsGlobal(x) THEN WithInit(x, at) ELSE x

LEMMA FirstEntryIs ==
    ASSUME NEW n \in Names, NEW item, ObjectItem(item), NEW init, init = (item.init # None), NEW type,
           type = TypeFor(item), NEW x,
           x = [Entry(FileName(n), type, FileStorage(item)) EXCEPT !.definingInitializer = init]
    PROVE  FirstEntry(n, item, x)
<1>1. PICK o : o = FileName(n) OBVIOUS
<1>2. PICK s : s = FileStorage(item) OBVIOUS
<1>3. s \in Storages BY <1>2 DEF FileStorage, Storages
<1>4. o \in Homes BY <1>1, HomesAre
<1>5. type \in ObjectTypes \cup FunctionTypes BY TypeForIs DEF ObjectItem
<1>6. PICK e : e = Entry(o, type, s) OBVIOUS
<1>7. /\ e \in Entries /\ e.object = o /\ e.type = type /\ e.storage = s /\ e.value = None
  BY <1>3, <1>4, <1>5, <1>6, EntryIs
<1>8. e.staticInit = None
  BY ONLY <1>6 DEF Entry
<1>9. x = [e EXCEPT !.definingInitializer = init] /\ init \in BOOLEAN BY <1>1, <1>2, <1>6
<1>10. /\ x \in Entries /\ x.object = o /\ x.type = type /\ x.storage = s /\ x.value = None
       /\ x.staticInit = None /\ x.definingInitializer = init
  BY ONLY <1>7, <1>8, <1>9 DEF Entries
<1> QED BY <1>1, <1>2, <1>10 DEF FirstEntry

LEMMA MergedEntryIs ==
    ASSUME NEW e \in Entries, ~IsFunction(e), NEW item, ObjectItem(item), NEW init, init = (item.init # None),
           NEW type, type = TypeFor(item), NEW s, s = FileStorage(item), Merges(e, type, s, init), NEW x,
           x = [e EXCEPT !.type = Composite(@, type)[1],
                         !.storage = IF @ = "extern" /\ s = "global" THEN "global" ELSE @,
                         !.definingInitializer = @ \/ init]
    PROVE  MergedEntry(e, item, x)
<1>1. /\ ~IsEnumerator(e) /\ (s = "static" => e.storage = "static")
      /\ (e.storage = "static" => s # "global") /\ Compatible(e.type, type)
      /\ ~(init /\ e.definingInitializer)
  BY DEF Merges
<1>2. e.type \in ObjectTypes BY DEF Entries, IsFunction
<1>3. type \in ObjectTypes BY TypeForIs DEF ObjectItem
<1>4. PICK c : Composite(e.type, type) = <<c>> BY <1>1, CompositeIs DEF Compatible
<1>5. c \in ObjectTypes BY <1>2, <1>3, <1>4, Compatibility
<1>6. PICK st : st = IF e.storage = "extern" /\ s = "global" THEN "global" ELSE e.storage OBVIOUS
<1>7. st \in Storages BY <1>6 DEF Entries, Storages
<1>8. x = [e EXCEPT !.type = c, !.storage = st, !.definingInitializer = e.definingInitializer \/ init]
  BY <1>4, <1>6
<1>9. e.definingInitializer \in BOOLEAN /\ init \in BOOLEAN BY DEF Entries
<1>10. PICK b \in BOOLEAN : b = (e.definingInitializer \/ init) BY <1>9
<1>11. x = [e EXCEPT !.type = c, !.storage = st, !.definingInitializer = b] BY <1>8, <1>10
<1>12. /\ x \in Entries /\ x.object = e.object /\ x.value = e.value /\ x.type = c /\ x.storage = st
       /\ x.definingInitializer = b /\ x.staticInit = e.staticInit
  BY <1>5, <1>7, <1>11 DEF Entries
<1>13. x.definingInitializer <=> (e.definingInitializer \/ item.init # None) BY <1>10, <1>12
<1>14. item.storage = "static" => s = "static" BY DEF FileStorage
<1> QED BY <1>1, <1>4, <1>6, <1>12, <1>13, <1>14 DEF MergedEntry

FileClash(t, n, item) ==
    \/ TypeFor(item) = "int[]" /\ FileStorage(item) # "extern"
    \/ \E e : /\ FileScope(t, n) = <<e>>
             /\ \/ IsFunction(e)
                \/ ~Merges(e, TypeFor(item), FileStorage(item), item.init # None)

LEMMA FileBound ==
    ASSUME NEW t, TableRecord(t), t.function = None, NEW item, ObjectItem(item), NEW n, n = item.name,
           \A e : FileScope(t, n) = <<e>> => e \in Entries
    PROVE  \/ BoundTables(t, item) = {} /\ FileClash(t, n, item)
           \/ /\ TypeFor(item) = "int[]" => FileStorage(item) = "extern"
              /\ \E after, x : /\ BoundTables(t, item) = {after} /\ FileWritten(t, after, <<0, n>>, x)
                               /\ FileEntry(t, n, item, x)
<1>1. IsAtFileScope(t) BY DEF IsAtFileScope
<1>2. PICK s : s = FileStorage(item) OBVIOUS
<1>3. StorageOf(t, item) = s BY <1>1, <1>2, Zenon DEF StorageOf, FileStorage
<1>4. PICK type, init : type = TypeFor(item) /\ init = (item.init # None) OBVIOUS
<1>5. BoundTables(t, item) =
          IF (type = "int[]" /\ s # "extern") \/ HasFunction(t, n) THEN {}
          ELSE BindFileScopeObject(t, n, type, s, init)
  BY <1>1, <1>3, <1>4 DEF BoundTables, BindObject
<1>6. PICK key : key = <<0, n>> OBVIOUS
<1>7. CASE FileScope(t, n) = None
  BY <1>6, <1>7, WrittenWith, <1>2, <1>4, FirstEntryIs, <1>5 DEF BindFileScopeObject,
     ObjectItem, FileEntry, HasFunction, FileClash
<1>8. CASE FileScope(t, n) # None
  <2>1. key \in DOMAIN t.global /\ FileScope(t, n) = <<t.global[key]>>
    BY <1>6, <1>8 DEF FileScope, At
  <2>2. PICK e : e = t.global[key] OBVIOUS
  <2>3. FileScope(t, n) = <<e>> /\ FileScope(t, n)[1] = e /\ e \in Entries BY <2>1, <2>2
  <2>4. HasFunction(t, n) <=> IsFunction(e) BY <1>8, <2>3 DEF HasFunction
  <2>5. PICK x : x = [e EXCEPT !.type = Composite(@, type)[1],
                         !.storage = IF @ = "extern" /\ s = "global" THEN "global" ELSE @,
                         !.definingInitializer = @ \/ init]
    OBVIOUS
  <2>6. PICK after : after = [t EXCEPT !.global[key] = x] OBVIOUS
  <2>7. BindFileScopeObject(t, n, type, s, init) = IF Merges(e, type, s, init) THEN {after} ELSE {}
    BY <1>6, <2>6, <1>8, <2>3, <2>5 DEF WithFile, BindFileScopeObject
  <2>8. FileWritten(t, after, key, x) BY <2>1, <2>6, WrittenAgain
  <2>9. ~IsFunction(e) /\ Merges(e, type, s, init) => FileEntry(t, n, item, x)
    <3>1. ASSUME ~IsFunction(e), Merges(e, type, s, init) PROVE MergedEntry(e, item, x)
      <4>1. /\ e \in Entries /\ ~IsFunction(e) /\ ObjectItem(item) /\ init = (item.init # None)
            /\ type = TypeFor(item) /\ s = FileStorage(item) /\ Merges(e, type, s, init)
        BY <1>2, <1>4, <2>3, <3>1
      <4> QED BY ONLY <4>1, <2>5, MergedEntryIs
    <3> QED BY <2>3, <3>1 DEF FileEntry
  <2>10. (type = "int[]" /\ s # "extern") \/ IsFunction(e) \/ ~Merges(e, type, s, init)
             => FileClash(t, n, item)
    BY <1>2, <1>4, <2>3 DEF FileClash
  <2> QED BY <1>2, <1>4, <1>5, <1>6, <2>4, <2>7, <2>8, <2>9, <2>10
<1> QED BY <1>7, <1>8

LEMMA InitializedIs ==
    ASSUME NEW x \in Entries, NEW item, NEW at \in Nat
    PROVE  LET y == Initialized(x, item, at)
           IN  /\ y \in Entries /\ Alike(y, x) /\ y.storage = x.storage
               /\ y.definingInitializer = x.definingInitializer
               /\ y.staticInit = (IF item.init # None /\ IsGlobal(x) THEN <<at>> ELSE x.staticInit)
BY DEF WithInit, Entries, Optional, Initialized, Alike

LEMMA FileAnalyzed ==
    ASSUME NEW t, TableRecord(t), t.function = None, NEW item, ObjectItem(item), NEW n, n = item.name,
           \A e : FileScope(t, n) = <<e>> => e \in Entries, NEW at \in Nat,
           NEW done, done = AnalyzeObject(t, item, at), ~done.refused
    PROVE  /\ TypeFor(item) = "int[]" => FileStorage(item) = "extern"
           /\ VisitedIn(t, item, done.note, done.table)
           /\ \E x : /\ FileWritten(t, done.table, <<0, n>>, Initialized(x, item, at))
                     /\ FileEntry(t, n, item, x) /\ x \in Entries
<1>1. BoundTables(t, item) # {} BY Analyzed
<1>2. /\ TypeFor(item) = "int[]" => FileStorage(item) = "extern"
      /\ \E after, x : /\ BoundTables(t, item) = {after} /\ FileWritten(t, after, <<0, n>>, x)
                       /\ FileEntry(t, n, item, x)
  BY <1>1, FileBound
<1>3. PICK after, x : /\ BoundTables(t, item) = {after} /\ FileWritten(t, after, <<0, n>>, x)
                      /\ FileEntry(t, n, item, x)
  BY <1>2
<1>4. /\ done.table = Outcome(t, item, at, after)
      /\ done.note.mentioned = MentionedBy(Visiting(t, item, after), item)
  BY <1>3, Analyzed
<1>5. x \in Entries BY <1>3 DEF FileEntry, FirstEntry, MergedEntry
<1>6. PICK key : key = <<0, n>> OBVIOUS
<1>7. /\ TableRecord(after) /\ after.function = None /\ key \in DOMAIN after.global
      /\ after.global[key] = x
  BY <1>3, <1>6 DEF FileWritten
<1>8. Find(after, n) = <<x>>
  BY <1>7, <1>6 DEF IsAtFileScope, WalkBlockScopes, Find, FileScope, At
<1>9. PICK y : y = Initialized(x, item, at) OBVIOUS
<1>10. FileWritten(t, done.table, key, y)
  <2>1. CASE item.init # None /\ IsGlobal(x)
    <3>1. y = WithInit(x, at) BY <1>9, <2>1 DEF Initialized
    <3>2. done.table = SetStaticInit(after, n, at) BY <1>4, <1>8, <2>1 DEF Outcome
    <3>3. SetStaticInit(after, n, at) = [after EXCEPT !.global[key].staticInit = <<at>>]
      BY <1>7, <1>6 DEF IsAtFileScope, SetStaticInit
    <3>4. [after EXCEPT !.global[key].staticInit = <<at>>] = [after EXCEPT !.global[key] = y]
      BY <1>7, <3>1 DEF WithInit
    <3>5. FileWritten(after, done.table, key, y) BY <3>2, <3>3, <3>4, <1>7, WrittenAgain
    <3> QED BY <1>3, <1>6, <3>5, WrittenTwice
  <2>2. CASE ~(item.init # None /\ IsGlobal(x))
    BY <1>9, <2>2, <1>4, <1>8, <1>3, <1>6 DEF Initialized, Outcome
  <2> QED BY <2>1, <2>2
<1>11. VisitedIn(t, item, done.note, done.table)
  <2>1. Alike(y, x) BY <1>5, <1>9, InitializedIs
  <2>2. PICK u : u = done.table OBVIOUS
  <2>3. /\ u.function = None /\ DOMAIN u.global = DOMAIN after.global
        /\ \A k \in DOMAIN u.global : Alike(u.global[k], after.global[k])
    BY <1>3, <1>6, <1>10, <2>1, <2>2 DEF FileWritten, Alike
  <2>4. \A m : Identify(u, m) = Identify(after, m) BY <1>7, <2>3, IdentifyAlike
  <2> QED BY <1>4, <2>2, <2>4 DEF VisitedIn
<1> QED BY <1>2, <1>3, <1>5, <1>6, <1>9, <1>10, <1>11

LEMMA ObjectOfFile ==
    ASSUME NEW h, NEW item, SameObject(h, item)', ObjectItem(item), source'[h].path = <<>>,
           NEW n, n = item.name
    PROVE  /\ Tag(h)' = "object" /\ source'[h].name = n /\ source'[h].storage = item.storage
           /\ source'[h].init = item.init /\ TypeOf(h)' = TypeFor(item)
           /\ FileScopeItem(h)' /\ HasLinkage(h)' /\ ~IsFunctionItem(h)' /\ ~HasObject(h)'
           /\ TypeOfAny(h)' = TypeFor(item)
           /\ \A m : Declares(h, m)' <=> m = n
BY DEF SameObject, TypeOf, TypeFor, FileScopeItem, HasLinkage, IsFunctionItem, HasObject,
   TypeOfAny, Declares

LEMMA StorageIs ==
    ASSUME NEW item
    PROVE  /\ FileStorage(item) = "static" <=> item.storage = "static"
           /\ FileStorage(item) = "extern" <=> (item.storage = "extern" /\ item.init = None)
           /\ FileStorage(item) \in {"static", "extern", "global"}
BY DEF FileStorage

(* The first declaration of an object of the file,                         *)
LEMMA FirstObject ==
    ASSUME NEW sid, NEW sid2, Adding(sid, sid2), NEW h \in New, h \in Nat, NEW item, SameObject(h, item)',
           ObjectItem(item), source'[h].path = <<>>, NEW n, n = item.name,
           LinkedOf(n)' = {h}, AtFile(n)' = {h}, NEW x, FirstEntry(n, item, x),
           NEW y, y = Initialized(x, item, h)
    PROVE  LinkedEntryOk(n, y)'
<1>1. /\ source'[h].storage = item.storage /\ source'[h].init = item.init /\ TypeOf(h)' = TypeFor(item)
      /\ ~IsFunctionItem(h)' /\ TypeOfAny(h)' = TypeFor(item)
  BY ObjectOfFile
<1>2. /\ x \in Entries /\ x.object = FileName(n) /\ x.value = None /\ x.type = TypeFor(item)
      /\ x.storage = FileStorage(item) /\ (x.definingInitializer <=> item.init # None)
      /\ x.staticInit = None
  BY DEF FirstEntry
<1>3. /\ Alike(y, x) /\ y.storage = x.storage /\ y.definingInitializer = x.definingInitializer
      /\ y.staticInit = (IF item.init # None /\ IsGlobal(x) THEN <<h>> ELSE x.staticInit)
  BY <1>2, InitializedIs
<1>4. FileStorage(item) = "static" <=> item.storage = "static" BY StorageIs
<1>5. FileStorage(item) = "extern" <=> (item.storage = "extern" /\ item.init = None) BY StorageIs
<1>6. FileStorage(item) \in {"static", "extern", "global"} BY StorageIs
<1>7. IsGlobal(x) BY <1>2, <1>6 DEF IsGlobal
<1>8. y.value = None /\ y.object = FileName(n) /\ y.type = TypeFor(item) BY <1>2, <1>3 DEF Alike
<1>9. ObjectEntryOk(n, y)' BY <1>1, <1>2, <1>3, <1>6, <1>5, <1>7, <1>8 DEF ObjectEntryOk
<1>10. ~IsFunction(y) /\ Compatible(y.type, TypeFor(item))
  BY TypeForIs, <1>8 DEF ObjectItem, IsFunction, ObjectTypes, FunctionTypes, Compatible,
     Composite, None
<1>11. \A d \in LinkedOf(n)' : (IsFunction(y) <=> IsFunctionItem(d)') /\ Compatible(y.type, TypeOfAny(d)')
  BY <1>1, <1>10
<1>12. (y.storage = "static" <=> \E d \in LinkedOf(n) : source[d].storage = "static")'
  BY <1>1, <1>2, <1>3, <1>4
<1> QED BY <1>8, <1>9, <1>10, <1>11, <1>12 DEF LinkedEntryOk

(* and one more.                                                           *)
LEMMA MergedObject ==
    ASSUME NEW sid, NEW sid2, Adding(sid, sid2), NEW h \in New, h \in Nat, NEW item, SameObject(h, item)',
           ObjectItem(item), source'[h].path = <<>>, NEW n, n = item.name,
           LinkedOf(n)' = LinkedOf(n) \cup {h}, AtFile(n)' = AtFile(n) \cup {h},
           NEW e \in Entries, LinkedEntryOk(n, e),
           NEW x, MergedEntry(e, item, x), NEW y, y = Initialized(x, item, h)
    PROVE  LinkedEntryOk(n, y)'
<1>1. /\ source'[h].storage = item.storage /\ source'[h].init = item.init /\ TypeOf(h)' = TypeFor(item)
      /\ ~IsFunctionItem(h)' /\ TypeOfAny(h)' = TypeFor(item)
  BY ObjectOfFile
<1>2. /\ ~IsFunction(e)
      /\ item.storage = "static" => e.storage = "static"
      /\ e.storage = "static" => FileStorage(item) # "global"
      /\ ~(item.init # None /\ e.definingInitializer)
      /\ x \in Entries /\ x.object = e.object /\ x.value = e.value
      /\ Composite(e.type, TypeFor(item)) = <<x.type>>
      /\ x.storage = (IF e.storage = "extern" /\ FileStorage(item) = "global" THEN "global" ELSE e.storage)
      /\ (x.definingInitializer <=> (e.definingInitializer \/ item.init # None))
      /\ x.staticInit = e.staticInit
  BY DEF MergedEntry
<1>3. /\ Alike(y, x) /\ y.storage = x.storage /\ y.definingInitializer = x.definingInitializer
      /\ y.staticInit = (IF item.init # None /\ IsGlobal(x) THEN <<h>> ELSE x.staticInit)
  BY <1>2, InitializedIs
<1>4. /\ FileStorage(item) = "static" <=> item.storage = "static"
      /\ FileStorage(item) = "extern" <=> (item.storage = "extern" /\ item.init = None)
      /\ FileStorage(item) \in {"static", "extern", "global"}
  BY StorageIs
<1>5. /\ e.value = None /\ e.object = FileName(n) /\ ObjectEntryOk(n, e)
      /\ e.storage = "static" <=> \E d \in LinkedOf(n) : source[d].storage = "static"
      /\ \A d \in LinkedOf(n) : ~IsFunctionItem(d) /\ Compatible(e.type, TypeOfAny(d))
  BY <1>2 DEF LinkedEntryOk
<1>6. y.value = None /\ y.object = FileName(n) /\ y.type = x.type BY <1>2, <1>3, <1>5 DEF Alike
<1>7. e.storage \in {"static", "extern", "global"} BY <1>5 DEF ObjectEntryOk
<1>8. IsGlobal(x) BY <1>2, <1>7 DEF IsGlobal
<1>9. y.storage = IF e.storage = "extern" /\ FileStorage(item) = "global" THEN "global" ELSE e.storage
  BY <1>2, <1>3
<1>10. /\ e.type \in ObjectTypes /\ TypeFor(item) \in ObjectTypes /\ x.type \in ObjectTypes
       /\ Compatible(x.type, e.type) /\ Compatible(x.type, TypeFor(item))
       /\ e.type = "int[3]" \/ TypeFor(item) = "int[3]" => x.type = "int[3]"
  BY <1>2, TypeForIs, Compatibility DEF Entries, IsFunction, ObjectItem
<1>11. \A d \in AtFile(n) : source'[d] = source[d] /\ TypeOf(d)' = TypeOf(d)
  BY AddedFacts, ItemSame DEF AtFile, Declarations
<1>12. ObjectEntryOk(n, y)'
  <2> DEFINE old == {d \in AtFile(n) : source[d].init # None}
             new == {d \in AtFile(n)' : source'[d].init # None}
  <2>1. /\ e.storage = "extern" <=> \A d \in AtFile(n) : source[d].storage = "extern" /\ source[d].init = None
        /\ e.definingInitializer <=> old # {}
        /\ \A d \in old : old = {d} /\ e.staticInit = <<d>>
        /\ old = {} => e.staticInit = None
        /\ \A d \in AtFile(n) : TypeOf(d) = "int[3]" => e.type = "int[3]"
    BY <1>5 DEF ObjectEntryOk
  <2>2. new = old \cup (IF item.init # None THEN {h} ELSE {})
    BY <1>1, <1>11
  <2> HIDE DEF old, new
  <2>3. y.storage \in {"static", "extern", "global"} BY <1>7, <1>9
  <2>4. y.storage = "extern" <=> e.storage = "extern" /\ FileStorage(item) # "global" BY <1>9
  <2>5. e.storage = "extern" /\ FileStorage(item) # "global"
            <=> e.storage = "extern" /\ item.storage = "extern" /\ item.init = None
    BY <1>2, <1>4
  <2>6. (\A d \in AtFile(n)' : source'[d].storage = "extern" /\ source'[d].init = None)
            <=> /\ item.storage = "extern" /\ item.init = None
                /\ \A d \in AtFile(n) : source[d].storage = "extern" /\ source[d].init = None
    BY <1>1, <1>11
  <2>7. y.storage = "extern" <=>
            \A d \in AtFile(n)' : source'[d].storage = "extern" /\ source'[d].init = None
    BY <2>1, <2>4, <2>5, <2>6
  <2>8. y.definingInitializer <=> new # {} BY <1>2, <1>3, <2>1, <2>2
  <2>9. item.init # None => old = {} BY <1>2, <2>1
  <2>10. \A d \in new : new = {d} /\ y.staticInit = <<d>> BY <1>2, <1>3, <1>8, <2>1, <2>2, <2>9
  <2>11. new = {} => y.staticInit = None BY <2>2, <1>2, <1>3, <2>1
  <2>12. \A d \in AtFile(n)' : TypeOf(d)' = "int[3]" => y.type = "int[3]"
    BY <1>1, <1>6, <1>10, <1>11, <2>1
  <2> QED BY <2>3, <2>7, <2>8, <2>10, <2>11, <2>12 DEF ObjectEntryOk, new
<1>13. ~IsFunction(y) BY <1>6, <1>10 DEF IsFunction, ObjectTypes, FunctionTypes
<1>14. \A d \in LinkedOf(n) : ~IsFunctionItem(d)' /\ Compatible(y.type, TypeOfAny(d)')
  BY LinkedOld, <1>5, AddedFacts, Facts, <1>10, Compatibility, <1>6 DEF LinkedOf, HasLinkage,
     DeclOk, TypeOfAny, TypeOf, ObjectTypes
<1>15. \A d \in LinkedOf(n)' : (IsFunction(y) <=> IsFunctionItem(d)') /\ Compatible(y.type, TypeOfAny(d)')
  BY <1>1, <1>6, <1>10, <1>13, <1>14
<1>16. (y.storage = "static" <=> \E d \in LinkedOf(n) : source[d].storage = "static")'
  BY <1>9, LinkedOld, <1>1, <1>2, <1>5
<1> QED BY <1>6, <1>12, <1>13, <1>15, <1>16 DEF LinkedEntryOk

LEMMA FileDeclared ==
    ASSUME Good, Good', NEW sid, Books(sid), NEW item \in Offered.objects, Declaration(item), ~hasErrors',
           path = <<>>
    PROVE  /\ \E sid2 : Books(sid2)'
           /\ VisitedIn(table, item, store'[Here], table')
<1>1. PICK h : h = Here OBVIOUS
<1>2. PICK done : done = AnalyzeObject(table, item, h) OBVIOUS
<1>3. /\ Grows /\ New = {h} /\ \A d \in DOMAIN source : store'[d] = store[d]
      /\ h \in Nat /\ h # 0 /\ h \notin DOMAIN source
      /\ SameObject(h, item)' /\ source'[h].path = path
      /\ ObjectItem(item) /\ ~done.refused /\ table' = done.table /\ store'[h] = done.note
      /\ path' = path /\ frames' = frames /\ ~BesideEnumerator(item.name)
  BY <1>1, <1>2, DeclarationFacts
<1>4. /\ TableRecord(table) /\ table.nextScopeId \in Nat /\ table.function = None /\ GlobalOk
      /\ TreeOk
  BY DEF Books, TableOk, TableRecord
<1>5. PICK n : n = item.name OBVIOUS
<1>6. n \in Names BY <1>3, <1>5 DEF ObjectItem
<1>7. FileScope(table, n) = IF InFile(n) THEN <<table.global[<<0, n>>]>> ELSE None
  BY <1>6, FoundInFile
<1>8. \A e : FileScope(table, n) = <<e>> =>
          InFile(n) /\ e \in Entries /\ e.object = FileName(n) /\ (~SharedWithEnumerator(n) => EntryOk(n, e))
  BY <1>4, <1>6, <1>7 DEF None, GlobalOk
<1>9. /\ TypeFor(item) = "int[]" => FileStorage(item) = "extern"
      /\ VisitedIn(table, item, done.note, done.table)
      /\ \E x : /\ FileWritten(table, done.table, <<0, n>>, Initialized(x, item, h))
                /\ FileEntry(table, n, item, x) /\ x \in Entries
  BY <1>2, <1>3, <1>4, <1>5, <1>8, FileAnalyzed
<1>10. PICK x : /\ FileWritten(table, done.table, <<0, n>>, Initialized(x, item, h))
                /\ FileEntry(table, n, item, x) /\ x \in Entries
  BY <1>9
<1>11. PICK y : y = Initialized(x, item, h) OBVIOUS
<1>12. FileWritten(table, table', <<0, n>>, y) /\ y \in Entries /\ y.object = x.object
  BY <1>3, <1>10, <1>11, InitializedIs DEF Alike
<1>13. FileOnly BY <1>12 DEF FileOnly, FileWritten
<1>14. PICK sid2 : Continues(sid, sid2) BY DEF Continues
<1>15. /\ Tag(h)' = "object" /\ source'[h].name = n /\ source'[h].storage = item.storage
       /\ source'[h].init = item.init /\ TypeOf(h)' = TypeFor(item)
       /\ FileScopeItem(h)' /\ HasLinkage(h)' /\ ~IsFunctionItem(h)' /\ ~HasObject(h)'
       /\ \A m : Declares(h, m)' <=> m = n
  BY <1>3, <1>5, ObjectOfFile
<1>16. source'[h].what = "object" BY <1>15 DEF Tag
<1>17. /\ Adding(sid, sid2) /\ Scope(h)' = 0
       /\ DeclarationsOk' /\ HoldersOk(sid2)' /\ GlobalOk' => Books(sid2)'
  BY <1>1, <1>3, <1>13, <1>14, <1>16, FileAdding
<1>18. HoldersOk(sid2)' BY <1>3, <1>15, <1>17, AddHolders
<1>19. DeclarationsOk'
  <2>1. DeclOk(h)'
    BY <1>9, StorageIs, <1>3, <1>5, <1>6, <1>15, <1>17 DEF SameObject, ObjectItem, IsDecl,
       DeclOk
  <2>2. ASSUME NEW f \in New, NEW d \in DOMAIN source', d # f, IsDecl(d)', IsDecl(f)',
               source'[d].name = source'[f].name, Scope(d)' = Scope(f)'
        PROVE  ScopeOk(d, f)'
    <3>1. f = h /\ d \in DOMAIN source BY <1>3, <1>17, <2>2, AddedFacts
    <3>2. source[d].name = n /\ Scope(d) = 0 /\ IsDecl(d) /\ Tag(d)' = Tag(d)
      BY <1>3, <1>15, <1>17, <2>2, <3>1, ItemSame
    <3>3. source[d].path = path BY <1>4, <3>1, <3>2, Places
    <3>4. Tag(d) # "enumerator" /\ Tag(h)' # "enumerator"
      BY <3>2, <1>3, <1>5, <1>15, <3>1, <3>3 DEF IsDecl, Declares, BesideEnumerator
    <3>5. Scope(d)' = 0 BY <1>17, <2>2, <3>1
    <3> QED BY <3>1, <3>2, <3>4, <3>5 DEF ScopeOk
  <2>3. \A e \in New : DeclOk(e)' BY <1>3, <2>1
  <2> QED BY <1>17, <2>2, <2>3, AddDeclarations
<1>20. /\ LinkedOf(n)' = LinkedOf(n) \cup {h} /\ AtFile(n)' = AtFile(n) \cup {h}
       /\ FileEnumerators(n)' = FileEnumerators(n)
       /\ SharedWithEnumerator(n) => SharedWithEnumerator(n)'
  <2>1. h \in New /\ Declares(h, n)' /\ \A e \in New : e = h BY <1>3, <1>15
  <2>2. \A e \in New : e # h /\ Declares(e, n)' => ~HasLinkage(e)' /\ ~FileScopeItem(e)' BY <2>1
  <2>3. /\ LinkedOf(n)' = LinkedOf(n) \cup (IF HasLinkage(h)' THEN {h} ELSE {})
        /\ AtFile(n)' = AtFile(n) \cup (IF FileScopeItem(h)' THEN {h} ELSE {})
        /\ FileEnumerators(n)' =
               FileEnumerators(n) \cup (IF Tag(h)' = "enumerator" /\ FileScopeItem(h)' THEN {h} ELSE {})
        /\ SharedWithEnumerator(n) => SharedWithEnumerator(n)'
    BY <1>17, <2>1, <2>2, NamesGrown
  <2> QED BY <1>15, <2>3
<1>21. InFile(n)' BY <1>20 DEF InFile
<1>22. ASSUME ~SharedWithEnumerator(n)' PROVE EntryOk(n, y)'
  <2>1. ~SharedWithEnumerator(n) BY <1>20, <1>22
  <2>2. h \in New BY <1>3
  <2>3. CASE FileScope(table, n) = None /\ FirstEntry(n, item, x)
    <3>1. ~InFile(n) BY <1>7, <2>3 DEF None
    <3>2. LinkedOf(n) = {} /\ FileEnumerators(n) = {} BY <3>1 DEF InFile
    <3>3. AtFile(n) = {} BY <3>2, AtFileIs
    <3>4. LinkedOf(n)' = {h} /\ AtFile(n)' = {h} BY <1>20, <3>2, <3>3
    <3>5. LinkedEntryOk(n, y)' BY <1>3, <1>5, <1>11, <1>17, <2>2, <2>3, <3>4, FirstObject
    <3>6. FileEnumerators(n)' = {} BY <1>20, <3>2
    <3> QED BY <3>5, <3>6 DEF EntryOk
  <2>4. CASE \E e : FileScope(table, n) = <<e>> /\ MergedEntry(e, item, x)
    <3>1. PICK e : FileScope(table, n) = <<e>> /\ MergedEntry(e, item, x) BY <2>4
    <3>2. InFile(n) /\ e \in Entries /\ EntryOk(n, e) BY <1>8, <2>1, <3>1
    <3>3. ~IsEnumerator(e) BY <3>1 DEF MergedEntry
    <3>4. FileEnumerators(n) = {}
      <4>1. ASSUME NEW d \in FileEnumerators(n) PROVE FALSE
        <5>1. e = Enumerator(n, d) BY <3>2, <4>1 DEF EntryOk
        <5>2. PICK o : o = FileName(n) OBVIOUS
        <5>3. Enumerator(n, d).value = <<d>> BY <5>2 DEF Enumerator, Entry
        <5> QED BY <3>3, <5>1, <5>3 DEF IsEnumerator, None
      <4> QED BY <4>1
    <3>5. LinkedEntryOk(n, e) BY <3>2, <3>4 DEF InFile, EntryOk
    <3>6. LinkedEntryOk(n, y)'
      BY <1>3, <1>5, <1>11, <1>17, <1>20, <2>2, <3>1, <3>2, <3>5, MergedObject
    <3>7. FileEnumerators(n)' = {} BY <1>20, <3>4
    <3> QED BY <3>6, <3>7 DEF EntryOk
  <2> QED BY <1>10, <2>3, <2>4 DEF FileEntry
<1>23. GlobalOk'
  <2>1. \A e \in New, m \in Names :
            m # n /\ Declares(e, m)' => ~HasLinkage(e)' /\ ~FileScopeItem(e)'
    BY <1>3, <1>15
  <2>2. x.object = FileName(n) BY <1>8, <1>10 DEF FileEntry, FirstEntry, MergedEntry
  <2>3. y.object = FileName(n) BY <1>12, <2>2
  <2> QED BY <1>6, <1>12, <1>17, <1>21, <1>22, <2>1, <2>3, GlobalWritten
<1>24. Books(sid2)' BY <1>17, <1>18, <1>19, <1>23
<1>25. VisitedIn(table, item, store'[Here], table') BY <1>1, <1>3, <1>9
<1> QED BY <1>24, <1>25

(* The declaration of an object, wherever it stands.                       *)
LEMMA DeclarationBooks ==
    ASSUME Good, Good', NEW sid, Books(sid), NEW item \in Offered.objects, Declaration(item), ~hasErrors'
    PROVE  /\ \E sid2 : Books(sid2)'
           /\ VisitedIn(table, item, store'[Here], table')
BY FileDeclared, ExternDeclared, LocalDeclared

-----------------------------------------------------------------------------
(* The declaration of a function.                                          *)

FunctionItem(item) ==
    /\ item.name \in Names /\ item.storage \in StorageSpecifiers /\ item.type \in FunctionTypes
    /\ item.inline \in BOOLEAN

SameFunction(e, item) ==
    /\ IsFunctionItem(e) /\ source[e].name = item.name /\ source[e].storage = item.storage
    /\ source[e].type = item.type /\ source[e].inline = item.inline

(* The entry of a function that item is the first to declare, or that has  *)
(* the entry e; "defines" if it is a definition.                           *)
FirstFunction(n, item, defines, y) ==
    /\ y \in Entries /\ y.object = FileName(n) /\ y.value = None /\ y.type = item.type
    /\ y.storage = (IF item.storage = "static" THEN "static" ELSE "global")
    /\ y.functionDefined <=> defines
    /\ y.inline <=> item.inline
    /\ y.externalNonInline <=> ~item.inline
    /\ y.functionExtern <=> item.storage = "extern"

AgainFunction(e, item, defines, y) ==
    /\ IsFunction(e) /\ Compatible(item.type, e.type)
    /\ e.storage = "static" \/ item.storage # "static"
    /\ y \in Entries /\ y.object = e.object /\ y.value = e.value /\ y.type = e.type
    /\ y.storage = e.storage
    /\ y.functionDefined <=> (e.functionDefined \/ defines)
    /\ y.inline <=> (e.inline \/ item.inline)
    /\ y.externalNonInline <=> (e.externalNonInline \/ ~item.inline)
    /\ y.functionExtern <=> (e.functionExtern \/ item.storage = "extern")

RegisteredEntry(t, n, item, defines, y) ==
    \/ FileScope(t, n) = None /\ FirstFunction(n, item, defines, y)
    \/ \E e : FileScope(t, n) = <<e>> /\ AgainFunction(e, item, defines, y)

Specified(e, isInline, isExtern, y) ==
    /\ y \in Entries /\ y.object = e.object /\ y.value = e.value /\ y.type = e.type
    /\ y.storage = e.storage /\ (y.functionDefined <=> e.functionDefined)
    /\ y.inline <=> (e.inline \/ isInline)
    /\ y.externalNonInline <=> (e.externalNonInline \/ ~isInline)
    /\ y.functionExtern <=> (e.functionExtern \/ isExtern)

LEMMA SpecifiersSet ==
    ASSUME NEW e \in Entries, NEW i \in BOOLEAN, NEW x \in BOOLEAN
    PROVE  Specified(e, i, x, WithSpecifiers(e, i, x))
BY DEF Entries, WithSpecifiers, Specified

LEMMA SpecifiersApplied ==
    ASSUME NEW t, TableRecord(t), NEW n, NEW key, key = <<0, n>>, key \in DOMAIN t.global,
           NEW e \in Entries, t.global[key] = e, NEW i \in BOOLEAN, NEW x \in BOOLEAN
    PROVE  \E y : /\ FileWritten(t, ApplyFunctionSpecifiers(t, n, i, x), key, y)
                  /\ Specified(e, i, x, y)
BY SpecifiersSet, WrittenAgain DEF FileScope, At, ApplyFunctionSpecifiers, WithFile

LEMMA Registration ==
    ASSUME NEW t, TableRecord(t), NEW item, FunctionItem(item), NEW n, n = item.name,
           \A e : FileScope(t, n) = <<e>> => e \in Entries,
           HasFunction(t, n) \/ FileScope(t, n) = None, Redeclares(t, item)
    PROVE  \E y : /\ FileWritten(t, Registered(t, item), <<0, n>>, y)
                  /\ RegisteredEntry(t, n, item, FALSE, y)
<1>1. PICK i, x : i = item.inline /\ x = (item.storage = "extern") OBVIOUS
<1>2. i \in BOOLEAN /\ x \in BOOLEAN BY <1>1 DEF FunctionItem
<1>3. PICK key : key = <<0, n>> OBVIOUS
<1>4. PICK type : type = item.type OBVIOUS
<1>5. CASE FileScope(t, n) = None
  <2>1. ~HasFunction(t, n) BY <1>5 DEF HasFunction
  <2>2. PICK s : s = IF item.storage = "static" THEN "static" ELSE "global" OBVIOUS
  <2>3. PICK o : o = FileName(n) OBVIOUS
  <2>4. PICK e : e = Entry(o, type, s) OBVIOUS
  <2>5. /\ o \in Homes /\ type \in ObjectTypes \cup FunctionTypes /\ s \in Storages
    BY <2>3, HomesAre, <1>4, <2>2 DEF FunctionItem, Storages
  <2>6. e \in Entries /\ e.object = o /\ e.type = type /\ e.storage = s /\ e.value = None
    BY <2>4, <2>5, EntryIs
  <2>7. /\ e.functionDefined = FALSE /\ e.inline = FALSE /\ e.externalNonInline = FALSE
        /\ e.functionExtern = FALSE
    BY ONLY <2>4 DEF Entry
  <2>8. key \notin DOMAIN t.global BY <1>3, <1>5 DEF None, FileScope, At
  <2>9. PICK u : u = [t EXCEPT !.global = With(@, key, e)] OBVIOUS
  <2>10. FileWritten(t, u, key, e) BY <2>9, WrittenWith
  <2>11. InsertFunction(t, n, type, item.storage = "static") = u
    BY <2>8, <2>9, <2>2, <2>3, <2>4, <1>3 DEF Insert, InsertFunction
  <2>12. Registered(t, item) = ApplyFunctionSpecifiers(u, n, i, x)
    BY <1>1, <1>4, <2>1, <2>11 DEF Registered
  <2>13. TableRecord(u) /\ key \in DOMAIN u.global /\ u.global[key] = e
    BY <2>10 DEF FileWritten
  <2>14. PICK y : FileWritten(u, ApplyFunctionSpecifiers(u, n, i, x), key, y) /\ Specified(e, i, x, y)
    BY <1>2, <1>3, <2>6, <2>13, SpecifiersApplied
  <2>15. FileWritten(t, Registered(t, item), key, y) BY <2>10, <2>12, <2>14, WrittenTwice
  <2>16. FirstFunction(n, item, FALSE, y)
    BY <1>1, <1>4, <2>2, <2>3, <2>6, <2>7, <2>14 DEF FirstFunction, Specified
  <2> QED BY <1>3, <1>5, <2>15, <2>16 DEF RegisteredEntry
<1>6. CASE FileScope(t, n) # None
  <2>1. key \in DOMAIN t.global /\ FileScope(t, n) = <<t.global[key]>>
    BY <1>3, <1>6 DEF FileScope, At
  <2>2. PICK e : e = t.global[key] OBVIOUS
  <2>3. FileScope(t, n) = <<e>> /\ FileScope(t, n)[1] = e /\ e \in Entries BY <2>1, <2>2
  <2>4. HasFunction(t, n) BY <1>6
  <2>5. IsFunction(e) BY <2>3, <2>4 DEF HasFunction
  <2>6. Compatible(item.type, e.type) /\ (e.storage = "static" \/ item.storage # "static")
    BY <2>3, <2>4 DEF Redeclares
  <2>7. Registered(t, item) = ApplyFunctionSpecifiers(t, n, i, x)
    BY <1>1, <2>4 DEF Registered
  <2>8. PICK y : FileWritten(t, ApplyFunctionSpecifiers(t, n, i, x), key, y) /\ Specified(e, i, x, y)
    BY <1>2, <1>3, <2>1, <2>2, <2>3, SpecifiersApplied
  <2>9. AgainFunction(e, item, FALSE, y)
    BY <1>1, <2>5, <2>6, <2>8 DEF AgainFunction, Specified
  <2> QED BY <1>3, <2>3, <2>7, <2>8, <2>9 DEF RegisteredEntry
<1> QED BY <1>5, <1>6

LEMMA FunctionTypesApart ==
    ASSUME NEW a \in FunctionTypes, NEW b, Compatible(a, b)
    PROVE  a = b /\ Compatible(a, a) /\ Compatible(b, a)
BY DEF FunctionTypes, Compatible, Composite, None

LEMMA FirstFunctionOk ==
    ASSUME NEW h, NEW item, SameFunction(h, item)', FunctionItem(item), NEW n,
           LinkedOf(n)' = {h}, NEW defines \in BOOLEAN, defines = (Tag(h)' = "definition"),
           NEW y, FirstFunction(n, item, defines, y)
    PROVE  LinkedEntryOk(n, y)'
<1>1. /\ y.object = FileName(n) /\ y.value = None /\ y.type = item.type
      /\ y.storage = (IF item.storage = "static" THEN "static" ELSE "global")
      /\ y.functionDefined <=> defines
      /\ y.inline <=> item.inline
      /\ y.externalNonInline <=> ~item.inline
      /\ y.functionExtern <=> item.storage = "extern"
  BY DEF FirstFunction
<1>2. /\ IsFunctionItem(h)' /\ source'[h].storage = item.storage /\ TypeOfAny(h)' = item.type
      /\ source'[h].inline = item.inline
  BY DEF SameFunction, TypeOfAny
<1>3. IsFunction(y) /\ Compatible(y.type, item.type)
  BY <1>1 DEF IsFunction, FunctionItem, Compatible, Composite, None
<1>4. FunctionEntryOk(n, y)' BY <1>1, <1>2 DEF FunctionEntryOk
<1>5. \A d \in LinkedOf(n)' : (IsFunction(y) <=> IsFunctionItem(d)') /\ Compatible(y.type, TypeOfAny(d)')
  BY <1>2, <1>3
<1>6. (y.storage = "static" <=> \E d \in LinkedOf(n) : source[d].storage = "static")'
  BY <1>1, <1>2
<1> QED BY <1>1, <1>3, <1>4, <1>5, <1>6 DEF LinkedEntryOk

LEMMA AgainFunctionOk ==
    ASSUME NEW sid, NEW sid2, Adding(sid, sid2), NEW h, NEW item, SameFunction(h, item)',
           FunctionItem(item), NEW n, LinkedOf(n)' = LinkedOf(n) \cup {h},
           NEW defines \in BOOLEAN, defines = (Tag(h)' = "definition"),
           NEW e \in Entries, LinkedEntryOk(n, e), ~(e.functionDefined /\ defines),
           NEW y, AgainFunction(e, item, defines, y)
    PROVE  LinkedEntryOk(n, y)'
<1>1. /\ IsFunction(e) /\ Compatible(item.type, e.type)
      /\ e.storage = "static" \/ item.storage # "static"
      /\ y.object = e.object /\ y.value = e.value /\ y.type = e.type
      /\ y.storage = e.storage
      /\ y.functionDefined <=> (e.functionDefined \/ defines)
      /\ y.inline <=> (e.inline \/ item.inline)
      /\ y.externalNonInline <=> (e.externalNonInline \/ ~item.inline)
      /\ y.functionExtern <=> (e.functionExtern \/ item.storage = "extern")
  BY DEF AgainFunction
<1>2. /\ IsFunctionItem(h)' /\ source'[h].storage = item.storage /\ TypeOfAny(h)' = item.type
      /\ source'[h].inline = item.inline
  BY DEF SameFunction, TypeOfAny
<1>3. /\ e.value = None /\ e.object = FileName(n)
      /\ \A d \in LinkedOf(n) : IsFunctionItem(d) /\ Compatible(e.type, TypeOfAny(d))
      /\ e.storage = "static" <=> \E d \in LinkedOf(n) : source[d].storage = "static"
      /\ FunctionEntryOk(n, e)
  BY <1>1 DEF LinkedEntryOk
<1>4. \A d \in LinkedOf(n) :
          /\ source'[d] = source[d] /\ Tag(d)' = Tag(d)
          /\ (IsFunctionItem(d)' <=> IsFunctionItem(d)) /\ TypeOfAny(d)' = TypeOfAny(d)
  BY LinkedOld
<1>5. e.type = item.type /\ Compatible(y.type, item.type)
  BY <1>1, FunctionTypesApart DEF FunctionItem
<1>6. IsFunction(y) BY <1>1 DEF IsFunction
<1>7. FunctionEntryOk(n, y)'
  <2>1. /\ e.storage \in {"static", "global"}
        /\ e.functionDefined <=> \E d \in LinkedOf(n) : Tag(d) = "definition"
        /\ \A d, c \in LinkedOf(n) : Tag(d) = "definition" /\ Tag(c) = "definition" => d = c
        /\ e.inline <=> \E d \in LinkedOf(n) : source[d].inline
        /\ e.externalNonInline <=> \E d \in LinkedOf(n) : ~source[d].inline
        /\ e.functionExtern <=> \E d \in LinkedOf(n) : source[d].storage = "extern"
    BY <1>3 DEF FunctionEntryOk
  <2>2. y.functionDefined <=> \E d \in LinkedOf(n)' : Tag(d)' = "definition" BY <1>1, <1>4, <2>1
  <2>3. \A d, c \in LinkedOf(n)' : Tag(d)' = "definition" /\ Tag(c)' = "definition" => d = c
    BY <1>4, <2>1
  <2>4. y.inline <=> \E d \in LinkedOf(n)' : source'[d].inline BY <1>1, <1>2, <1>4, <2>1
  <2>5. y.externalNonInline <=> \E d \in LinkedOf(n)' : ~source'[d].inline BY <1>1, <1>2, <1>4, <2>1
  <2>6. y.functionExtern <=> \E d \in LinkedOf(n)' : source'[d].storage = "extern"
    BY <1>1, <1>2, <1>4, <2>1
  <2>7. y.storage \in {"static", "global"} BY <1>1, <2>1
  <2> QED BY <2>2, <2>3, <2>4, <2>5, <2>6, <2>7 DEF FunctionEntryOk
<1>8. \A d \in LinkedOf(n)' : (IsFunction(y) <=> IsFunctionItem(d)') /\ Compatible(y.type, TypeOfAny(d)')
  BY <1>1, <1>2, <1>3, <1>4, <1>5, <1>6
<1>9. (y.storage = "static" <=> \E d \in LinkedOf(n) : source[d].storage = "static")'
  BY <1>1, <1>2, <1>3, <1>4
<1> QED BY <1>1, <1>3, <1>6, <1>7, <1>8, <1>9 DEF LinkedEntryOk

LEMMA RegisteredObject ==
    ASSUME NEW sid, Books(sid), NEW n \in Names, NEW item, NEW defines, NEW y,
           RegisteredEntry(table, n, item, defines, y)
    PROVE  y.object = FileName(n)
<1>1. FileScope(table, n) = IF InFile(n) THEN <<table.global[<<0, n>>]>> ELSE None BY FoundInFile
<1>2. \A e : <<e>> # None BY DEF None
<1>3. CASE FileScope(table, n) = None /\ FirstFunction(n, item, defines, y)
  BY <1>3 DEF FirstFunction
<1>4. CASE \E e : FileScope(table, n) = <<e>> /\ AgainFunction(e, item, defines, y)
  BY <1>4, <1>1, <1>2 DEF Books, GlobalOk, AgainFunction
<1> QED BY <1>3, <1>4 DEF RegisteredEntry

(* The entry of the file after a function is declared at h.                *)
LEMMA FunctionEntryIs ==
    ASSUME NEW sid, NEW sid2, Adding(sid, sid2), NEW h \in New, NEW item, SameFunction(h, item)',
           FunctionItem(item), NEW n, n = item.name,
           \A e \in New : e # h => ~HasLinkage(e)' /\ ~FileScopeItem(e)',
           NEW defines \in BOOLEAN, defines = (Tag(h)' = "definition"),
           \A e : FileScope(table, n) = <<e>> => ~(e.functionDefined /\ defines),
           NEW y, RegisteredEntry(table, n, item, defines, y)
    PROVE  /\ InFile(n)' /\ y \in Entries
           /\ ~SharedWithEnumerator(n)' => LinkedEntryOk(n, y)' /\ EntryOk(n, y)'
<1>1. Good /\ Books(sid) /\ GlobalOk BY AddedFacts DEF Books
<1>2. n \in Names BY DEF FunctionItem
<1>3. IsFunctionItem(h)' /\ Declares(h, n)' /\ HasLinkage(h)' /\ Tag(h)' # "enumerator"
  BY DEF SameFunction, IsFunctionItem, Declares, HasLinkage
<1>4. \A e \in New : e # h /\ Declares(e, n)' => ~HasLinkage(e)' /\ ~FileScopeItem(e)' OBVIOUS
<1>5. /\ LinkedOf(n)' = LinkedOf(n) \cup (IF HasLinkage(h)' THEN {h} ELSE {})
      /\ FileEnumerators(n)' =
             FileEnumerators(n) \cup (IF Tag(h)' = "enumerator" /\ FileScopeItem(h)' THEN {h} ELSE {})
      /\ SharedWithEnumerator(n) => SharedWithEnumerator(n)'
  BY <1>3, <1>4, NamesGrown
<1>6. LinkedOf(n)' = LinkedOf(n) \cup {h} /\ FileEnumerators(n)' = FileEnumerators(n) BY <1>3, <1>5
<1>7. InFile(n)' BY <1>6 DEF InFile
<1>8. y \in Entries BY DEF RegisteredEntry, FirstFunction, AgainFunction
<1>9. FileScope(table, n) = IF InFile(n) THEN <<table.global[<<0, n>>]>> ELSE None
  BY <1>1, <1>2, FoundInFile
<1>10. \A e : <<e>> # None BY DEF None
<1>11. ASSUME ~SharedWithEnumerator(n)' PROVE LinkedEntryOk(n, y)' /\ EntryOk(n, y)'
  <2>1. CASE FileScope(table, n) = None /\ FirstFunction(n, item, defines, y)
    BY <1>9, <1>10, <2>1, <1>6, FirstFunctionOk DEF InFile, EntryOk
  <2>2. CASE \E e : FileScope(table, n) = <<e>> /\ AgainFunction(e, item, defines, y)
    <3>1. PICK e : FileScope(table, n) = <<e>> /\ AgainFunction(e, item, defines, y) BY <2>2
    <3>2. InFile(n) /\ e = table.global[<<0, n>>] BY <1>9, <1>10, <3>1
    <3>3. e \in Entries /\ EntryOk(n, e) BY <1>1, <1>2, <1>5, <1>11, <3>2 DEF GlobalOk
    <3>4. FileEnumerators(n) = {}
      BY <3>3, <3>1 DEF EntryOk, Enumerator, Entry, AgainFunction, IsFunction, FunctionTypes
    <3>5. LinkedEntryOk(n, e) BY <3>2, <3>3, <3>4 DEF InFile, EntryOk
    <3>6. LinkedEntryOk(n, y)' BY <1>6, <3>1, <3>3, <3>5, AgainFunctionOk
    <3>7. FileEnumerators(n)' = {} BY <1>6, <3>4
    <3> QED BY <3>6, <3>7 DEF EntryOk
  <2> QED BY <2>1, <2>2 DEF RegisteredEntry
<1> QED BY <1>7, <1>8, <1>11

(* What stands in the scope that is open has the path that is open.        *)
LEMMA BesidePath ==
    ASSUME Good, TreeOk, NEW d \in DOMAIN source, Scope(d) = (IF path = <<>> THEN 0 ELSE Last(path))
    PROVE  source[d].path = path
<1>1. /\ path \in Seq(Nat) /\ Len(path) \in Nat /\ DOMAIN path = 1 .. Len(path)
      /\ \A k \in DOMAIN path : path[k] \in DOMAIN source
  BY Places
<1>2. CASE path = <<>> BY <1>2, Places
<1>3. CASE path # <<>>
  <2>1. PICK p : p = path OBVIOUS
  <2>2. Len(p) >= 1 BY <1>1, <1>3, <2>1
  <2>3. PICK k : k = Len(path) OBVIOUS
  <2>4. k \in DOMAIN path /\ Scope(d) = path[k] BY <1>1, <1>3, <2>1, <2>2, <2>3 DEF Last
  <2>5. source[d].path = SubSeq(path, 1, k) BY <2>4, PathOfScope
  <2>6. SubSeq(p, 1, Len(p)) = p BY <1>1, <2>1
  <2> QED BY <2>1, <2>3, <2>5, <2>6
<1> QED BY <1>2, <1>3

LEMMA OfferedFunction ==
    ASSUME Good, NEW item \in Offered.prototypes \cup Offered.definitions
    PROVE  /\ FunctionItem(item) /\ item.what = "prototype"
           /\ DOMAIN item = {"what", "name", "storage", "inline", "type"}
BY MenusAssumption DEF Good, TypesOk, Offered, Functions, FunctionItem

LEMMA FunctionWritten ==
    ASSUME NEW item, DOMAIN item = {"what", "name", "storage", "inline", "type"}
    PROVE  /\ Written(item).what = item.what /\ Written(item).name = item.name
           /\ Written(item).storage = item.storage /\ Written(item).type = item.type
           /\ Written(item).inline = item.inline /\ Written(item).path = path
BY DEF Written

LEMMA PrototypeFacts ==
    ASSUME Good, NEW item \in Offered.prototypes, NEW h, h = Here, Prototype(item), ~hasErrors'
    PROVE  /\ Grows /\ New = {h} /\ \A d \in DOMAIN source : store'[d] = store[d]
           /\ h \in Nat /\ h # 0 /\ h \notin DOMAIN source
           /\ source'[h].what = "prototype" /\ SameFunction(h, item)' /\ source'[h].path = path
           /\ FunctionItem(item)
           /\ HasFunction(table, item.name) \/ FileScope(table, item.name) = None
           /\ Redeclares(table, item) /\ table' = Registered(table, item)
           /\ path' = path /\ frames' = frames
           /\ path = <<>> \/ Open({"definition", "block"})
           /\ ~BesideEnumerator(item.name)
<1>1. /\ Write(<<Written(item)>>, <<NoNote>>) /\ path' = path /\ frames' = frames
      /\ DeclarationAllowed /\ ~BesideEnumerator(item.name)
      /\ HasFunction(table, item.name) \/ FileScope(table, item.name) = None
      /\ Redeclares(table, item) /\ table' = Registered(table, item)
  BY DEF Prototype
<1>2. PICK it, note : it = Written(item) /\ note = NoNote OBVIOUS
<1>3. source' = source \o <<it>> /\ store' = store \o <<note>> BY <1>1, <1>2 DEF Write
<1>4. /\ Grows /\ DOMAIN source' \ DOMAIN source = {h}
      /\ \A d \in DOMAIN source : store'[d] = store[d]
      /\ source'[h] = it
  BY <1>3, AddedOne
<1>5. /\ FunctionItem(item) /\ item.what = "prototype"
      /\ DOMAIN item = {"what", "name", "storage", "inline", "type"}
  BY OfferedFunction
<1>6. source'[h].what = "prototype" /\ SameFunction(h, item)' /\ source'[h].path = path
  BY <1>2, <1>4, <1>5, FunctionWritten DEF SameFunction, Tag, IsFunctionItem
<1>7. h \in Nat /\ h # 0 /\ h \notin DOMAIN source BY JumpsType DEF Here
<1>8. path = <<>> \/ Open({"definition", "block"}) BY <1>1 DEF DeclarationAllowed
<1> QED BY <1>1, <1>4, <1>5, <1>6, <1>7, <1>8 DEF New

LEMMA PrototypeBooks ==
    ASSUME Good, Good', NEW sid, Books(sid), NEW item \in Offered.prototypes, Prototype(item), ~hasErrors'
    PROVE  \E sid2 : Books(sid2)'
<1>1. PICK h : h = Here OBVIOUS
<1>2. /\ Grows /\ New = {h} /\ \A d \in DOMAIN source : store'[d] = store[d]
      /\ h \in Nat /\ h # 0 /\ h \notin DOMAIN source
      /\ source'[h].what = "prototype" /\ SameFunction(h, item)' /\ source'[h].path = path
      /\ FunctionItem(item)
      /\ HasFunction(table, item.name) \/ FileScope(table, item.name) = None
      /\ Redeclares(table, item) /\ table' = Registered(table, item)
      /\ path' = path /\ frames' = frames
      /\ path = <<>> \/ Open({"definition", "block"})
      /\ ~BesideEnumerator(item.name)
  BY <1>1, PrototypeFacts
<1>3. /\ TableRecord(table) /\ table.nextScopeId \in Nat /\ GlobalOk /\ TreeOk
  BY DEF Books, TableOk, TableRecord
<1>4. PICK n : n = item.name OBVIOUS
<1>5. n \in Names BY <1>2, <1>4 DEF FunctionItem
<1>6. \A e : FileScope(table, n) = <<e>> => e \in Entries
  <2>1. FileScope(table, n) = IF InFile(n) THEN <<table.global[<<0, n>>]>> ELSE None
    BY <1>5, FoundInFile
  <2>2. \A e : <<e>> # None BY DEF None
  <2> QED BY <1>3, <1>5, <2>1, <2>2 DEF GlobalOk
<1>7. PICK y : /\ FileWritten(table, table', <<0, n>>, y)
               /\ RegisteredEntry(table, n, item, FALSE, y)
  BY <1>2, <1>3, <1>4, <1>6, Registration
<1>8. FileOnly BY <1>7 DEF FileOnly, FileWritten
<1>9. PICK sid2 : Continues(sid, sid2) BY DEF Continues
<1>10. /\ Tag(h)' = "prototype" /\ IsFunctionItem(h)' /\ HasLinkage(h)' /\ ~HasObject(h)' /\ IsDecl(h)'
       /\ source'[h].name = n /\ \A m : Declares(h, m)' <=> m = n
  BY <1>2, <1>4 DEF Tag, IsFunctionItem, HasLinkage, HasObject, IsDecl, Declares, SameFunction
<1>11. /\ Adding(sid, sid2) /\ Scope(h)' = (IF path = <<>> THEN 0 ELSE Last(path))
       /\ Scope(h)' # 0 => Opens(Scope(h))'
       /\ path # <<>> => /\ ScopesOk(sid2)' /\ ValuesOk(sid, OpenFunction(table))
                         /\ \E ids : ids = OpenFunction(table).blockIds /\ IdsOk(sid2, ids)'
       /\ path = <<>> => (DeclarationsOk' /\ HoldersOk(sid2)' /\ GlobalOk' => Books(sid2)')
  BY <1>1, <1>2, <1>8, <1>9, FileAdding, OpenFunctionIs, InsideAdding DEF FileOnly
<1>12. HoldersOk(sid2)' BY <1>2, <1>10, <1>11, AddHolders
<1>13. DeclarationsOk'
  <2>1. DeclOk(h)' BY <1>2, <1>10, <1>11 DEF FunctionItem, SameFunction, DeclOk
  <2>2. ASSUME NEW f \in New, NEW d \in DOMAIN source', d # f, IsDecl(d)', IsDecl(f)',
               source'[d].name = source'[f].name, Scope(d)' = Scope(f)'
        PROVE  ScopeOk(d, f)'
    <3>1. f = h /\ d \in DOMAIN source BY <1>2, <1>11, <2>2, AddedFacts
    <3>2. source[d].name = n /\ Scope(d) = Scope(h)' /\ IsDecl(d) /\ Tag(d)' = Tag(d)
      BY <1>2, <1>10, <2>2, <3>1, ItemSame
    <3>3. source[d].path = path BY <1>3, <1>11, <3>1, <3>2, BesidePath
    <3>4. Tag(d) # "enumerator"
      BY <3>2, <1>2, <1>4, <3>1, <3>3 DEF IsDecl, Declares, BesideEnumerator
    <3>5. Tag(h)' = "prototype" /\ Tag(h)' # "enumerator" BY <1>10
    <3> QED BY <3>1, <3>2, <3>4, <3>5 DEF ScopeOk
  <2>3. \A e \in New : DeclOk(e)' BY <1>2, <2>1
  <2> QED BY <1>11, <2>2, <2>3, AddDeclarations
<1>14. GlobalOk'
  <2>1. h \in New /\ \A e \in New : e = h BY <1>2
  <2>2. FALSE \in BOOLEAN /\ FALSE = (Tag(h)' = "definition") BY <1>10
  <2>3. /\ InFile(n)' /\ y \in Entries
        /\ ~SharedWithEnumerator(n)' => LinkedEntryOk(n, y)' /\ EntryOk(n, y)'
    BY <1>2, <1>4, <1>7, <1>11, <2>1, <2>2, FunctionEntryIs
  <2>4. \A e \in New, m \in Names :
            m # n /\ Declares(e, m)' => ~HasLinkage(e)' /\ ~FileScopeItem(e)'
    BY <1>2, <1>10
  <2>5. y.object = FileName(n) BY <1>5, <1>7, RegisteredObject
  <2> QED BY <1>5, <1>7, <1>11, <2>3, <2>4, <2>5, GlobalWritten
<1>15. CASE path = <<>> BY <1>11, <1>12, <1>13, <1>14, <1>15
<1>16. CASE path # <<>>
  <2>1. PICK fn : fn = OpenFunction(table) OBVIOUS
  <2>2. table.function = <<fn>> /\ FunctionRecord(fn)
    BY <1>16, <2>1, OpenFunctionIs DEF FunctionRecord
  <2>3. PICK fn2 : fn2 = fn OBVIOUS
  <2>4. table'.function = <<fn2>> BY <1>8, <2>2, <2>3 DEF FileOnly
  <2>5. \A e \in New : source'[e].what \notin {"object", "enumerator"} /\ source'[e].what # "parameter"
    BY <1>2
  <2>6. ValuesOk(sid2, fn2)' BY <1>11, <1>16, <2>1, <2>3, <2>5, ValuesSame
  <2>7. IdsOk(sid2, fn2.blockIds)' BY <1>11, <1>16, <2>1, <2>3
  <2>8. fn2 = [values |-> fn2.values, arguments |-> OpenFunction(table).arguments,
               blockIds |-> fn2.blockIds, function |-> OpenFunction(table).function]
    BY <2>1, <2>2, <2>3 DEF FunctionRecord
  <2>9. Books(sid2)'
    BY <1>2, <1>8, <1>11, <1>12, <1>13, <1>14, <1>16, <2>4, <2>5, <2>6, <2>7, <2>8, BooksInside
    DEF FileOnly
  <2> QED BY <2>9
<1> QED BY <1>15, <1>16

-----------------------------------------------------------------------------
(* Enumerators.                                                            *)

LEMMA EnumeratorIs ==
    ASSUME NEW n \in Names, NEW h \in Nat, NEW e, e = Enumerator(n, h)
    PROVE  e \in Entries
BY HomesAre, EntryIs DEF ObjectTypes, Storages, Enumerator, Entries, Optional

LEMMA EnumeratorFacts ==
    ASSUME Good, NEW n \in Offered.names, NEW h, h = Here, EnumSpecifier(n)
    PROVE  /\ n \in Names /\ Grows /\ New = {h} /\ \A d \in DOMAIN source : store'[d] = store[d]
           /\ h \in Nat /\ h # 0 /\ h \notin DOMAIN source
           /\ source'[h].what = "enumerator" /\ source'[h].name = n /\ source'[h].path = path
           /\ path' = path /\ frames' = frames
           /\ path = <<>> \/ Open({"definition", "block"})
           /\ \A d \in DOMAIN source : Declares(d, n) => source[d].path # path
           /\ InsertEnumerator(table, n, h) = {} => table' = table
           /\ \A t : InsertEnumerator(table, n, h) = {t} => table' = t
<1>1. PICK item : item = [what |-> "enumerator", name |-> n] OBVIOUS
<1>2. /\ Write(<<Written(item)>>, <<NoNote>>) /\ path' = path /\ frames' = frames
      /\ DeclarationAllowed /\ \A d \in DOMAIN source : Declares(d, n) => source[d].path # path
      /\ table' = (IF InsertEnumerator(table, n, h) = {} THEN table
                   ELSE CHOOSE t \in InsertEnumerator(table, n, h) : TRUE)
  BY <1>1 DEF EnumSpecifier
<1>3. PICK it, note : it = Written(item) /\ note = NoNote OBVIOUS
<1>4. source' = source \o <<it>> /\ store' = store \o <<note>> BY <1>2, <1>3 DEF Write
<1>5. /\ Grows /\ DOMAIN source' \ DOMAIN source = {h}
      /\ \A d \in DOMAIN source : store'[d] = store[d]
      /\ source'[h] = it
  BY <1>4, AddedOne
<1>6. it.what = "enumerator" /\ it.name = n /\ it.path = path BY <1>1, <1>3 DEF Written
<1>7. h \in Nat /\ h # 0 /\ h \notin DOMAIN source BY JumpsType DEF Here
<1>8. path = <<>> \/ Open({"definition", "block"}) BY <1>2 DEF DeclarationAllowed
<1>9. n \in Names BY MenusAssumption DEF Good, TypesOk, Offered
<1>10. \A t : (CHOOSE u \in {t} : TRUE) = t /\ {t} # {} OBVIOUS
<1>11. \A t : InsertEnumerator(table, n, h) = {t} => table' = t BY <1>2, <1>10
<1> QED BY <1>2, <1>5, <1>6, <1>7, <1>8, <1>9, <1>11 DEF New

LEMMA EnumeratorOfFile ==
    ASSUME NEW t, TableRecord(t), t.function = None, NEW n, NEW h, NEW key, key = <<0, n>>,
           NEW e, e = Enumerator(n, h)
    PROVE  /\ key \in DOMAIN t.global => InsertEnumerator(t, n, h) = {} /\ FileWritten(t, t, key, t.global[key])
           /\ key \notin DOMAIN t.global =>
                  \E u : InsertEnumerator(t, n, h) = {u} /\ FileWritten(t, u, key, e)
<1>1. IsAtFileScope(t) BY DEF IsAtFileScope
<1>2. InsertEnumerator(t, n, h) = {[t EXCEPT !.global = g] : g \in Insert(t.global, key, e)}
  BY <1>1 DEF InsertEnumerator
<1>3. ASSUME key \in DOMAIN t.global
      PROVE  InsertEnumerator(t, n, h) = {} /\ FileWritten(t, t, key, t.global[key])
  BY <1>3, <1>2 DEF Insert, FileWritten
<1>4. ASSUME key \notin DOMAIN t.global
      PROVE  \E u : InsertEnumerator(t, n, h) = {u} /\ FileWritten(t, u, key, e)
  BY <1>4, <1>2, WrittenWith DEF Insert
<1> QED BY <1>3, <1>4

LEMMA EnumeratorDeclared ==
    ASSUME NEW sid, NEW sid2, Adding(sid, sid2), NEW h, New = {h}, NEW n \in Names,
           source'[h].what = "enumerator", source'[h].name = n,
           Scope(h)' = (IF path = <<>> THEN 0 ELSE Last(path)), Scope(h)' # 0 => Opens(Scope(h))',
           \A d \in DOMAIN source : Declares(d, n) => source[d].path # path
    PROVE  DeclarationsOk' /\ HoldersOk(sid2)'
BY AddedFacts, ItemSame, BesidePath, AddDeclarations, AddHolders DEF Tag, IsFunctionItem,
   HasObject, IsDecl, DeclOk, Declares

LEMMA FileEnumeratorBooks ==
    ASSUME Good, Good', NEW sid, Books(sid), NEW n \in Offered.names, EnumSpecifier(n), path = <<>>
    PROVE  \E sid2 : Books(sid2)'
<1>1. PICK h : h = Here OBVIOUS
<1>2. /\ n \in Names /\ Grows /\ New = {h} /\ \A d \in DOMAIN source : store'[d] = store[d]
      /\ h \in Nat /\ h # 0 /\ h \notin DOMAIN source
      /\ source'[h].what = "enumerator" /\ source'[h].name = n /\ source'[h].path = path
      /\ path' = path /\ frames' = frames
      /\ \A d \in DOMAIN source : Declares(d, n) => source[d].path # path
      /\ InsertEnumerator(table, n, h) = {} => table' = table
      /\ \A t : InsertEnumerator(table, n, h) = {t} => table' = t
  BY <1>1, EnumeratorFacts
<1>3. TableRecord(table) /\ table.function = None /\ GlobalOk /\ TreeOk
  BY DEF Books, TableOk, TableRecord
<1>4. PICK key : key = <<0, n>> OBVIOUS
<1>5. PICK e : e = Enumerator(n, h) OBVIOUS
<1>6. e \in Entries BY <1>2, <1>5, EnumeratorIs
<1>7. key \in DOMAIN table.global <=> InFile(n) BY <1>3, <1>2, <1>4 DEF GlobalOk
<1>8. /\ InFile(n) => FileWritten(table, table', key, table.global[key])
      /\ ~InFile(n) => FileWritten(table, table', key, e)
  <2>1. PICK t : t = table OBVIOUS
  <2>2. TableRecord(t) /\ t.function = None BY <1>3, <2>1
  <2>3. /\ key \in DOMAIN t.global =>
               InsertEnumerator(t, n, h) = {} /\ FileWritten(t, t, key, t.global[key])
        /\ key \notin DOMAIN t.global =>
               \E u : InsertEnumerator(t, n, h) = {u} /\ FileWritten(t, u, key, e)
    BY ONLY <1>4, <1>5, <2>2, EnumeratorOfFile
  <2> QED BY <1>2, <1>7, <2>1, <2>3
<1>9. FileOnly BY <1>8 DEF FileOnly, FileWritten
<1>10. PICK sid2 : Continues(sid, sid2) BY DEF Continues
<1>11. /\ Adding(sid, sid2) /\ Scope(h)' = 0 /\ FileScopeItem(h)'
       /\ DeclarationsOk' /\ HoldersOk(sid2)' /\ GlobalOk' => Books(sid2)'
  BY <1>1, <1>2, <1>9, <1>10, FileAdding
<1>12. DeclarationsOk' /\ HoldersOk(sid2)' BY <1>2, <1>11, EnumeratorDeclared
<1>13. /\ Tag(h)' = "enumerator" /\ ~HasLinkage(h)' /\ \A m : Declares(h, m)' <=> m = n
  BY <1>2 DEF Tag, HasLinkage, IsFunctionItem, Declares
<1>14. /\ LinkedOf(n)' = LinkedOf(n) /\ FileEnumerators(n)' = FileEnumerators(n) \cup {h}
       /\ AtFile(n) = {} /\ FileEnumerators(n) = {}
  <2>1. h \in New /\ Declares(h, n)' /\ \A f \in New : f = h BY <1>2, <1>13
  <2>2. \A f \in New : f # h /\ Declares(f, n)' => ~HasLinkage(f)' /\ ~FileScopeItem(f)' BY <2>1
  <2>3. /\ LinkedOf(n)' = LinkedOf(n) \cup (IF HasLinkage(h)' THEN {h} ELSE {})
        /\ FileEnumerators(n)' =
               FileEnumerators(n) \cup (IF Tag(h)' = "enumerator" /\ FileScopeItem(h)' THEN {h} ELSE {})
    BY <1>11, <2>1, <2>2, NamesGrown
  <2>4. \A d \in Declarations(n) : ~FileScopeItem(d) BY <1>2 DEF Declarations, FileScopeItem
  <2> QED BY <1>11, <1>13, <2>3, <2>4 DEF AtFile, FileEnumerators
<1>15. InFile(n)' BY <1>14 DEF InFile
<1>16. \A f \in New, m \in Names :
           m # n /\ Declares(f, m)' => ~HasLinkage(f)' /\ ~FileScopeItem(f)'
  BY <1>2, <1>13
<1>17. CASE InFile(n)
  <2>1. PICK x : x = table.global[key] OBVIOUS
  <2>2. x \in Entries /\ x.object = FileName(n) /\ FileWritten(table, table', <<0, n>>, x)
    BY <1>2, <1>3, <1>4, <1>8, <1>17, <2>1 DEF GlobalOk
  <2>3. SharedWithEnumerator(n)'
    BY <1>14, <1>17, <1>2, ItemSame DEF InFile, LinkedOf, AtFile, Declarations, LinkedInBlock,
       SharedWithEnumerator, FileEnumerators
  <2>4. GlobalOk' BY <1>2, <1>11, <1>15, <1>16, <2>2, <2>3, GlobalWritten
  <2> QED BY <1>11, <1>12, <2>4
<1>18. CASE ~InFile(n)
  <2>1. LinkedOf(n)' = {} /\ FileEnumerators(n)' = {h} BY <1>14, <1>18 DEF InFile
  <2>2. EntryOk(n, e)' BY <1>5, <2>1 DEF EntryOk
  <2>3. FileWritten(table, table', <<0, n>>, e) BY <1>4, <1>8, <1>18
  <2>5. e.object = FileName(n) BY <1>5 DEF Enumerator, Entry
  <2>4. GlobalOk' BY <1>2, <1>6, <1>11, <1>15, <1>16, <2>2, <2>3, <2>5, GlobalWritten
  <2> QED BY <1>11, <1>12, <2>4
<1> QED BY <1>17, <1>18

LEMMA EnumeratorApart ==
    ASSUME Good, NEW sid, Books(sid), NEW n, path # <<>>, Opens(Last(path)),
           \A d \in DOMAIN source : Declares(d, n) => source[d].path # path
    PROVE  <<CurrentScopeId(table), n>> \notin DOMAIN OpenFunction(table).values
<1>1. PICK fn : fn = OpenFunction(table) OBVIOUS
<1>2. ValuesOk(sid, fn) /\ TreeOk BY <1>1, OpenFunctionIs DEF Books
<1>3. PICK c : c = Last(path) OBVIOUS
<1>4. CurrentScopeId(table) = sid[c] /\ c \in DOMAIN source /\ Opens(c) BY <1>3, CurrentScope
<1>5. SUFFICES ASSUME NEW d \in DOMAIN source, InValues(d), KeyOf(sid, d) = <<sid[c], n>>
               PROVE  FALSE
  BY <1>1, <1>2, <1>4 DEF ValuesOk
<1>6. sid[Scope(d)] = sid[c] /\ source[d].name = n BY <1>5 DEF KeyOf
<1>7. IsDecl(d) /\ source[d].path # <<>> BY <1>5 DEF InValues, InOpenFunction, IsDecl
<1>8. Scope(d) # 0 /\ Scope(d) \in DOMAIN source BY <1>2, <1>7, Places
<1>9. Opens(Scope(d)) BY <1>7, <1>8, Facts DEF DeclOk
<1>10. Scope(d) = c BY <1>4, <1>6, <1>8, <1>9, SidIsOneToOne
<1>11. source[d].path = path BY <1>2, <1>3, <1>10, BesidePath
<1>12. Declares(d, n) BY <1>6, <1>7 DEF IsDecl, Declares
<1> QED BY <1>11, <1>12

LEMMA BlockEnumeratorBooks ==
    ASSUME Good, Good', NEW sid, Books(sid), NEW n \in Offered.names, EnumSpecifier(n), path # <<>>
    PROVE  \E sid2 : Books(sid2)'
<1>1. PICK h : h = Here OBVIOUS
<1>2. /\ n \in Names /\ Grows /\ New = {h} /\ \A d \in DOMAIN source : store'[d] = store[d]
      /\ h \in Nat /\ h # 0 /\ h \notin DOMAIN source
      /\ source'[h].what = "enumerator" /\ source'[h].name = n /\ source'[h].path = path
      /\ path' = path /\ frames' = frames /\ Open({"definition", "block"})
      /\ \A d \in DOMAIN source : Declares(d, n) => source[d].path # path
      /\ \A t : InsertEnumerator(table, n, h) = {t} => table' = t
  BY <1>1, EnumeratorFacts
<1>3. PICK fn : fn = OpenFunction(table) OBVIOUS
<1>4. /\ table.function = <<fn>> /\ FunctionRecord(fn) /\ IdsOk(sid, fn.blockIds) /\ ValuesOk(sid, fn)
      /\ ~IsAtFileScope(table)
  BY <1>3, OpenFunctionIs DEF FunctionRecord
<1>5. TableRecord(table) /\ table.nextScopeId \in Nat BY DEF Books, TableOk, TableRecord
<1>6. PICK key : key = <<CurrentScopeId(table), n>> OBVIOUS
<1>7. PICK e : e = Enumerator(n, h) OBVIOUS
<1>8. e \in Entries BY <1>2, <1>7, EnumeratorIs
<1>9. Opens(Last(path)) BY <1>2 DEF Open, Opens
<1>10. key \notin DOMAIN fn.values BY <1>2, <1>3, <1>6, <1>9, EnumeratorApart
<1>11. table' = TableFor(table, fn, key, e)
  <2>1. InsertEnumerator(table, n, h) = WithLocal(table, key, e)
    BY <1>4, <1>6, <1>7 DEF InsertEnumerator
  <2>2. PICK t : t = table OBVIOUS
  <2>3. WithLocal(t, key, e) = {TableFor(t, fn, key, e)} BY <1>4, <1>5, <1>10, <2>2, Inserted
  <2> QED BY <1>2, <2>1, <2>2, <2>3
<1>12. PICK fn2 : /\ table'.function = <<fn2>> /\ FunctionRecord(fn2)
                  /\ fn2.values = With(fn.values, key, e) /\ fn2.arguments = fn.arguments
                  /\ fn2.blockIds = fn.blockIds /\ fn2.function = fn.function
  BY TableForIs, <1>11
<1>13. /\ TableRecord(table') /\ table'.global = table.global /\ table'.nextScopeId = table.nextScopeId
       /\ table'.functionScopeDataHomes = table.functionScopeDataHomes BY TableForIs, <1>11
<1>14. PICK sid2 : Continues(sid, sid2) BY DEF Continues
<1>15. /\ Adding(sid, sid2) /\ Scope(h)' = Last(path) /\ ScopesOk(sid2)'
       /\ Scope(h)' # 0 /\ Opens(Scope(h))' /\ sid2[Scope(h)'] = CurrentScopeId(table)
       /\ IdsOk(sid2, fn.blockIds)'
  BY <1>1, <1>2, <1>4, <1>13, <1>14, InsideAdding
<1>16. DeclarationsOk' /\ HoldersOk(sid2)' BY <1>2, <1>15, EnumeratorDeclared
<1>17. GlobalOk'
  BY <1>2, <1>13, <1>15, AddGlobalSame DEF Tag, HasLinkage, IsFunctionItem, FileScopeItem
<1>18. ValuesOk(sid2, fn2)'
  <2>1. KeyOf(sid2, h)' = key BY <1>2, <1>6, <1>15 DEF KeyOf
  <2>2. /\ DOMAIN fn2.values = DOMAIN fn.values \cup {key} /\ fn2.values[key] = e
        /\ \A k \in DOMAIN fn.values : fn2.values[k] = fn.values[k]
    BY WithIs, <1>10, <1>12 DEF With
  <2>3. Tag(h)' = "enumerator" BY <1>2 DEF Tag
  <2>4. \A x : x = e => BlockEntryOk(sid2, h, x)' BY <2>3, <1>2, <1>7, <1>8 DEF BlockEntryOk
  <2>5. BlockEntryOk(sid2, h, fn2.values[KeyOf(sid2, h)])' BY <2>2, <2>4, <2>1
  <2>6. h \in New /\ \A d \in New : d = h BY <1>2
  <2> QED BY <1>2, <1>4, <1>15, <2>1, <2>2, <2>5, <2>6, ValuesOne
<1>19. /\ fn2 = [values |-> fn2.values, arguments |-> OpenFunction(table).arguments,
                 blockIds |-> fn2.blockIds, function |-> OpenFunction(table).function]
       /\ IdsOk(sid2, fn2.blockIds)' BY <1>15, <1>12, <1>3 DEF FunctionRecord
<1>20. \A d \in New : source'[d].what # "parameter" BY <1>2
<1>21. Books(sid2)'
  BY <1>2, <1>12, <1>13, <1>15, <1>16, <1>17, <1>18, <1>19, <1>20, BooksInside
<1> QED BY <1>21

LEMMA EnumeratorBooks ==
    ASSUME Good, Good', NEW sid, Books(sid), NEW n \in Offered.names, EnumSpecifier(n)
    PROVE  \E sid2 : Books(sid2)'
BY FileEnumeratorBooks, BlockEnumeratorBooks

-----------------------------------------------------------------------------
(* The parameters of a function.                                           *)

ArgumentOf(id, n) == Entry(LocalName(id, n), "int", "automatic")

Argument(id, ps, k) == [i \in 1 .. k |-> ArgumentOf(id, ps[i])]

(* What the table keeps of the parameters ps.                              *)
ArgumentsFrom(id, ps) ==
    LET args[k \in 0 .. Len(ps)] ==
            IF k = 0 THEN <<>>
            ELSE WithArgument(args[k - 1], Entry(LocalName(id, ps[k]), "int", "automatic"))
    IN  args[Len(ps)]

LEMMA LocalNameIs ==
    ASSUME NEW id, NEW n, NEW j, NEW m
    PROVE  /\ LocalName(id, n)[3] = n
           /\ LocalName(id, n) = LocalName(j, m) <=> (id = j /\ n = m)
BY DEF LocalName

LEMMA ArgumentAppended ==
    ASSUME NEW id, NEW ps \in Seq(Names), \A i, j \in DOMAIN ps : ps[i] = ps[j] => i = j,
           NEW k \in 1 .. Len(ps)
    PROVE  WithArgument(Argument(id, ps, k - 1), ArgumentOf(id, ps[k])) = Argument(id, ps, k)
<1>1. PICK s : s = Argument(id, ps, k - 1) OBVIOUS
<1>2. PICK e : e = ArgumentOf(id, ps[k]) OBVIOUS
<1>3. k \in Nat /\ k >= 1 /\ k - 1 \in Nat /\ DOMAIN ps = 1 .. Len(ps) /\ Len(ps) \in Nat OBVIOUS
<1>4. /\ DOMAIN s = 1 .. k - 1 /\ s = [i \in 1 .. k - 1 |-> s[i]]
      /\ \A i \in 1 .. k - 1 : s[i] = ArgumentOf(id, ps[i])
  BY <1>1 DEF Argument
<1>5. Sequence(s) /\ Len(s) = k - 1 BY <1>3, <1>4, Tabulated
<1>6. ~ \E i \in DOMAIN s : s[i].object = e.object
  <2>1. SUFFICES ASSUME NEW i \in 1 .. k - 1, s[i].object = e.object PROVE FALSE BY <1>4
  <2>2. s[i].object = LocalName(id, ps[i]) BY <1>4 DEF ArgumentOf, Entry
  <2>3. e.object = LocalName(id, ps[k]) BY <1>2 DEF ArgumentOf, Entry
  <2>4. ps[i] = ps[k]
    <3>1. PICK a, b : a = ps[i] /\ b = ps[k] OBVIOUS
    <3>2. LocalName(id, a) = LocalName(id, b) BY <2>1, <2>2, <2>3, <3>1
    <3>3. a = b BY ONLY <3>2, LocalNameIs
    <3> QED BY <3>1, <3>3
  <2>5. i \in DOMAIN ps /\ k \in DOMAIN ps /\ i # k BY <1>3, <2>1
  <2> QED BY <2>4, <2>5
<1>7. WithArgument(s, e) = Append(s, e) BY <1>6 DEF WithArgument
<1>8. /\ DOMAIN Append(s, e) = 1 .. k /\ Sequence(Append(s, e))
      /\ \A i \in 1 .. k - 1 : Append(s, e)[i] = s[i]
      /\ Append(s, e)[k] = e BY <1>5, AppendIs, <1>3
<1>9. \A i \in 1 .. k : Append(s, e)[i] = ArgumentOf(id, ps[i]) BY <1>3, <1>2, <1>4, <1>8
<1>10. Append(s, e) = [i \in 1 .. k |-> Append(s, e)[i]]
  <2>1. PICK t : t = Append(s, e) OBVIOUS
  <2>2. t \in Seq(ToSet(t)) /\ DOMAIN t = 1 .. k BY <1>8, <2>1 DEF Sequence
  <2>3. t = [i \in DOMAIN t |-> t[i]] BY <2>2
  <2> QED BY <2>1, <2>2, <2>3
<1>11. Append(s, e) = Argument(id, ps, k) BY <1>8, <1>9, <1>10 DEF Argument
<1> QED BY <1>1, <1>2, <1>7, <1>11

LEMMA ArgumentsAre ==
    ASSUME NEW id, NEW ps \in Seq(Names), \A i, j \in DOMAIN ps : ps[i] = ps[j] => i = j
    PROVE  ArgumentsFrom(id, ps) = Argument(id, ps, Len(ps))
<1>1. Len(ps) \in Nat OBVIOUS
<1> DEFINE Steps(f) ==
               f = [k \in 0 .. Len(ps) |->
                       IF k = 0 THEN <<>> ELSE WithArgument(f[k - 1], ArgumentOf(id, ps[k]))]
           args == CHOOSE f : Steps(f)
           g == [k \in 0 .. Len(ps) |-> Argument(id, ps, k)]
<1>2. ArgumentsFrom(id, ps) = args[Len(ps)] BY DEF ArgumentsFrom, ArgumentOf
<1>3. Argument(id, ps, 0) = <<>> BY DEF Argument
<1>4. Steps(g)
  <2>1. \A k \in 0 .. Len(ps) :
            g[k] = IF k = 0 THEN <<>> ELSE WithArgument(g[k - 1], ArgumentOf(id, ps[k]))
    <3>1. SUFFICES ASSUME NEW k \in 0 .. Len(ps), k # 0
                   PROVE  g[k] = WithArgument(g[k - 1], ArgumentOf(id, ps[k]))
      BY <1>3
    <3>2. k \in 1 .. Len(ps) /\ k - 1 \in 0 .. Len(ps) BY <1>1, <3>1
    <3>3. g[k] = Argument(id, ps, k) /\ g[k - 1] = Argument(id, ps, k - 1) BY <3>2
    <3> HIDE DEF g
    <3> QED BY <3>2, <3>3, ArgumentAppended
  <2> QED BY <2>1
<1>5. Steps(args)
  <2> HIDE DEF Steps
  <2> QED BY <1>4
<1>6. \A k \in 0 .. Len(ps) : args[k] = g[k]
  <2> DEFINE bad == {k \in 0 .. Len(ps) : args[k] # g[k]}
  <2>1. SUFFICES ASSUME bad # {} PROVE FALSE OBVIOUS
  <2>2. bad \subseteq Nat OBVIOUS
  <2> HIDE DEF bad
  <2>3. PICK m \in bad : \A k \in bad : m <= k BY <2>1, <2>2, Least
  <2> USE DEF bad
  <2>4. m \in 0 .. Len(ps) /\ args[m] # g[m] BY <2>3
  <2> HIDE DEF args, g
  <2>5. /\ args = [k \in 0 .. Len(ps) |->
                      IF k = 0 THEN <<>> ELSE WithArgument(args[k - 1], ArgumentOf(id, ps[k]))]
        /\ g = [k \in 0 .. Len(ps) |->
                      IF k = 0 THEN <<>> ELSE WithArgument(g[k - 1], ArgumentOf(id, ps[k]))]
    BY <1>4, <1>5
  <2>6. m # 0 BY <2>4, <2>5
  <2>7. m - 1 \in 0 .. Len(ps) /\ m - 1 \in Nat /\ m \in Nat /\ m - 1 < m BY <1>1, <2>4, <2>6
  <2>8. args[m - 1] = g[m - 1] BY <2>3, <2>7
  <2>9. args[m] = WithArgument(args[m - 1], ArgumentOf(id, ps[m])) BY <2>4, <2>5, <2>6
  <2>10. g[m] = WithArgument(g[m - 1], ArgumentOf(id, ps[m])) BY <2>4, <2>5, <2>6
  <2> QED BY <2>4, <2>8, <2>9, <2>10
<1>7. Len(ps) \in 0 .. Len(ps) BY <1>1
<1>8. g[Len(ps)] = Argument(id, ps, Len(ps)) BY <1>7
<1> QED BY <1>2, <1>6, <1>7, <1>8

(* The table in the body of a function that has just begun.                *)
FunctionFrom(id, ps, y) ==
    [values |-> <<>>, arguments |-> Argument(id, ps, Len(ps)), blockIds |-> <<id>>, function |-> y]

Started(t, u, key, ps, y) ==
    /\ TableRecord(u) /\ u.function = <<FunctionFrom(t.nextScopeId + 1, ps, y)>>
    /\ u.nextScopeId = t.nextScopeId + 1
    /\ u.functionScopeDataHomes = t.functionScopeDataHomes
    /\ DOMAIN u.global = DOMAIN t.global \cup {key} /\ u.global[key] = y
    /\ \A k \in DOMAIN t.global : k # key => u.global[k] = t.global[k]

LEMMA StartedIs ==
    ASSUME NEW t, TableRecord(t), NEW n, NEW key, key = <<0, n>>, key \in DOMAIN t.global,
           NEW e \in Entries, t.global[key] = e, NEW ps \in Seq(Names),
           \A i, j \in DOMAIN ps : ps[i] = ps[j] => i = j,
           NEW y, y = [e EXCEPT !.functionDefined = TRUE]
    PROVE  Started(t, StartFunction(t, n, ps), key, ps, y)
<1>1. FileScope(t, n) = <<e>> BY DEF FileScope, At
<1>2. PICK d : d = [t EXCEPT !.global[key] = y] OBVIOUS
<1>3. WithFile(t, n, [FileScope(t, n)[1] EXCEPT !.functionDefined = TRUE]) = d
  BY <1>1, <1>2 DEF WithFile
<1>4. FileWritten(t, d, key, y) BY <1>2, WrittenAgain
<1>5. PICK id : id = t.nextScopeId + 1 OBVIOUS
<1>6. FileScope(d, n) = <<y>> BY <1>4 DEF FileScope, At, FileWritten
<1>7. PICK args : args = ArgumentsFrom(id, ps) OBVIOUS
<1>8. args = Argument(id, ps, Len(ps)) BY <1>7, ArgumentsAre
<1>9. StartFunction(t, n, ps) =
          [d EXCEPT !.function = <<[values |-> <<>>, arguments |-> args, blockIds |-> <<id>>,
                                    function |-> FileScope(d, n)[1]]>>,
                    !.nextScopeId = id]
  BY <1>3, <1>5, <1>7 DEF StartFunction, ArgumentsFrom
<1>10. PICK f : f = <<[values |-> <<>>, arguments |-> args, blockIds |-> <<id>>,
                       function |-> FileScope(d, n)[1]]>>
  OBVIOUS
<1>11. f = <<FunctionFrom(t.nextScopeId + 1, ps, y)>> BY <1>5, <1>6, <1>8, <1>10 DEF FunctionFrom
<1>12. StartFunction(t, n, ps) = WithScope(d, f, id) BY <1>9, <1>10 DEF WithScope
<1>13. WithScope(d, f, id) =
           [global |-> d.global, function |-> f,
            functionScopeDataHomes |-> d.functionScopeDataHomes, nextScopeId |-> id]
  <2>1. TableRecord(d) BY <1>4 DEF FileWritten
  <2>2. PICK g, v, h, i : d = [global |-> g, function |-> v, functionScopeDataHomes |-> h, nextScopeId |-> i]
    BY <2>1 DEF TableRecord
  <2>3. d.global = g /\ d.functionScopeDataHomes = h BY <2>2
  <2>4. WithScope(d, f, id) =
            [global |-> g, function |-> f, functionScopeDataHomes |-> h, nextScopeId |-> id]
    <3>1. PICK w : w = [d EXCEPT !.function = f] OBVIOUS
    <3>2. w = [global |-> g, function |-> f, functionScopeDataHomes |-> h, nextScopeId |-> i]
      BY <2>2, <3>1
    <3>3. [w EXCEPT !.nextScopeId = id] =
              [global |-> g, function |-> f, functionScopeDataHomes |-> h, nextScopeId |-> id]
      BY <3>2
    <3>4. [d EXCEPT !.function = f, !.nextScopeId = id] = [w EXCEPT !.nextScopeId = id] BY <3>1
    <3> QED BY <3>3, <3>4 DEF WithScope
  <2> QED BY <2>3, <2>4
<1>14. PICK u : u = StartFunction(t, n, ps) OBVIOUS
<1>15. u = [global |-> d.global, function |-> f,
            functionScopeDataHomes |-> d.functionScopeDataHomes, nextScopeId |-> id]
  BY <1>12, <1>13, <1>14
<1>16. TableRecord(u) /\ u.global = d.global /\ u.function = f /\ u.nextScopeId = id
       /\ u.functionScopeDataHomes = d.functionScopeDataHomes
  BY ONLY <1>15 DEF TableRecord
<1>17. Started(t, u, key, ps, y) BY <1>4, <1>5, <1>11, <1>16 DEF Started, FileWritten
<1> QED BY <1>14, <1>17

LEMMA DefinedEntry ==
    ASSUME NEW t, NEW n, NEW item, NEW e, RegisteredEntry(t, n, item, FALSE, e),
           NEW y, y = [e EXCEPT !.functionDefined = TRUE]
    PROVE  e \in Entries /\ y \in Entries /\ RegisteredEntry(t, n, item, TRUE, y)
BY DEF RegisteredEntry, FirstFunction, AgainFunction, Entries

(* visit(FunctionDefinition) finds each parameter it has just put there.   *)
LEMMA ParameterFound ==
    ASSUME NEW u, NEW id, NEW ps \in Seq(Names), NEW y, u.function = <<FunctionFrom(id, ps, y)>>,
           NEW k \in DOMAIN ps
    PROVE  Find(u, ps[k])[1].object = LocalName(id, ps[k])
<1>1. PICK fn : fn = FunctionFrom(id, ps, y) OBVIOUS
<1>2. PICK n : n = ps[k] OBVIOUS
<1>3. PICK args : args = fn.arguments OBVIOUS
<1>4. /\ DOMAIN args = 1 .. Len(ps) /\ \A i \in 1 .. Len(ps) : args[i] = ArgumentOf(id, ps[i])
      /\ Len(ps) \in Nat /\ DOMAIN ps = 1 .. Len(ps)
  BY <1>1, <1>3 DEF FunctionFrom, Argument
<1>5. \A i \in DOMAIN args : args[i].object = LocalName(id, ps[i]) BY <1>4 DEF ArgumentOf, Entry
<1>6. \A i \in DOMAIN args : args[i].object[3] = ps[i] BY LocalNameIs, <1>5
<1>7. PICK mine : mine = {i \in DOMAIN args : args[i].object[3] = n} OBVIOUS
<1>8. k \in mine /\ mine \subseteq Nat BY <1>2, <1>4, <1>6, <1>7
<1>9. Min(mine) \in mine BY <1>8, Smallest
<1>10. args[Min(mine)].object = LocalName(id, n) BY <1>5, <1>6, <1>7, <1>9
<1>11. FindArgument(fn, n) = <<args[Min(mine)]>> BY <1>3, <1>7, <1>8 DEF FindArgument
<1>12. u.function # None /\ OpenFunction(u) = fn BY <1>1 DEF None, OpenFunction
<1>13. WalkBlockScopes(u, n) = FindArgument(fn, n)
  BY <1>1, <1>12 DEF FunctionFrom, WalkBlockScopes, IsAtFileScope
<1>14. Find(u, n) = <<args[Min(mine)]>> BY <1>11, <1>13 DEF Find, None
<1> QED BY <1>2, <1>10, <1>14

-----------------------------------------------------------------------------
(* What a function definition adds: the function, and behind it its        *)
(* parameters.                                                             *)
LEMMA AddedBehind ==
    ASSUME Good, NEW it, NEW m \in Nat, NEW P, P = [k \in 1 .. m |-> P[k]],
           NEW N, N = [k \in 1 .. m |-> N[k]], Write(<<it>> \o P, <<NoNote>> \o N), NEW h, h = Here
    PROVE  /\ Grows /\ \A d \in DOMAIN source : store'[d] = store[d]
           /\ h \in Nat /\ h # 0 /\ h \notin DOMAIN source /\ h \in New /\ source'[h] = it
           /\ \A k \in 1 .. m : h + k \in New /\ source'[h + k] = P[k] /\ store'[h + k] = N[k]
           /\ \A e \in New : e = h \/ \E k \in 1 .. m : e = h + k
<1>1. Sequence(P) /\ Len(P) = m /\ Sequence(N) /\ Len(N) = m BY Tabulated
<1>2. PICK items, notes : items = <<it>> \o P /\ notes = <<NoNote>> \o N OBVIOUS
<1>3. /\ Sequence(items) /\ Len(items) = 1 + m /\ items[1] = it
      /\ \A i \in 1 .. m : items[1 + i] = P[i]
  BY <1>1, <1>2, HeadAndTail
<1>4. /\ Sequence(notes) /\ Len(notes) = 1 + m /\ \A i \in 1 .. m : notes[1 + i] = N[i]
  BY <1>1, <1>2, HeadAndTail
<1>5. Adds(items, notes) BY <1>2, <1>3, <1>4 DEF Adds, Write
<1>6. /\ Grows /\ Len(source) \in Nat
      /\ \A d \in DOMAIN source : store'[d] = store[d]
      /\ \A e \in DOMAIN source' \ DOMAIN source : \E i \in 1 .. Len(items) : e = Len(source) + i
      /\ \A i \in 1 .. Len(items) : /\ Len(source) + i \in DOMAIN source' \ DOMAIN source
                                    /\ source'[Len(source) + i] = items[i]
                                    /\ store'[Len(source) + i] = notes[i]
  BY ONLY Good, <1>5, Added
<1>7. h = Len(source) + 1 BY DEF Here
<1>8. h \in Nat /\ h # 0 /\ h \notin DOMAIN source BY JumpsType DEF Here
<1>9. h \in New /\ source'[h] = it
  <2>1. 1 \in 1 .. Len(items) BY <1>3
  <2> QED BY <1>3, <1>6, <1>7, <2>1 DEF New
<1>10. ASSUME NEW k \in 1 .. m
       PROVE  h + k \in New /\ source'[h + k] = P[k] /\ store'[h + k] = N[k]
  <2>1. 1 + k \in 1 .. Len(items) BY <1>3
  <2>2. Len(source) + (1 + k) = h + k BY <1>6, <1>7
  <2>3. /\ Len(source) + (1 + k) \in DOMAIN source' \ DOMAIN source
        /\ source'[Len(source) + (1 + k)] = items[1 + k]
        /\ store'[Len(source) + (1 + k)] = notes[1 + k]
    BY <1>6, <2>1
  <2> QED BY <1>3, <1>4, <2>2, <2>3 DEF New
<1>11. ASSUME NEW e \in New PROVE e = h \/ \E k \in 1 .. m : e = h + k
  <2>1. PICK i \in 1 .. Len(items) : e = Len(source) + i BY <1>6 DEF New
  <2>2. PICK l, c : l = Len(source) /\ c = Len(items) OBVIOUS
  <2>3. l \in Nat /\ h = l + 1 /\ c = 1 + m /\ i \in 1 .. c /\ e = l + i
    BY <1>3, <1>6, <1>7, <2>1, <2>2
  <2>4. i = 1 => e = h BY ONLY <2>3
  <2>5. i # 1 => i - 1 \in 1 .. m /\ e = h + (i - 1) BY ONLY <2>3, m \in Nat
  <2> QED BY <2>4, <2>5
<1> QED BY <1>6, <1>8, <1>9, <1>10, <1>11

LEMMA DefinitionWritten ==
    ASSUME Good, NEW item \in Offered.definitions, NEW ps \in Offered.parameters,
           FunctionDefinition(item, ps), ~hasErrors', NEW h, h = Here
    PROVE  /\ ps \in Seq(Names) /\ \A i, j \in DOMAIN ps : ps[i] = ps[j] => i = j
           /\ Grows /\ \A d \in DOMAIN source : store'[d] = store[d]
           /\ h \in Nat /\ h # 0 /\ h \notin DOMAIN source /\ h \in New
           /\ source'[h].what = "definition" /\ SameFunction(h, item)' /\ source'[h].path = <<>>
           /\ \A k \in 1 .. Len(ps) :
                  /\ h + k \in New /\ source'[h + k].what = "parameter"
                  /\ source'[h + k].name = ps[k] /\ source'[h + k].path = <<h>>
                  /\ store'[h + k].holder = Find(table', ps[k])[1].object
           /\ \A e \in New : e = h \/ \E k \in 1 .. Len(ps) : e = h + k
           /\ path = <<>> /\ path' = <<h>> /\ frames' = frames /\ ~BesideEnumerator(item.name)
<1>1. ps \in Seq(Names) /\ \A i, j \in DOMAIN ps : ps[i] = ps[j] => i = j
  BY MenusAssumption DEF Good, TypesOk, Offered
<1>2. DOMAIN ps = 1 .. Len(ps) /\ Len(ps) \in Nat BY <1>1
<1>3. PICK m : m = Len(ps) OBVIOUS
<1>4. PICK def : def = [item EXCEPT !.what = "definition"] OBVIOUS
<1>5. PICK it : it = Written(def) OBVIOUS
<1> DEFINE P == [k \in 1 .. m |-> [what |-> "parameter", name |-> ps[k], path |-> <<h>>]]
           NoteOf(n) == [holder |-> Find(table', n)[1].object, mentioned |-> NoNote]
           N == [k \in 1 .. m |-> NoteOf(ps[k])]
<1>6. Write(<<it>> \o P, <<NoNote>> \o N)
  BY <1>2, <1>3, <1>4, <1>5 DEF FunctionDefinition
<1>7. path = <<>> /\ path' = <<h>> /\ frames' = frames /\ ~BesideEnumerator(item.name)
  BY DEF FunctionDefinition
<1>8. /\ P = [k \in 1 .. m |-> P[k]] /\ N = [k \in 1 .. m |-> N[k]] /\ m \in Nat
      /\ \A k \in 1 .. m : /\ P[k].what = "parameter" /\ P[k].name = ps[k] /\ P[k].path = <<h>>
                           /\ N[k].holder = Find(table', ps[k])[1].object
  BY <1>2, <1>3
<1> HIDE DEF P, N
<1>9. /\ Grows /\ \A d \in DOMAIN source : store'[d] = store[d]
      /\ h \in Nat /\ h # 0 /\ h \notin DOMAIN source /\ h \in New /\ source'[h] = it
      /\ \A k \in 1 .. m : h + k \in New /\ source'[h + k] = P[k] /\ store'[h + k] = N[k]
      /\ \A e \in New : e = h \/ \E k \in 1 .. m : e = h + k
  BY <1>6, <1>8, AddedBehind
<1>10. DOMAIN item = {"what", "name", "storage", "inline", "type"} BY OfferedFunction
<1>11. /\ DOMAIN def = {"what", "name", "storage", "inline", "type"}
       /\ def.what = "definition" /\ def.name = item.name /\ def.storage = item.storage
       /\ def.inline = item.inline /\ def.type = item.type
  BY <1>4, <1>10
<1>12. /\ it.what = "definition" /\ it.name = item.name /\ it.storage = item.storage
       /\ it.inline = item.inline /\ it.type = item.type /\ it.path = path
  BY <1>5, <1>11, FunctionWritten
<1>13. SameFunction(h, item)' BY <1>9, <1>12 DEF SameFunction, Tag, IsFunctionItem
<1> QED BY <1>1, <1>3, <1>7, <1>8, <1>9, <1>12, <1>13

LEMMA DefinitionStarted ==
    ASSUME Good, NEW sid, Books(sid), NEW item \in Offered.definitions, NEW ps \in Offered.parameters,
           FunctionDefinition(item, ps), ~hasErrors', NEW n, n = item.name
    PROVE  /\ FileEnumerators(n) = {}
           /\ \A e : FileScope(table, n) = <<e>> => ~e.functionDefined
           /\ \E y : /\ Started(table, table', <<0, n>>, ps, y)
                     /\ RegisteredEntry(table, n, item, TRUE, y)
<1>1. /\ path = <<>> /\ ~BesideEnumerator(n) /\ ~HasGlobalVariable(table, n)
      /\ ~(HasFunction(table, n) /\ FileScope(table, n)[1].functionDefined)
      /\ Redeclares(table, item) /\ table' = StartFunction(Registered(table, item), n, ps)
  BY DEF FunctionDefinition
<1>2. FunctionItem(item) BY OfferedFunction
<1>3. n \in Names BY <1>2 DEF FunctionItem
<1>4. /\ TableRecord(table) /\ GlobalOk BY DEF Books, TableOk, TableRecord
<1>5. FileEnumerators(n) = {}
  BY <1>1 DEF BesideEnumerator, FileScopeItem, FileEnumerators, Declarations
<1>6. FileScope(table, n) = IF InFile(n) THEN <<table.global[<<0, n>>]>> ELSE None
  BY <1>3, FoundInFile
<1>7. \A e : <<e>> # None /\ <<e>>[1] = e BY DEF None
<1>8. \A e : FileScope(table, n) = <<e>> => e \in Entries BY <1>3, <1>4, <1>6, <1>7 DEF GlobalOk
<1>9. \A e : FileScope(table, n) = <<e>> => e.value = None
  BY <1>6, <1>7, <1>5, <1>3, LinkedEntry DEF InFile, SharedWithEnumerator, FileEnumerators,
     LinkedEntryOk
<1>10. HasFunction(table, n) \/ FileScope(table, n) = None
  BY <1>6, <1>9, <1>1 DEF HasGlobalVariable, IsEnumerator, HasFunction
<1>11. \A e : FileScope(table, n) = <<e>> => ~e.functionDefined BY <1>7, <1>1, <1>10
<1>12. ps \in Seq(Names) /\ \A i, j \in DOMAIN ps : ps[i] = ps[j] => i = j
  BY MenusAssumption DEF Good, TypesOk, Offered
<1>13. PICK t : t = table OBVIOUS
<1>14. PICK key : key = <<0, n>> OBVIOUS
<1>15. /\ TableRecord(t) /\ FunctionItem(item) /\ n = item.name
       /\ \A e : FileScope(t, n) = <<e>> => e \in Entries
       /\ HasFunction(t, n) \/ FileScope(t, n) = None
       /\ Redeclares(t, item)
  BY <1>1, <1>2, <1>4, <1>8, <1>10, <1>13
<1>16. \E e : FileWritten(t, Registered(t, item), <<0, n>>, e) /\ RegisteredEntry(t, n, item, FALSE, e)
  BY ONLY <1>15, Registration
<1>17. PICK u, e : /\ u = Registered(t, item) /\ FileWritten(t, u, key, e)
                   /\ RegisteredEntry(t, n, item, FALSE, e)
  BY <1>14, <1>16
<1>18. PICK y : y = [e EXCEPT !.functionDefined = TRUE] OBVIOUS
<1>19. e \in Entries /\ y \in Entries /\ RegisteredEntry(t, n, item, TRUE, y)
  BY ONLY <1>17, <1>18, DefinedEntry
<1>20. TableRecord(u) /\ key \in DOMAIN u.global /\ u.global[key] = e BY <1>17 DEF FileWritten
<1>21. Started(u, StartFunction(u, n, ps), key, ps, y)
  BY ONLY <1>12, <1>14, <1>18, <1>19, <1>20, StartedIs
<1>22. table' = StartFunction(u, n, ps) BY <1>1, <1>13, <1>17
<1>23. PICK w : w = table' OBVIOUS
<1>24. Started(u, w, key, ps, y) BY <1>21, <1>22, <1>23
<1>25. Started(t, w, key, ps, y) BY ONLY <1>17, <1>24 DEF Started, FileWritten
<1> QED BY <1>5, <1>11, <1>13, <1>14, <1>19, <1>23, <1>25

(* A definition of a function as it is written, and what it leaves.        *)
Defined(sid, item, ps, n, id, h, y) ==
    /\ ps \in Seq(Names) /\ \A i, j \in DOMAIN ps : ps[i] = ps[j] => i = j
    /\ Grows /\ \A d \in DOMAIN source : store'[d] = store[d]
    /\ h = Here /\ h \in Nat /\ h # 0 /\ h \notin DOMAIN source /\ h \in New
    /\ source'[h].what = "definition" /\ SameFunction(h, item)' /\ source'[h].path = <<>>
    /\ \A k \in 1 .. Len(ps) :
           /\ h + k \in New /\ source'[h + k].what = "parameter"
           /\ source'[h + k].name = ps[k] /\ source'[h + k].path = <<h>>
           /\ store'[h + k].holder = LocalName(id, ps[k])
    /\ \A e \in New : e = h \/ \E k \in 1 .. Len(ps) : e = h + k
    /\ path = <<>> /\ path' = <<h>> /\ frames' = frames /\ ~BesideEnumerator(n)
    /\ FunctionItem(item) /\ n = item.name /\ n \in Names /\ FileEnumerators(n) = {}
    /\ \A e : FileScope(table, n) = <<e>> => ~e.functionDefined
    /\ Started(table, table', <<0, n>>, ps, y) /\ RegisteredEntry(table, n, item, TRUE, y)
    /\ id = table.nextScopeId + 1

LEMMA DefinitionFacts ==
    ASSUME Good, NEW sid, Books(sid), NEW item \in Offered.definitions, NEW ps \in Offered.parameters,
           FunctionDefinition(item, ps), ~hasErrors'
    PROVE  \E n, id, h, y : Defined(sid, item, ps, n, id, h, y)
<1>1. PICK h, n, id : h = Here /\ n = item.name /\ id = table.nextScopeId + 1 OBVIOUS
<1>2. /\ ps \in Seq(Names) /\ \A i, j \in DOMAIN ps : ps[i] = ps[j] => i = j
      /\ Grows /\ \A d \in DOMAIN source : store'[d] = store[d]
      /\ h \in Nat /\ h # 0 /\ h \notin DOMAIN source /\ h \in New
      /\ source'[h].what = "definition" /\ SameFunction(h, item)' /\ source'[h].path = <<>>
      /\ \A k \in 1 .. Len(ps) :
             /\ h + k \in New /\ source'[h + k].what = "parameter"
             /\ source'[h + k].name = ps[k] /\ source'[h + k].path = <<h>>
             /\ store'[h + k].holder = Find(table', ps[k])[1].object
      /\ \A e \in New : e = h \/ \E k \in 1 .. Len(ps) : e = h + k
      /\ path = <<>> /\ path' = <<h>> /\ frames' = frames /\ ~BesideEnumerator(n)
  BY <1>1, DefinitionWritten
<1>3. PICK y : /\ FileEnumerators(n) = {}
               /\ \A e : FileScope(table, n) = <<e>> => ~e.functionDefined
               /\ Started(table, table', <<0, n>>, ps, y) /\ RegisteredEntry(table, n, item, TRUE, y)
  BY <1>1, DefinitionStarted
<1>4. FunctionItem(item) BY OfferedFunction
<1>5. n \in Names BY <1>1, <1>4 DEF FunctionItem
<1>6. \A k \in 1 .. Len(ps) : Find(table', ps[k])[1].object = LocalName(id, ps[k])
  BY <1>1, <1>3, <1>2, ParameterFound DEF Started
<1>7. Defined(sid, item, ps, n, id, h, y) BY <1>2, <1>6, <1>1, <1>3, <1>4, <1>5 DEF Defined
<1> QED BY <1>7

LEMMA DefinedItems ==
    ASSUME NEW sid, NEW item, NEW ps, NEW n, NEW id, NEW h, NEW y, Defined(sid, item, ps, n, id, h, y)
    PROVE  /\ Tag(h)' = "definition" /\ IsFunctionItem(h)' /\ HasLinkage(h)' /\ ~HasObject(h)'
           /\ IsDecl(h)' /\ Opens(h)' /\ Scope(h)' = 0 /\ source'[h].name = n /\ FileScopeItem(h)'
           /\ \A m : Declares(h, m)' <=> m = n
           /\ \A k \in 1 .. Len(ps) :
                  /\ h + k \in New /\ h + k # h
                  /\ Tag(h + k)' = "parameter" /\ ~IsFunctionItem(h + k)' /\ ~HasLinkage(h + k)'
                  /\ HasObject(h + k)' /\ IsDecl(h + k)' /\ ~Opens(h + k)' /\ Scope(h + k)' = h
                  /\ source'[h + k].name = ps[k] /\ ~FileScopeItem(h + k)'
                  /\ store'[h + k].holder = LocalName(id, ps[k])
<1>1. /\ source'[h].what = "definition" /\ source'[h].path = <<>> /\ source'[h].name = n
      /\ h \in Nat /\ ps \in Seq(Names)
  BY DEF Defined, SameFunction
<1>2. /\ Tag(h)' = "definition" /\ IsFunctionItem(h)' /\ HasLinkage(h)' /\ ~HasObject(h)'
      /\ IsDecl(h)' /\ Opens(h)' /\ Scope(h)' = 0 /\ FileScopeItem(h)'
      /\ \A m : Declares(h, m)' <=> m = n
  BY <1>1 DEF Tag, IsFunctionItem, HasLinkage, HasObject, IsDecl, Opens, Scope, FileScopeItem, Declares
<1>3. ASSUME NEW k \in 1 .. Len(ps)
      PROVE  /\ h + k \in New /\ h + k # h
             /\ Tag(h + k)' = "parameter" /\ ~IsFunctionItem(h + k)' /\ ~HasLinkage(h + k)'
             /\ HasObject(h + k)' /\ IsDecl(h + k)' /\ ~Opens(h + k)' /\ Scope(h + k)' = h
             /\ source'[h + k].name = ps[k] /\ ~FileScopeItem(h + k)'
             /\ store'[h + k].holder = LocalName(id, ps[k])
  <2>1. PICK e : e = h + k OBVIOUS
  <2>2. /\ e \in New /\ source'[e].what = "parameter" /\ source'[e].name = ps[k]
        /\ source'[e].path = <<h>> /\ store'[e].holder = LocalName(id, ps[k])
    BY <2>1 DEF Defined
  <2>3. e # h BY <1>1, <2>1
  <2>4. <<h>> # <<>> /\ Last(<<h>>) = h BY DEF Last
  <2>5. /\ Tag(e)' = "parameter" /\ ~IsFunctionItem(e)' /\ ~HasLinkage(e)'
        /\ HasObject(e)' /\ IsDecl(e)' /\ ~Opens(e)' /\ Scope(e)' = h /\ ~FileScopeItem(e)'
    BY <2>2, <2>4 DEF Tag, IsFunctionItem, HasLinkage, HasObject, IsDecl, Opens, Scope, FileScopeItem
  <2> QED BY <2>1, <2>2, <2>3, <2>5
<1> QED BY <1>1, <1>2, <1>3

LEMMA DefinitionAdding ==
    ASSUME Good, Good', NEW sid, Books(sid), NEW item, NEW ps, NEW n, NEW id, NEW h, NEW y,
           Defined(sid, item, ps, n, id, h, y), NEW sid2, Continues(sid, sid2)
    PROVE  Adding(sid, sid2) /\ ScopesOk(sid2)' /\ EndedOk(sid2)' /\ sid2[h] = id
<1>1. table.nextScopeId \in Nat BY DEF Books, TableOk
<1>2. table'.nextScopeId = id /\ id \in Nat /\ id = table.nextScopeId + 1
  BY <1>1 DEF Defined, Started
<1>3. /\ Tag(h)' = "definition" /\ source'[h].path = <<>> /\ h \in New /\ h = Here
      /\ path = <<>> /\ path' = <<h>> /\ Grows /\ \A d \in DOMAIN source : store'[d] = store[d]
      /\ frames' = frames /\ \A e \in New : e = h \/ \E k \in 1 .. Len(ps) : e = h + k
      /\ table'.functionScopeDataHomes = table.functionScopeDataHomes
  <2>1. Tag(h)' = "definition" BY ONLY Defined(sid, item, ps, n, id, h, y), DefinedItems
  <2>2. PICK u, key : u = table' /\ key = <<0, n>> OBVIOUS
  <2>3. Started(table, u, key, ps, y) BY <2>2 DEF Defined
  <2>4. u.functionScopeDataHomes = table.functionScopeDataHomes BY <2>3 DEF Started
  <2> QED BY <2>1, <2>2, <2>4 DEF Defined
<1>4. ASSUME NEW e \in New, e # h
      PROVE  /\ source'[e].path = <<h>> /\ source'[e].what = "parameter" /\ ~Opens(e)'
  <2>1. PICK k \in 1 .. Len(ps) : e = h + k BY <1>3, <1>4
  <2>2. ~Opens(h + k)' BY DefinedItems
  <2>3. source'[h + k].path = <<h>> /\ source'[h + k].what = "parameter" BY DEF Defined
  <2> QED BY <2>1, <2>2, <2>3
<1>5. InPlace BY <1>3, <1>4 DEF InPlace
<1>6. \A e \in New : source'[e].what # "object" BY <1>3, <1>4 DEF Tag
<1>7. Adding(sid, sid2) BY <1>1, <1>2, <1>3, <1>5, <1>6 DEF Adding
<1>8. ScopesOk(sid2)' BY <1>2, <1>3, <1>4, <1>7, AddScopes
<1>9. EndedOk(sid2)'
  <2>1. \A e \in New : source'[e].what = "parameter" => source'[e].path # <<>>
    BY SMTT(30), <1>3, <1>4 DEF Tag
  <2> QED BY <1>3, <1>7, <2>1, AddEnded
<1>10. sid2[h] = id BY <1>2, <1>3, <1>7, AddedFacts
<1> QED BY <1>7, <1>8, <1>9, <1>10

LEMMA DefinitionDeclared ==
    ASSUME NEW sid, NEW sid2, Adding(sid, sid2), NEW item, NEW ps, NEW n, NEW id, NEW h, NEW y,
           Defined(sid, item, ps, n, id, h, y), sid2[h] = id
    PROVE  DeclarationsOk' /\ HoldersOk(sid2)'
<1>1. /\ Tag(h)' = "definition" /\ IsFunctionItem(h)' /\ ~HasObject(h)' /\ IsDecl(h)' /\ Opens(h)'
      /\ Scope(h)' = 0 /\ source'[h].name = n /\ source'[h].path = <<>>
      /\ h \in Nat /\ h # 0 /\ h \in New /\ h \notin DOMAIN source /\ path = <<>>
  <2>1. /\ Tag(h)' = "definition" /\ IsFunctionItem(h)' /\ ~HasObject(h)' /\ IsDecl(h)' /\ Opens(h)'
        /\ Scope(h)' = 0 /\ source'[h].name = n
    BY ONLY Defined(sid, item, ps, n, id, h, y), DefinedItems
  <2> QED BY <2>1 DEF Defined, New
<1>2. ASSUME NEW e \in New, e # h
      PROVE  \E k \in 1 .. Len(ps) :
                 /\ e = h + k /\ Tag(e)' = "parameter" /\ ~IsFunctionItem(e)' /\ Scope(e)' = h
                 /\ source'[e].name = ps[k] /\ source'[e].path = <<h>>
                 /\ store'[e].holder = LocalName(id, ps[k]) /\ ps[k] \in Names
                 /\ k \in DOMAIN ps
  <2>1. PICK k \in 1 .. Len(ps) : e = h + k BY <1>2 DEF Defined
  <2>2. /\ Tag(e)' = "parameter" /\ ~IsFunctionItem(e)' /\ Scope(e)' = h
        /\ source'[e].name = ps[k] /\ store'[e].holder = LocalName(id, ps[k])
    BY <2>1, DefinedItems
  <2>3. source'[e].path = <<h>> BY <2>1 DEF Defined
  <2>4. ps[k] \in Names /\ k \in DOMAIN ps BY <2>1 DEF Defined
  <2> QED BY <2>1, <2>2, <2>3, <2>4
<1>3. DeclOk(h)' BY <1>1 DEF FunctionItem, SameFunction, Defined, DeclOk
<1>4. ASSUME NEW e \in New, e # h PROVE DeclOk(e)'
  <2>1. PICK k \in 1 .. Len(ps) :
            /\ Tag(e)' = "parameter" /\ ~IsFunctionItem(e)' /\ Scope(e)' = h
            /\ source'[e].name \in Names /\ source'[e].path = <<h>>
    BY <1>2, <1>4
  <2>2. IsDecl(e)' /\ Len(<<h>>) = 1 BY <2>1 DEF IsDecl
  <2>3. Opens(Scope(e))' BY <1>1, <2>1
  <2> QED BY <2>1, <2>2, <2>3 DEF DeclOk
<1>5. ASSUME NEW e \in New, NEW d \in DOMAIN source', d # e, IsDecl(d)', IsDecl(e)',
             source'[d].name = source'[e].name, Scope(d)' = Scope(e)'
      PROVE  ScopeOk(d, e)'
  BY <1>2, <1>5, <1>1, AddedFacts, ItemSame, BesidePath DEF New, IsDecl, Declares,
     BesideEnumerator, Defined, ScopeOk
<1>6. DeclarationsOk' BY <1>3, <1>4, <1>5, AddDeclarations
<1>7. ASSUME NEW e \in New, HasObject(e)' PROVE store'[e].holder = HomeName(sid2, e)'
  BY <1>1, <1>7, <1>2 DEF HomeName
<1>8. HoldersOk(sid2)' BY <1>7, AddHolders
<1> QED BY <1>6, <1>8

LEMMA DefinitionGlobal ==
    ASSUME NEW sid, NEW sid2, Adding(sid, sid2), NEW item, NEW ps, NEW n, NEW id, NEW h, NEW y,
           Defined(sid, item, ps, n, id, h, y)
    PROVE  /\ GlobalOk' /\ LinkedEntryOk(n, y)' /\ h \in LinkedOf(n)'
           /\ \A e \in LinkedOf(n)' : e <= h
<1>1. /\ SameFunction(h, item)' /\ FunctionItem(item) /\ n = item.name /\ n \in Names /\ h \in New
      /\ \A e : FileScope(table, n) = <<e>> => ~e.functionDefined
      /\ RegisteredEntry(table, n, item, TRUE, y)
      /\ \A e \in New : e = h \/ \E k \in 1 .. Len(ps) : e = h + k
      /\ FileEnumerators(n) = {} /\ h = Here
  BY DEF Defined
<1>2. Tag(h)' = "definition" /\ HasLinkage(h)' /\ \A m : Declares(h, m)' <=> m = n BY DefinedItems
<1>3. \A e \in New : e # h => ~HasLinkage(e)' /\ ~FileScopeItem(e)' BY <1>1, DefinedItems
<1>4. TRUE \in BOOLEAN /\ TRUE = (Tag(h)' = "definition") BY <1>2
<1>5. \A e : FileScope(table, n) = <<e>> => ~(e.functionDefined /\ TRUE) BY <1>1
<1>6. /\ InFile(n)' /\ y \in Entries
      /\ ~SharedWithEnumerator(n)' => LinkedEntryOk(n, y)' /\ EntryOk(n, y)'
  BY <1>1, <1>3, <1>4, <1>5, FunctionEntryIs
<1>7. /\ LinkedOf(n)' = LinkedOf(n) \cup {h} /\ FileEnumerators(n)' = {}
      /\ \A d \in LinkedOf(n) : d <= h
  <2>1. Declares(h, n)' BY <1>2
  <2>2. \A e \in New : e # h /\ Declares(e, n)' => ~HasLinkage(e)' /\ ~FileScopeItem(e)' BY <1>3
  <2>3. /\ LinkedOf(n)' = LinkedOf(n) \cup (IF HasLinkage(h)' THEN {h} ELSE {})
        /\ FileEnumerators(n)' =
               FileEnumerators(n) \cup (IF Tag(h)' = "enumerator" /\ FileScopeItem(h)' THEN {h} ELSE {})
    BY <1>1, <2>1, <2>2, NamesGrown
  <2>4. \A d \in LinkedOf(n) : d <= h BY <1>1, AddedFacts DEF LinkedOf, Declarations
  <2> QED BY <1>1, <1>2, <2>3, <2>4
<1>8. ~SharedWithEnumerator(n)' BY <1>7 DEF SharedWithEnumerator, FileEnumerators
<1>9. h \in Nat /\ h <= h BY DEF Defined
<1>10. GlobalOk'
  <2>1. PICK key : key = <<0, n>> OBVIOUS
  <2>2. /\ DOMAIN table'.global = DOMAIN table.global \cup {key} /\ table'.global[key] = y
        /\ \A k \in DOMAIN table.global : k # key => table'.global[k] = table.global[k]
    BY <2>1 DEF Defined, Started
  <2>3. \A e \in New, m \in Names :
            m # n /\ Declares(e, m)' => ~HasLinkage(e)' /\ ~FileScopeItem(e)'
    BY <1>2, <1>3
  <2>4. DOMAIN table'.global =
            DOMAIN table.global \cup {<<0, m>> : m \in {k \in Names : k = n /\ InFile(k)'}}
    BY <1>1, <1>6, <2>1, <2>2
  <2>5. \A m \in Names : m # n /\ InFile(m) => table'.global[<<0, m>>] = table.global[<<0, m>>]
    BY AddedFacts, <2>1, <2>2 DEF Books, GlobalOk
  <2>6. n \in Names /\ InFile(n)' =>
            /\ table'.global[<<0, n>>] \in Entries /\ table'.global[<<0, n>>].object = FileName(n)
            /\ ~SharedWithEnumerator(n)' => EntryOk(n, table.global[<<0, n>>])'
    <3>1. table'.global[<<0, n>>] = y BY <2>1, <2>2
    <3>2. EntryOk(n, y)' BY <1>6, <1>8
    <3>3. EntryOk(n, table.global[<<0, n>>])' BY <3>1, <3>2
    <3>4. y.object = FileName(n) BY <1>1, RegisteredObject, AddedFacts
    <3> QED BY <1>6, <3>1, <3>3, <3>4
  <2> QED BY ONLY Adding(sid, sid2), <2>3, <2>4, <2>5, <2>6, AddGlobal
<1> QED BY <1>6, <1>7, <1>8, <1>9, <1>10

LEMMA DefinitionArguments ==
    ASSUME NEW sid, NEW sid2, Adding(sid, sid2), NEW item, NEW ps, NEW n, NEW id, NEW h, NEW y,
           Defined(sid, item, ps, n, id, h, y), sid2[h] = id
    PROVE  ArgumentsOk(sid2, h, Argument(id, ps, Len(ps)))'
<1>1. PICK args : args = Argument(id, ps, Len(ps)) OBVIOUS
<1>2. ps \in Seq(Names) /\ Len(ps) \in Nat /\ DOMAIN ps = 1 .. Len(ps) BY DEF Defined
<1>3. /\ DOMAIN args = 1 .. Len(ps) /\ args = [k \in 1 .. Len(ps) |-> args[k]]
      /\ \A k \in 1 .. Len(ps) : args[k] = ArgumentOf(id, ps[k])
  BY <1>1 DEF Argument
<1>4. Sequence(args) BY <1>2, <1>3, Tabulated
<1>5. ASSUME NEW k \in DOMAIN args
      PROVE  /\ h + k \in DOMAIN source' /\ Tag(h + k)' = "parameter" /\ source'[h + k].path = <<h>>
             /\ args[k] = Entry(LocalName(sid2[h], source'[h + k].name), "int", "automatic")
  <2>1. k \in 1 .. Len(ps) BY <1>3
  <2>2. h + k \in New /\ Tag(h + k)' = "parameter" /\ source'[h + k].name = ps[k]
    BY <2>1, DefinedItems
  <2>3. source'[h + k].path = <<h>> BY <2>1 DEF Defined
  <2>4. args[k] = Entry(LocalName(id, ps[k]), "int", "automatic") BY <1>3, <2>1 DEF ArgumentOf
  <2> QED BY <2>2, <2>3, <2>4 DEF New
<1>6. ASSUME NEW d \in DOMAIN source', Tag(d)' = "parameter", source'[d].path[1] = h
      PROVE  \E k \in DOMAIN args : d = h + k
  <2>1. CASE d \in New
    <3>1. d # h BY <1>6, DefinedItems
    <3> QED BY <1>3, <2>1, <3>1 DEF Defined
  <2>2. CASE d \notin New
    BY <2>2, <1>6, AddedFacts, ItemSame, Facts, InsideNow DEF New, DeclOk, Defined
  <2> QED BY <2>1, <2>2
<1>7. PICK g : g = h OBVIOUS
<1>8. /\ \A k \in DOMAIN args :
             /\ g + k \in DOMAIN source' /\ Tag(g + k)' = "parameter" /\ source'[g + k].path = <<g>>
             /\ args[k] = Entry(LocalName(sid2[g], source'[g + k].name), "int", "automatic")
      /\ \A d \in DOMAIN source' :
             Tag(d)' = "parameter" /\ source'[d].path[1] = g => \E k \in DOMAIN args : d = g + k
  BY <1>5, <1>6, <1>7
<1>9. ArgumentsOk(sid2, g, args)' BY <1>4, <1>8 DEF ArgumentsOk
<1> QED BY <1>1, <1>7, <1>9

LEMMA DefinitionFunction ==
    ASSUME NEW sid, NEW sid2, Adding(sid, sid2), NEW item, NEW ps, NEW n, NEW id, NEW h, NEW y,
           Defined(sid, item, ps, n, id, h, y), sid2[h] = id
    PROVE  FunctionOk(sid2)'
<1>1. PICK fn : fn = FunctionFrom(id, ps, y) OBVIOUS
<1>2. table'.function = <<fn>> BY <1>1 DEF Defined, Started
<1>3. /\ fn = [values |-> fn.values, arguments |-> fn.arguments, blockIds |-> fn.blockIds,
               function |-> fn.function]
      /\ fn.values = <<>> /\ fn.arguments = Argument(id, ps, Len(ps)) /\ fn.blockIds = <<id>>
      /\ fn.function = y
  BY ONLY <1>1 DEF FunctionFrom
<1>4. OpenFunction(table)' = fn BY <1>2 DEF OpenFunction
<1>5. path' = <<h>> /\ path'[1] = h /\ path' # <<>> BY DEF Defined
<1>6. /\ Opens(h)' /\ h \in New /\ h \notin DOMAIN source /\ Tag(h)' = "definition"
      /\ source'[h].name = n
  <2>1. Opens(h)' /\ Tag(h)' = "definition" /\ source'[h].name = n
    BY ONLY Defined(sid, item, ps, n, id, h, y), DefinedItems
  <2> QED BY <2>1 DEF Defined
<1>7. id \in Nat BY <1>6, AddedFacts
<1>8. fn.blockIds \in Seq(Nat) /\ Rising(fn.blockIds) /\ ToSet(fn.blockIds) = {id}
  BY <1>7, Single, <1>3 DEF Rising
<1>9. OpenScopes' = {h} BY Single, <1>5, <1>6 DEF OpenScopes
<1>10. ToSet(fn.blockIds) = {sid2[c] : c \in OpenScopes'} BY <1>8, <1>9
<1>11. ValuesOk(sid2, fn)'
  <2>1. ASSUME NEW d \in DOMAIN source', InValues(d)' PROVE FALSE
    <3>1. /\ Tag(d)' \in {"object", "enumerator"} /\ source'[d].path # <<>> /\ source'[d].path[1] = h
      BY <1>5, <2>1 DEF InValues, InOpenFunction
    <3>2. CASE d \in New
      <4>1. CASE d = h BY <1>6, <3>1, <4>1
      <4>2. CASE d # h
        <5>1. PICK k \in 1 .. Len(ps) : d = h + k BY <3>2, <4>2 DEF Defined
        <5>2. Tag(h + k)' = "parameter" BY DefinedItems
        <5> QED BY <3>1, <5>1, <5>2
      <4> QED BY <4>1, <4>2
    <3>3. CASE d \notin New BY <3>3, <3>1, AddedFacts, ItemSame, InsideNow, <1>6 DEF New
    <3> QED BY <3>2, <3>3
  <2>2. DOMAIN fn.values = {} BY <1>3
  <2> QED BY <2>1, <2>2 DEF ValuesOk
<1>12. ArgumentsOk(sid2, path[1], fn.arguments)' BY DefinitionArguments, <1>3, <1>5
<1>13. ProvidesExternalDefinition(fn.function) = ExportedThen(path[1])'
  <2>1. LinkedEntryOk(n, y)' /\ h \in LinkedOf(n)' /\ \A e \in LinkedOf(n)' : e <= h
    BY DefinitionGlobal
  <2>2. IsFunction(y)
    BY DEF Defined, RegisteredEntry, FirstFunction, AgainFunction, IsFunction, FunctionItem
  <2>3. (\A e \in LinkedOf(n) : e <= h)' BY <2>1
  <2>4. ASSUME TRUE
        PROVE  ProvidesExternalDefinition(y) = ExportedThen(h)'
    BY <2>1, <2>2, <1>6 DEF LinkedEntryOk, LinkedThen, FunctionEntryOk,
       ProvidesExternalDefinition, ExportedThen
  <2> QED BY <1>3, <1>5, <2>4
<1> QED BY <1>2, <1>3, <1>4, <1>8, <1>10, <1>11, <1>12, <1>13 DEF FunctionOk

LEMMA DefinitionBooks ==
    ASSUME Good, Good', NEW sid, Books(sid), NEW item \in Offered.definitions,
           NEW ps \in Offered.parameters, FunctionDefinition(item, ps), ~hasErrors'
    PROVE  \E sid2 : Books(sid2)'
<1>1. PICK n, id, h, y : Defined(sid, item, ps, n, id, h, y) BY DefinitionFacts
<1>2. PICK sid2 : Continues(sid, sid2) BY DEF Continues
<1>3. Adding(sid, sid2) /\ ScopesOk(sid2)' /\ EndedOk(sid2)' /\ sid2[h] = id
  BY <1>1, <1>2, DefinitionAdding
<1>4. DeclarationsOk' /\ HoldersOk(sid2)' BY <1>1, <1>3, DefinitionDeclared
<1>5. GlobalOk' BY <1>1, <1>3, DefinitionGlobal
<1>6. FunctionOk(sid2)' BY <1>1, <1>3, DefinitionFunction
<1>7. TreeOk' BY <1>3, AddedFacts
<1>8. TableOk' BY <1>1, <1>3 DEF Defined, Started, Adding, TableOk, TableRecord
<1>9. Books(sid2)' BY <1>3, <1>4, <1>5, <1>6, <1>7, <1>8 DEF Books
<1> QED BY <1>9

-----------------------------------------------------------------------------
(* The end of what is open.  Nothing is written, and what is said of the   *)
(* source alone stays as it is.                                            *)
LEMMA SameItems ==
    ASSUME source' = source
    PROVE  /\ \A d : Tag(d)' = Tag(d) /\ Scope(d)' = Scope(d) /\ TypeOf(d)' = TypeOf(d)
                     /\ TypeOfAny(d)' = TypeOfAny(d)
           /\ \A d : /\ FileScopeItem(d)' <=> FileScopeItem(d)
                     /\ IsFunctionItem(d)' <=> IsFunctionItem(d)
                     /\ HasLinkage(d)' <=> HasLinkage(d)
                     /\ HasObject(d)' <=> HasObject(d)
                     /\ IsDecl(d)' <=> IsDecl(d)
                     /\ IsStaticLocal(d)' <=> IsStaticLocal(d)
                     /\ Opens(d)' <=> Opens(d)
           /\ \A d, n : Declares(d, n)' <=> Declares(d, n)
<1>1. \A d : Tag(d)' = Tag(d) /\ Scope(d)' = Scope(d) /\ TypeOf(d)' = TypeOf(d)
  BY DEF Tag, Scope, TypeOf
<1>2. \A d : /\ FileScopeItem(d)' <=> FileScopeItem(d)
             /\ IsFunctionItem(d)' <=> IsFunctionItem(d)
             /\ IsDecl(d)' <=> IsDecl(d)
  BY <1>1 DEF FileScopeItem, IsFunctionItem, IsDecl
<1>3. \A d : HasLinkage(d)' <=> HasLinkage(d) BY <1>1, <1>2 DEF HasLinkage
<1>4. \A d : HasObject(d)' <=> HasObject(d) BY <1>1, <1>3 DEF HasObject
<1>5. \A d : IsStaticLocal(d)' <=> IsStaticLocal(d) BY <1>1, <1>4 DEF IsStaticLocal
<1>6. \A d : Opens(d)' <=> Opens(d) BY <1>1 DEF Opens
<1>7. \A d, n : Declares(d, n)' <=> Declares(d, n) BY <1>1 DEF Declares
<1>8. \A d : TypeOfAny(d)' = TypeOfAny(d) BY <1>1, <1>2 DEF TypeOfAny
<1> QED BY <1>1, <1>2, <1>3, <1>4, <1>5, <1>6, <1>7, <1>8

LEMMA SameDeclarations ==
    ASSUME source' = source, DeclarationsOk
    PROVE  DeclarationsOk'
BY SameItems DEF DeclOk, ScopeOk, DeclarationsOk

LEMMA SameFile ==
    ASSUME source' = source, NEW n
    PROVE  /\ LinkedOf(n)' = LinkedOf(n) /\ AtFile(n)' = AtFile(n)
           /\ FileEnumerators(n)' = FileEnumerators(n)
           /\ InFile(n)' <=> InFile(n)
           /\ SharedWithEnumerator(n)' <=> SharedWithEnumerator(n)
           /\ \A e : EntryOk(n, e)' <=> EntryOk(n, e)
<1>1. Declarations(n)' = Declarations(n) BY SameItems DEF Declarations
<1>2. /\ LinkedOf(n)' = LinkedOf(n) /\ AtFile(n)' = AtFile(n)
      /\ FileEnumerators(n)' = FileEnumerators(n)
  BY <1>1, SameItems DEF LinkedOf, AtFile, FileEnumerators
<1>3. InFile(n)' <=> InFile(n) BY <1>2 DEF InFile
<1>4. LinkedInBlock(n)' = LinkedInBlock(n) BY <1>1, SameItems DEF LinkedInBlock
<1>5. SharedWithEnumerator(n)' <=> SharedWithEnumerator(n)
  BY <1>2, <1>4 DEF SharedWithEnumerator, FileEnumerators
<1>6. \A e : ObjectEntryOk(n, e)' <=> ObjectEntryOk(n, e) BY <1>2, SameItems DEF ObjectEntryOk
<1>7. \A e : FunctionEntryOk(n, e)' <=> FunctionEntryOk(n, e) BY <1>2, SameItems DEF FunctionEntryOk
<1>8. \A e : LinkedEntryOk(n, e)' <=> LinkedEntryOk(n, e)
  BY <1>2, <1>6, <1>7, SameItems DEF LinkedEntryOk
<1>9. \A e : EntryOk(n, e)' <=> EntryOk(n, e) BY <1>2, <1>8 DEF EntryOk
<1> QED BY <1>2, <1>3, <1>5, <1>9

LEMMA SameGlobal ==
    ASSUME source' = source, table'.global = table.global, GlobalOk
    PROVE  GlobalOk'
BY SameFile DEF GlobalOk

LEMMA SameScopes ==
    ASSUME NEW sid, source' = source, table'.nextScopeId = table.nextScopeId, ScopesOk(sid)
    PROVE  ScopesOk(sid)'
BY SameItems DEF ScopesOk

LEMMA SameHomes ==
    ASSUME source' = source, NEW sid
    PROVE  /\ \A d : /\ HomeName(sid, d)' = HomeName(sid, d) /\ KeyOf(sid, d)' = KeyOf(sid, d)
                     /\ LocalEntry(sid, d)' = LocalEntry(sid, d)
           /\ \A d, e : BlockEntryOk(sid, d, e)' <=> BlockEntryOk(sid, d, e)
           /\ \A g, args : ArgumentsOk(sid, g, args)' <=> ArgumentsOk(sid, g, args)
           /\ \A g : ExportedThen(g)' = ExportedThen(g)
           /\ \A g : AutomaticsOf(g)' = AutomaticsOf(g)
BY SameItems, SameFile DEF HomeName, KeyOf, LocalEntry, BlockEntryOk, ArgumentsOk, LinkedThen,
   ExportedThen, AutomaticsOf, InFunction

LEMMA SameHolders ==
    ASSUME NEW sid, source' = source, \A d \in DOMAIN source : HasObject(d) => store'[d] = store[d],
           HoldersOk(sid)
    PROVE  HoldersOk(sid)'
BY SameItems, SameHomes DEF HoldersOk

LEMMA TreeClosed ==
    ASSUME Good, TreeOk, path # <<>>, source' = source, path' = Front(path)
    PROVE  TreeOk'
<1>1. /\ path \in Seq(Nat) /\ Chain(path) /\ Rising(path) /\ Len(path) \in Nat
      /\ DOMAIN path = 1 .. Len(path)
  BY Places
<1>2. PICK p, q : p = path /\ q = Front(path) OBVIOUS
<1>3. /\ q \in Seq(Nat) /\ Len(p) >= 1 /\ DOMAIN q = 1 .. Len(p) - 1
      /\ \A i \in 1 .. Len(p) - 1 : q[i] = p[i]
  BY <1>1, <1>2, Popped
<1>4. \A k \in DOMAIN q : k \in DOMAIN p /\ q[k] = p[k] /\ SubSeq(q, 1, k - 1) = SubSeq(p, 1, k - 1)
  <2>1. SUFFICES ASSUME NEW k \in DOMAIN q
                 PROVE  /\ k \in DOMAIN p /\ q[k] = p[k]
                        /\ SubSeq(q, 1, k - 1) = SubSeq(p, 1, k - 1)
    OBVIOUS
  <2>2. /\ k \in DOMAIN p /\ q[k] = p[k] /\ k \in Nat /\ k >= 1 /\ k <= Len(p) - 1 /\ Len(p) \in Nat
    BY <1>1, <1>2, <1>3
  <2>3. Len(q) = Len(p) - 1 BY <1>2, <1>1, Popped
  <2>4. PICK a, b : a = SubSeq(p, 1, k - 1) /\ b = SubSeq(q, 1, k - 1) OBVIOUS
  <2>5. k - 1 \in 0 .. Len(p) /\ k - 1 \in 0 .. Len(q) BY <2>2, <2>3
  <2>6. a \in Seq(Nat) /\ DOMAIN a = 1 .. k - 1 /\ \A i \in 1 .. k - 1 : a[i] = p[i]
    BY <1>1, <1>2, <2>4, <2>5, Prefix
  <2>7. b \in Seq(Nat) /\ DOMAIN b = 1 .. k - 1 /\ \A i \in 1 .. k - 1 : b[i] = q[i]
    BY <1>3, <2>4, <2>5, Prefix
  <2>8. \A i \in 1 .. k - 1 : a[i] = b[i]
    <3>1. \A i \in 1 .. k - 1 : i \in 1 .. Len(p) - 1 BY <2>2
    <3> QED BY <1>3, <2>6, <2>7, <3>1
  <2>9. a = [i \in 1 .. k - 1 |-> a[i]] /\ b = [i \in 1 .. k - 1 |-> b[i]] BY <2>6, <2>7
  <2>10. a = b BY <2>8, <2>9
  <2> QED BY <2>2, <2>4, <2>10
<1>5. Chain(q)' BY <1>1, <1>2, <1>4 DEF Chain
<1>6. \A r : Chain(r)' <=> Chain(r) BY DEF Chain
<1>7. \A d \in DOMAIN source' :
          /\ Chain(source[d].path)' /\ Rising(source'[d].path)
          /\ \A z \in ToSet(source'[d].path) : z < d
          /\ \A k \in DOMAIN source'[d].path : Tag(source[d].path[k])' = "definition" <=> k = 1
  BY SameItems DEF TreeOk, Chain
<1>8. \A d \in DOMAIN source', k \in DOMAIN path' :
          source'[d].path = SubSeq(path', 1, k - 1) => d <= path'[k]
  BY SMTT(30), <1>2, <1>4 DEF TreeOk
<1>9. Chain(path)' BY <1>2, <1>5
<1> QED BY <1>7, <1>8, <1>9 DEF TreeOk

LEMMA IdsPopped ==
    ASSUME Good, NEW sid, Books(sid), path # <<>>, Tag(Last(path)) # "definition", source' = source,
           path' = Front(path), NEW ids, ids = OpenFunction(table).blockIds
    PROVE  /\ Opens(Last(path)) => IdsOk(sid, Front(ids))'
           /\ ~Opens(Last(path)) => IdsOk(sid, ids)'
<1>1. PICK c : c = Last(path) OBVIOUS
<1>2. IdsOk(sid, ids) BY OpenFunctionIs
<1>3. ToSet(path') = ToSet(path) \ {c} /\ c \in ToSet(path) BY <1>1, Popped DEF Good, PathOk
<1>4. OpenScopes' = OpenScopes \ {c} BY <1>3, SameItems DEF OpenScopes
<1>5. CASE ~Opens(c) BY <1>4, <1>5, <1>2, <1>1 DEF OpenScopes, IdsOk
<1>6. CASE Opens(c)
  <2>1. /\ ids \in Seq(Nat) /\ Rising(ids) /\ ids # <<>> /\ CurrentScopeId(table) = Last(ids)
        /\ CurrentScopeId(table) = sid[c] /\ c \in DOMAIN source
    BY <1>1, <1>6, CurrentScope
  <2>2. Front(ids) \in Seq(Nat) /\ Rising(Front(ids)) /\ ToSet(Front(ids)) = ToSet(ids) \ {sid[c]}
    BY <2>1, Popped
  <2>3. ToSet(ids) = {sid[e] : e \in OpenScopes} BY <1>2 DEF IdsOk
  <2>4. \A e \in OpenScopes : e \in DOMAIN source /\ Opens(e) /\ (sid[e] = sid[c] => e = c)
    BY <1>6, <2>1, SidIsOneToOne DEF OpenScopes, Good, PathOk
  <2>5. {sid[e] : e \in OpenScopes'} = ToSet(ids) \ {sid[c]} BY <1>4, <2>3, <2>4
  <2>6. IdsOk(sid, Front(ids))' BY <2>2, <2>5 DEF IdsOk
  <2> QED BY <1>1, <1>6, <2>6
<1> QED BY <1>1, <1>5, <1>6

LEMMA BlockLeft ==
    ASSUME NEW t, NEW fn, TableRecord(t), t.function = <<fn>>, FunctionRecord(fn)
    PROVE  ExitBlockScope(t) =
               [global |-> t.global,
                function |-> <<[values |-> fn.values, arguments |-> fn.arguments,
                                blockIds |-> Front(fn.blockIds), function |-> fn.function]>>,
                functionScopeDataHomes |-> t.functionScopeDataHomes, nextScopeId |-> t.nextScopeId]
<1>1. PICK f, v : f = t.function /\ v = Front(fn.blockIds) OBVIOUS
<1>2. ExitBlockScope(t) = [t EXCEPT !.function = WithIds(f, v)]
  BY <1>1 DEF ExitBlockScope, Front, WithIds
<1>3. PICK w : w = WithIds(f, v) OBVIOUS
<1>4. w = <<[values |-> fn.values, arguments |-> fn.arguments, blockIds |-> v, function |-> fn.function]>>
  BY <1>1, <1>3, FunctionChanged
<1>5. ExitBlockScope(t) = WithFunction(t, w) BY <1>2, <1>3 DEF WithFunction
<1>6. WithFunction(t, w) =
          [global |-> t.global, function |-> w,
           functionScopeDataHomes |-> t.functionScopeDataHomes, nextScopeId |-> t.nextScopeId]
  BY TableChanged
<1> QED BY <1>1, <1>4, <1>5, <1>6

LEMMA ClosingBooks ==
    ASSUME Good, Good', NEW sid, Books(sid), path # <<>>, Tag(Last(path)) # "definition",
           source' = source, store' = store, frames' = frames, path' = Front(path),
           Opens(Last(path)) => table' = ExitBlockScope(table), ~Opens(Last(path)) => table' = table
    PROVE  Books(sid)'
<1>1. path' # <<>> /\ path'[1] = path[1] BY PathPopped
<1>2. PICK fn : fn = OpenFunction(table) OBVIOUS
<1>3. PICK ids : ids = IF Opens(Last(path)) THEN Front(fn.blockIds) ELSE fn.blockIds OBVIOUS
<1>4. PICK fn2 : fn2 = [values |-> fn.values, arguments |-> fn.arguments, blockIds |-> ids,
                        function |-> fn.function]
  OBVIOUS
<1>5. table.function = <<fn>> /\ FunctionRecord(fn) /\ TableRecord(table)
  BY <1>2, OpenFunctionIs DEF FunctionRecord, Books, TableOk, TableRecord
<1>6. /\ table'.global = table.global /\ table'.nextScopeId = table.nextScopeId
      /\ table'.functionScopeDataHomes = table.functionScopeDataHomes
      /\ table'.function = <<fn2>> /\ TableRecord(table')
  BY <1>3, <1>4, <1>5, BlockLeft DEF TableRecord, FunctionRecord
<1>7. IdsOk(sid, ids)' BY <1>2, IdsPopped, <1>3 DEF IdsOk
<1>8. TreeOk' BY TreeClosed DEF Books
<1>9. DeclarationsOk' BY SameDeclarations DEF Books
<1>10. GlobalOk' BY <1>6, SameGlobal DEF Books
<1>11. ScopesOk(sid)' BY <1>6, SameScopes DEF Books
<1>12. HoldersOk(sid)' BY SameHolders DEF Books
<1>13. TableOk' BY <1>1, <1>6 DEF TableOk, TableRecord, Books
<1>14. FunctionOk(sid)'
  <2>1. OpenFunction(table)' = fn2 BY <1>6 DEF OpenFunction
  <2>2. /\ ArgumentsOk(sid, path[1], fn.arguments)
        /\ ProvidesExternalDefinition(fn.function) = ExportedThen(path[1])
        /\ ValuesOk(sid, fn)
    BY <1>2 DEF Books, FunctionOk
  <2>3. PICK g, args : g = path[1] /\ args = fn.arguments OBVIOUS
  <2>4. ArgumentsOk(sid, g, args)' BY <2>2, <2>3, SameHomes
  <2>5. ArgumentsOk(sid, path[1], fn2.arguments)'
    BY <1>1, <1>4, <2>3, <2>4 DEF ArgumentsOk, Sequence
  <2>6. \A d : InValues(d)' <=> InValues(d) BY <1>1, SameItems DEF InValues, InOpenFunction
  <2>7. \A d \in DOMAIN source : InValues(d)' => BlockEntryOk(sid, d, fn2.values[KeyOf(sid, d)])'
    BY <2>6, <2>2, SameHomes, <1>4 DEF ValuesOk
  <2>8. DOMAIN fn2.values = {KeyOf(sid, d)' : d \in {e \in DOMAIN source' : InValues(e)'}}
    BY <1>4, <2>2, <2>6, SameHomes DEF ValuesOk
  <2>9. ValuesOk(sid, fn2)' BY <2>7, <2>8 DEF ValuesOk
  <2>10. ExportedThen(path[1])' = ExportedThen(g)
    BY SameHomes, <1>1, <2>3 DEF ExportedThen, LinkedThen
  <2>11. ProvidesExternalDefinition(fn2.function)' = ExportedThen(path[1])'
    BY <1>4, <2>2, <2>3, <2>10 DEF ProvidesExternalDefinition
  <2>12. /\ fn2.blockIds \in Seq(Nat) /\ Rising(fn2.blockIds)'
         /\ ToSet(fn2.blockIds)' = {sid[c] : c \in OpenScopes'}
    BY <1>4, <1>7 DEF IdsOk, Rising, ToSet
  <2>13. fn2 = [values |-> fn2.values, arguments |-> fn2.arguments, blockIds |-> fn2.blockIds,
                function |-> fn2.function]
    BY <1>4
  <2> QED BY <1>6, <2>1, <2>5, <2>9, <2>11, <2>12, <2>13
          DEF FunctionOk, ValuesOk, Rising, ToSet, ProvidesExternalDefinition
<1>15. EndedOk(sid)'
  <2>1. EndedOk(sid) BY DEF Books
  <2>2. \A d : FunctionEnded(d)' <=> FunctionEnded(d) BY <1>1 DEF FunctionEnded
  <2>3. EndedStatics' = EndedStatics BY <2>2, SameItems DEF EndedStatics
  <2>4. table'.functionScopeDataHomes = {LocalEntry(sid, d)' : d \in EndedStatics'}
    BY <1>6, <2>1, <2>3, SameHomes DEF EndedOk
  <2>5. \A f : FrameOk(sid, f) => FrameOk(sid, f)'
    <3>1. SUFFICES ASSUME NEW f, FrameOk(sid, f) PROVE FrameOk(sid, f)' OBVIOUS
    <3>2. PICK g, args : g = f.at /\ args = f.arguments OBVIOUS
    <3>3. /\ g \in DOMAIN source /\ Tag(g) = "definition" /\ path[1] # g
          /\ f.locals = {LocalEntry(sid, d) : d \in AutomaticsOf(g)}
          /\ ArgumentsOk(sid, g, args) /\ f.exported = ExportedThen(g)
      BY <3>1, <3>2 DEF FrameOk
    <3>4. f.locals = {LocalEntry(sid, d)' : d \in AutomaticsOf(g)'} BY <3>3, SameHomes
    <3>5. ArgumentsOk(sid, g, args)' /\ f.exported = ExportedThen(g)' BY <3>3, SameHomes
    <3>6. Tag(g)' = "definition" /\ path'[1] # g BY <1>1, <3>3, SameItems
    <3> QED BY <3>2, <3>3, <3>4, <3>5, <3>6 DEF FrameOk
  <2>6. \A k \in DOMAIN frames' : FrameOk(sid, frames[k])' BY <2>1, <2>5 DEF EndedOk
  <2>7. Sequence(frames)' BY <2>1 DEF EndedOk, Sequence
  <2> QED BY <2>4, <2>6, <2>7 DEF EndedOk
<1> QED BY <1>8, <1>9, <1>10, <1>11, <1>12, <1>13, <1>14, <1>15 DEF Books

LEMMA EndInnerBooks ==
    ASSUME Good, Good', NEW sid, Books(sid), EndInner
    PROVE  Books(sid)'
BY ClosingBooks, BesidePath DEF EndInner, EndBlock, Open, Opens, EndLoop, Scope, Books,
   EndSwitch

(* What a function holds at its end.                                       *)
LEMMA LocalEntryIs ==
    ASSUME NEW sid, NEW d
    PROVE  /\ LocalEntry(sid, d).storage = IF source[d].storage = "static" THEN "static" ELSE "automatic"
           /\ LocalEntry(sid, d).value = None
BY DEF LocalEntry, Entry

LEMMA ValueKinds ==
    ASSUME Good, NEW sid, Books(sid), path # <<>>, NEW d \in DOMAIN source, InValues(d), NEW e,
           e = OpenFunction(table).values[KeyOf(sid, d)]
    PROVE  /\ e.storage = "static" <=> IsStaticLocal(d)
           /\ (~IsGlobal(e) /\ ~IsEnumerator(e)) <=> Tag(d) = "object" /\ HasObject(d) /\ ~IsStaticLocal(d)
           /\ Tag(d) = "object" /\ HasObject(d) => e = LocalEntry(sid, d)
<1>1. BlockEntryOk(sid, d, e) BY DEF Books, FunctionOk, ValuesOk
<1>2. Tag(d) \in {"object", "enumerator"} BY DEF InValues
<1>3. CASE Tag(d) = "enumerator"
  <2>1. PICK n : n = source[d].name OBVIOUS
  <2>2. e = Enumerator(n, d) BY <1>1, <1>3, <2>1 DEF BlockEntryOk
  <2>3. PICK o : o = FileName(n) OBVIOUS
  <2>4. e = [Entry(o, "int", "automatic") EXCEPT !.value = <<d>>] BY <2>2, <2>3 DEF Enumerator
  <2>5. e.storage = "automatic" /\ e.value = <<d>> BY ONLY <2>4 DEF Entry
  <2>6. IsEnumerator(e) BY <2>5 DEF IsEnumerator, None
  <2> QED BY <1>3, <2>5, <2>6 DEF IsStaticLocal
<1>4. CASE Tag(d) = "object" /\ HasLinkage(d)
  BY <1>1, <1>4 DEF BlockEntryOk, HasObject, IsStaticLocal, IsGlobal
<1>5. CASE Tag(d) = "object" /\ ~HasLinkage(d)
  BY <1>1, <1>5, LocalEntryIs DEF BlockEntryOk, HasObject, IsStaticLocal, IsGlobal,
     IsEnumerator
<1> QED BY <1>2, <1>3, <1>4, <1>5

StaticsOf(values) == {values[key] : key \in {k \in DOMAIN values : values[k].storage = "static"}}

LEMMA ValuesAtEnd ==
    ASSUME Good, NEW sid, Books(sid), path # <<>>, NEW g, g = path[1]
    PROVE  /\ StaticsOf(OpenFunction(table).values) =
                  {LocalEntry(sid, d) : d \in {c \in DOMAIN source : IsStaticLocal(c) /\ InOpenFunction(c)}}
           /\ CurrentScopeSymbols(table) = {LocalEntry(sid, d) : d \in AutomaticsOf(g)}
<1>1. PICK values : values = OpenFunction(table).values OBVIOUS
<1>2. DOMAIN values = {KeyOf(sid, d) : d \in {e \in DOMAIN source : InValues(e)}}
  BY <1>1 DEF Books, FunctionOk, ValuesOk
<1>3. \A d \in DOMAIN source : InValues(d) =>
          /\ values[KeyOf(sid, d)].storage = "static" <=> IsStaticLocal(d)
          /\ (~IsGlobal(values[KeyOf(sid, d)]) /\ ~IsEnumerator(values[KeyOf(sid, d)])) <=>
                 Tag(d) = "object" /\ HasObject(d) /\ ~IsStaticLocal(d)
          /\ Tag(d) = "object" /\ HasObject(d) => values[KeyOf(sid, d)] = LocalEntry(sid, d)
  BY <1>1, ValueKinds
<1>4. \A d \in DOMAIN source : IsStaticLocal(d) /\ InOpenFunction(d) => InValues(d)
  BY DEF IsStaticLocal, InValues
<1>5. \A d \in DOMAIN source : IsStaticLocal(d) => Tag(d) = "object" /\ HasObject(d)
  BY DEF IsStaticLocal
<1>6. StaticsOf(values) =
          {LocalEntry(sid, d) : d \in {c \in DOMAIN source : IsStaticLocal(c) /\ InOpenFunction(c)}}
  BY <1>2, <1>3, <1>5, <1>4 DEF StaticsOf, InValues
<1>7. \A d : d \in AutomaticsOf(g) <=>
          d \in DOMAIN source /\ InValues(d) /\ Tag(d) = "object" /\ HasObject(d) /\ ~IsStaticLocal(d)
  BY DEF AutomaticsOf, InValues, InFunction, InOpenFunction
<1>8. CurrentScopeSymbols(table) =
          {e \in {values[key] : key \in DOMAIN values} : ~IsGlobal(e) /\ ~IsEnumerator(e)}
  BY <1>1 DEF CurrentScopeSymbols
<1>9. CurrentScopeSymbols(table) = {LocalEntry(sid, d) : d \in AutomaticsOf(g)}
  BY <1>8, <1>2, <1>3, <1>7
<1> QED BY <1>1, <1>6, <1>9

LEMMA FunctionLeft ==
    ASSUME NEW t, TableRecord(t)
    PROVE  EndFunction(t) =
               [global |-> t.global, function |-> None,
                functionScopeDataHomes |->
                    t.functionScopeDataHomes \cup StaticsOf(OpenFunction(t).values),
                nextScopeId |-> t.nextScopeId]
<1>1. PICK s : s = StaticsOf(OpenFunction(t).values) OBVIOUS
<1>2. EndFunction(t) = [t EXCEPT !.functionScopeDataHomes = @ \cup s, !.function = None]
  BY <1>1 DEF EndFunction, StaticsOf
<1> QED BY <1>1, <1>2 DEF TableRecord

LEMMA OnlyTheFunction ==
    ASSUME Good, path # <<>>, Tag(Last(path)) = "definition"
    PROVE  Last(path) = path[1] /\ path[1] \in DOMAIN source
BY DEF Good, PathOk, Last, ToSet

EndedFrame ==
    [at |-> Last(path), exported |-> ProvidesExternalDefinition(OpenFunction(table).function),
     locals |-> CurrentScopeSymbols(table), arguments |-> OpenFunction(table).arguments]

LEMMA EndFunctionIs ==
    ASSUME Good, EndFunctionDefinition, ~hasErrors'
    PROVE  /\ path # <<>> /\ Tag(Last(path)) = "definition" /\ path' = <<>>
           /\ source' = source /\ table' = EndFunction(table)
           /\ frames' = Append(frames, EndedFrame)
           /\ \A d \in DOMAIN source : Tag(d) # "goto" => store'[d] = store[d]
<1> DEFINE Named(g) == {l \in jumps.namedLabels : l[1] = source[g].name}
           found == {g \in jumps.pendingGotos : Named(g) # {}}
<1>1. /\ path # <<>> /\ Tag(Last(path)) = "definition" /\ path' = <<>>
      /\ source' = source /\ table' = EndFunction(table)
  BY DEF EndFunctionDefinition, Open
<1>2. store' = [d \in DOMAIN store |->
                   IF d \in found THEN [jumpTo |-> <<(CHOOSE l \in Named(d) : TRUE)[2]>>]
                   ELSE store[d]]
  BY DEF EndFunctionDefinition
<1>3. found = jumps.pendingGotos BY DEF EndFunctionDefinition
<1>4. frames' = Append(frames, EndedFrame) BY DEF EndFunctionDefinition, EndedFrame
<1>5. Sequence(store) /\ Len(store) = Len(source) BY DEF Good, TypesOk
<1>6. Len(source) \in Nat /\ DOMAIN source = 1 .. Len(source) BY JumpsType
<1>7. DOMAIN store = 1 .. Len(source) BY <1>5 DEF Sequence
<1>8. \A g \in jumps.pendingGotos : Tag(g) = "goto" BY <1>1 DEF Good, GotosWait
<1> HIDE DEF found
<1>9. \A d \in DOMAIN source : Tag(d) # "goto" => store'[d] = store[d]
  BY <1>3, <1>6, <1>7, <1>8, <1>2
<1> QED BY <1>1, <1>4, <1>9

LEMMA EndFunctionBooks ==
    ASSUME Good, Good', NEW sid, Books(sid), EndFunctionDefinition, ~hasErrors'
    PROVE  Books(sid)'
<1>1. /\ path # <<>> /\ Tag(Last(path)) = "definition" /\ path' = <<>>
      /\ source' = source /\ table' = EndFunction(table)
      /\ frames' = Append(frames, EndedFrame)
      /\ \A d \in DOMAIN source : Tag(d) # "goto" => store'[d] = store[d]
  BY EndFunctionIs
<1>2. PICK g : g = path[1] OBVIOUS
<1>3. Last(path) = g /\ g \in DOMAIN source BY <1>1, <1>2, OnlyTheFunction
<1>4. PICK values : values = OpenFunction(table).values OBVIOUS
<1>5. TableRecord(table) BY DEF Books, TableOk, TableRecord
<1>6. /\ table'.global = table.global /\ table'.nextScopeId = table.nextScopeId
      /\ table'.functionScopeDataHomes = table.functionScopeDataHomes \cup StaticsOf(values)
      /\ table'.function = None /\ TableRecord(table')
  BY <1>1, <1>4, <1>5, FunctionLeft DEF TableRecord
<1>7. TreeOk' BY <1>1, SameItems DEF Chain, Books, TreeOk
<1>8. DeclarationsOk' BY <1>1, SameDeclarations DEF Books
<1>9. GlobalOk' BY <1>1, <1>6, SameGlobal DEF Books
<1>10. ScopesOk(sid)' BY <1>1, <1>6, SameScopes DEF Books
<1>11. HoldersOk(sid)' BY <1>1, SameHolders DEF HasObject, Books
<1>12. TableOk' BY <1>6 DEF TableOk, TableRecord, Books
<1>13. FunctionOk(sid)' BY <1>1 DEF FunctionOk
<1>14. EndedOk(sid) BY DEF Books
<1>15. \A d \in DOMAIN source :
           IsStaticLocal(d) => (FunctionEnded(d) <=> ~InOpenFunction(d)) /\ FunctionEnded(d)'
  BY <1>1 DEF IsStaticLocal, HasObject, HasLinkage, FileScopeItem, FunctionEnded,
     InOpenFunction
<1>16. table'.functionScopeDataHomes = {LocalEntry(sid, d)' : d \in EndedStatics'}
  <2>1. EndedStatics' = {d \in DOMAIN source : IsStaticLocal(d)}
    BY <1>1, <1>15, SameItems DEF EndedStatics
  <2>2. EndedStatics = {d \in DOMAIN source : IsStaticLocal(d) /\ ~InOpenFunction(d)}
    BY <1>15 DEF EndedStatics
  <2>3. StaticsOf(values) =
            {LocalEntry(sid, d) : d \in {c \in DOMAIN source : IsStaticLocal(c) /\ InOpenFunction(c)}}
    BY <1>1, <1>2, <1>4, ValuesAtEnd
  <2>4. table'.functionScopeDataHomes = {LocalEntry(sid, d) : d \in EndedStatics'}
    BY <1>6, <1>14, <2>1, <2>2, <2>3 DEF EndedOk
  <2> QED BY <1>1, <2>4, SameHomes
<1>17. \A f : FrameOk(sid, f) => FrameOk(sid, f)'
  <2>1. SUFFICES ASSUME NEW f, FrameOk(sid, f) PROVE FrameOk(sid, f)' OBVIOUS
  <2>2. PICK h, args : h = f.at /\ args = f.arguments OBVIOUS
  <2>3. /\ h \in DOMAIN source /\ Tag(h) = "definition"
        /\ f.locals = {LocalEntry(sid, d) : d \in AutomaticsOf(h)}
        /\ ArgumentsOk(sid, h, args) /\ f.exported = ExportedThen(h)
    BY <2>1, <2>2 DEF FrameOk
  <2>4. f.locals = {LocalEntry(sid, d)' : d \in AutomaticsOf(h)'} BY <1>1, <2>3, SameHomes
  <2>5. ArgumentsOk(sid, h, args)' /\ f.exported = ExportedThen(h)' BY <1>1, <2>3, SameHomes
  <2>6. Tag(h)' = "definition" BY <1>1, <2>3, SameItems
  <2> QED BY <1>1, <2>2, <2>3, <2>4, <2>5, <2>6 DEF FrameOk
<1>18. PICK new : new = EndedFrame OBVIOUS
<1>19. FrameOk(sid, new)'
  <2>1. PICK fn, args : fn = OpenFunction(table) /\ args = fn.arguments OBVIOUS
  <2>2. ArgumentsOk(sid, g, args) /\ ProvidesExternalDefinition(fn.function) = ExportedThen(g)
    BY <1>1, <1>2, <2>1 DEF Books, FunctionOk
  <2>3. CurrentScopeSymbols(table) = {LocalEntry(sid, d) : d \in AutomaticsOf(g)}
    BY <1>1, <1>2, ValuesAtEnd
  <2>4. PICK x, l : x = ProvidesExternalDefinition(fn.function) /\ l = CurrentScopeSymbols(table)
    OBVIOUS
  <2>5. new = [at |-> g, exported |-> x, locals |-> l, arguments |-> args]
    BY <1>3, <1>18, <2>1, <2>4 DEF EndedFrame
  <2>6. new.at = g /\ new.exported = x /\ new.locals = l /\ new.arguments = args BY <2>5
  <2>7. l = {LocalEntry(sid, d)' : d \in AutomaticsOf(g)'}
    <3>1. l = {LocalEntry(sid, d) : d \in AutomaticsOf(g)} BY ONLY <2>3, <2>4
    <3>2. AutomaticsOf(g)' = AutomaticsOf(g) BY <1>1, SameHomes
    <3>3. \A d : LocalEntry(sid, d)' = LocalEntry(sid, d) BY <1>1, SameHomes
    <3> QED BY ONLY <3>1, <3>2, <3>3
  <2>8. ArgumentsOk(sid, g, args)' /\ x = ExportedThen(g)' BY <1>1, <2>2, <2>4, SameHomes
  <2>9. Tag(g)' = "definition" /\ g \in DOMAIN source' BY <1>1, <1>3, SameItems
  <2> QED BY <1>1, <2>6, <2>7, <2>8, <2>9 DEF FrameOk
<1>20. /\ Sequence(frames') /\ \A k \in DOMAIN frames' : FrameOk(sid, frames[k])'
  BY <1>14, AppendIs, <1>1, <1>18, <1>17, <1>19 DEF EndedOk
<1>21. EndedOk(sid)' BY <1>20, <1>16 DEF Sequence, EndedOk
<1> QED BY <1>7, <1>8, <1>9, <1>10, <1>11, <1>12, <1>13, <1>21 DEF Books

-----------------------------------------------------------------------------
(* The books are kept.                                                     *)
BooksExist == \E sid : Books(sid)

LEMMA BooksNext ==
    ASSUME Good, Good', NEW sid, Books(sid), Next, ~hasErrors'
    PROVE  BooksExist'
<1>1. CASE \E item \in Offered.objects : Declaration(item) BY <1>1, DeclarationBooks DEF BooksExist
<1>2. CASE \E item \in Offered.prototypes : Prototype(item) BY <1>2, PrototypeBooks DEF BooksExist
<1>3. CASE \E item \in Offered.definitions, ps \in Offered.parameters : FunctionDefinition(item, ps)
  BY <1>3, DefinitionBooks DEF BooksExist
<1>4. CASE \E n \in Offered.names : EnumSpecifier(n) \/ LabeledStatement(n) \/ GotoStatement(n)
  BY <1>4, EnumeratorBooks, LabeledStatementBooks, GotoStatementBooks DEF BooksExist
<1>5. CASE Block BY <1>5, BlockBooks DEF BooksExist
<1>6. CASE \E l \in Offered.loops : Loop(l[1], l[2])
  BY <1>6, MenusAssumption, PlainLoopBooks, DeclaredLoopBooks DEF Good, TypesOk, Offered,
     BooksExist
<1>7. CASE Switch BY <1>7, SwitchBooks DEF BooksExist
<1>8. CASE \E value \in CaseValues : CaseLabel(value) BY <1>8, CaseLabelBooks DEF BooksExist
<1>9. CASE DefaultLabel BY <1>9, DefaultLabelBooks DEF BooksExist
<1>10. CASE \E kind \in {"break", "continue"} : JumpStatement(kind)
  BY <1>10, JumpStatementBooks DEF BooksExist
<1>11. CASE EndInner BY <1>11, EndInnerBooks DEF BooksExist
<1>12. CASE EndFunctionDefinition BY <1>12, EndFunctionBooks DEF BooksExist
<1> QED BY <1>1, <1>2, <1>3, <1>4, <1>5, <1>6, <1>7, <1>8, <1>9, <1>10, <1>11, <1>12 DEF Next

LEMMA BooksAtFirst ==
    ASSUME Init
    PROVE  Books(<<>>)
<1>1. /\ source = <<>> /\ path = <<>> /\ store = <<>> /\ frames = <<>> /\ table = EmptyTable
      /\ DOMAIN source = {} /\ DOMAIN path = {} /\ DOMAIN frames = {}
  BY DEF Init
<1>2. PICK t : t = table OBVIOUS
<1>3. t = [global |-> <<>>, function |-> None, functionScopeDataHomes |-> {}, nextScopeId |-> 0]
  BY <1>1, <1>2 DEF EmptyTable
<1>4. /\ t.global = <<>> /\ t.function = None /\ t.functionScopeDataHomes = {} /\ t.nextScopeId = 0
      /\ TableRecord(t) /\ DOMAIN t.global = {}
  BY <1>3 DEF TableRecord
<1>5. TreeOk BY <1>1 DEF TreeOk, Chain
<1>6. DeclarationsOk BY <1>1 DEF DeclarationsOk
<1>7. TableOk BY <1>2, <1>4 DEF TableOk, TableRecord
<1>8. \A n : ~InFile(n) BY <1>1 DEF InFile, LinkedOf, FileEnumerators, Declarations
<1>9. GlobalOk BY <1>2, <1>4, <1>8 DEF GlobalOk
<1>10. ScopesOk(<<>>) BY <1>1 DEF ScopesOk
<1>11. HoldersOk(<<>>) BY <1>1 DEF HoldersOk
<1>12. FunctionOk(<<>>) BY <1>1 DEF FunctionOk
<1>13. EndedOk(<<>>) BY <1>1, <1>2, <1>4 DEF EndedStatics, Sequence, EndedOk
<1> QED BY <1>5, <1>6, <1>7, <1>9, <1>10, <1>11, <1>12, <1>13 DEF Books

LEMMA SameBooks ==
    ASSUME NEW sid, Books(sid), UNCHANGED vars
    PROVE  Books(sid)'
<1>1. source' = source /\ store' = store /\ frames' = frames /\ path' = path /\ table' = table
  BY DEF vars
<1>2. TreeOk' BY <1>1, SameItems DEF Chain, Books, TreeOk
<1>3. DeclarationsOk' BY <1>1, SameDeclarations DEF Books
<1>4. GlobalOk' BY <1>1, SameGlobal DEF Books
<1>5. ScopesOk(sid)' BY <1>1, SameScopes DEF Books
<1>6. HoldersOk(sid)' BY <1>1, SameHolders DEF Books
<1>7. TableOk' BY <1>1 DEF TableOk, Books
<1>8. FunctionOk(sid)'
  <2>1. CASE path = <<>> BY <1>1, <2>1 DEF FunctionOk
  <2>2. CASE path # <<>>
    <3>1. PICK fn : fn = OpenFunction(table) OBVIOUS
    <3>2. OpenFunction(table)' = fn BY <1>1, <3>1 DEF OpenFunction
    <3>3. /\ table.function = <<fn>>
          /\ fn = [values |-> fn.values, arguments |-> fn.arguments, blockIds |-> fn.blockIds,
                   function |-> fn.function]
          /\ fn.blockIds \in Seq(Nat) /\ Rising(fn.blockIds)
          /\ ToSet(fn.blockIds) = {sid[c] : c \in OpenScopes}
          /\ ValuesOk(sid, fn) /\ ArgumentsOk(sid, path[1], fn.arguments)
          /\ ProvidesExternalDefinition(fn.function) = ExportedThen(path[1])
      BY <2>2, <3>1 DEF Books, FunctionOk
    <3>4. \A d : InValues(d)' <=> InValues(d) BY <1>1, SameItems DEF InValues, InOpenFunction
    <3>5. ValuesOk(sid, fn)' BY <3>4, <3>3, <1>1, SameHomes DEF ValuesOk
    <3>6. OpenScopes' = OpenScopes BY <1>1, SameItems DEF OpenScopes
    <3>7. PICK g, args : g = path[1] /\ args = fn.arguments OBVIOUS
    <3>8. ArgumentsOk(sid, g, args)' /\ ExportedThen(g)' = ExportedThen(g)
      BY <1>1, <3>3, <3>7, SameHomes
    <3>9. ArgumentsOk(sid, path[1], fn.arguments)'
      BY <1>1, <3>7, <3>8 DEF ArgumentsOk, Sequence
    <3>10. ExportedThen(path[1])' = ExportedThen(g)' BY <1>1, <3>7 DEF ExportedThen, LinkedThen
    <3>11. ProvidesExternalDefinition(fn.function)' = ExportedThen(path[1])'
      BY <3>3, <3>7, <3>8, <3>10 DEF ProvidesExternalDefinition
    <3>12. ToSet(fn.blockIds) = {sid[c] : c \in OpenScopes'} BY <3>3, <3>6
    <3>13. table'.function = <<fn>> BY <1>1, <3>3
    <3> QED BY <3>2, <3>3, <3>5, <3>9, <3>11, <3>12, <3>13
            DEF FunctionOk, ValuesOk, Rising, ToSet, ProvidesExternalDefinition
  <2> QED BY <2>1, <2>2
<1>9. EndedOk(sid)'
  <2>1. EndedOk(sid) BY DEF Books
  <2>2. \A d : FunctionEnded(d)' <=> FunctionEnded(d) BY <1>1 DEF FunctionEnded
  <2>3. EndedStatics' = EndedStatics BY <1>1, <2>2, SameItems DEF EndedStatics
  <2>4. table'.functionScopeDataHomes = {LocalEntry(sid, d)' : d \in EndedStatics'}
    BY <1>1, <2>1, <2>3, SameHomes DEF EndedOk
  <2>5. \A f : FrameOk(sid, f) => FrameOk(sid, f)' BY <1>1, SameHomes, SameItems DEF FrameOk
  <2>6. \A k \in DOMAIN frames' : FrameOk(sid, frames[k])' BY <1>1, <2>1, <2>5 DEF EndedOk
  <2>7. Sequence(frames)' BY <1>1, <2>1 DEF EndedOk, Sequence
  <2> QED BY <2>4, <2>6, <2>7 DEF EndedOk
<1> QED BY <1>2, <1>3, <1>4, <1>5, <1>6, <1>7, <1>8, <1>9 DEF Books

\* As long as the unit is not refused the table agrees with its source: each entry of a
\* scope that is open was made of the declarations of its name in the construct that the
\* scope belongs to, merged as ValueScope::insertSymbol and SymbolTable::insertSymbol merge
\* them; the frames of finished functions, and what is exported, likewise.
BooksKept == ~hasErrors => BooksExist

\* However long the unit, the books of the symbol table agree with the source.
THEOREM BooksHold == Spec => []BooksKept
<1>1. Init => BooksKept BY BooksAtFirst DEF BooksKept, BooksExist
<1>2. BooksKept /\ Inv /\ Inv' /\ [Next]_vars => BooksKept'
  BY NothingBehindErrors, BooksNext, SameBooks DEF BooksKept, Inv, BooksExist, vars
<1> QED BY <1>1, <1>2, InvHolds, PTL DEF Spec
=============================================================================
