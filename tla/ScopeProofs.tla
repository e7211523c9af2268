---------------------------- MODULE ScopeProofs ----------------------------
(***************************************************************************)
(* What follows from the books of the symbol table: every use of a name    *)
(* denotes what the scopes of C say; between two functions the homes of    *)
(* objects, the frames of functions and what is exported are what the      *)
(* declarations say together; and a unit is refused at the first thing in  *)
(* it that violates a constraint of C, and only there.                     *)
(***************************************************************************)
EXTENDS ScopeBooks, FiniteSetTheorems

-----------------------------------------------------------------------------
(* Every use denotes what the scopes of C say.                             *)

UsesOk ==
    ~hasErrors =>
        /\ \A name \in Names : Confused(name) \/ Identify(table, name) = Meaning(Visible(name))
        /\ \A d, e \in DOMAIN source :
               d # e /\ HasObject(d) /\ HasObject(e) => Denoted(d) # Denoted(e)

LEMMA UsesHold ==
    ASSUME Inv, BooksKept
    PROVE  UsesOk
BY MeaningOfNames, ObjectsApart DEF UsesOk, Inv, BooksKept, BooksExist

(* The last item: what its initializer mentions.                           *)
MentionOk(d, name) ==
    \/ Confused(name) \/ NotYetDeclared(d, name)
    \/ store[d].mentioned = Meaning(Scoped(d, name))

MentionsOk == \A d \in {Len(source)} : d > 0 => \A name \in Mentions(d) : MentionOk(d, name)

LEMMA ChainPopped ==
    ASSUME NEW p \in Seq(Nat), p # <<>>, Rising(p), Chain(p), NEW q, q = Front(p)
    PROVE  Chain(q)
<1>3. /\ q \in Seq(Nat) /\ Len(p) >= 1 /\ Len(p) \in Nat /\ DOMAIN p = 1 .. Len(p)
      /\ DOMAIN q = 1 .. Len(p) - 1 /\ Len(q) = Len(p) - 1
      /\ \A i \in 1 .. Len(p) - 1 : q[i] = p[i]
  BY Popped
<1>4. \A k \in DOMAIN q : k \in DOMAIN p /\ q[k] = p[k] /\ SubSeq(q, 1, k - 1) = SubSeq(p, 1, k - 1)
  <2>1. SUFFICES ASSUME NEW k \in DOMAIN q
                 PROVE  /\ k \in DOMAIN p /\ q[k] = p[k]
                        /\ SubSeq(q, 1, k - 1) = SubSeq(p, 1, k - 1)
    OBVIOUS
  <2>2. /\ k \in DOMAIN p /\ q[k] = p[k] /\ k \in Nat /\ k >= 1 /\ k <= Len(p) - 1
    BY <1>3
  <2>4. PICK a, b : a = SubSeq(p, 1, k - 1) /\ b = SubSeq(q, 1, k - 1) OBVIOUS
  <2>5. k - 1 \in 0 .. Len(p) /\ k - 1 \in 0 .. Len(q) BY <1>3, <2>2
  <2>6. a \in Seq(Nat) /\ DOMAIN a = 1 .. k - 1 /\ \A i \in 1 .. k - 1 : a[i] = p[i]
    BY <2>4, <2>5, Prefix
  <2>7. b \in Seq(Nat) /\ DOMAIN b = 1 .. k - 1 /\ \A i \in 1 .. k - 1 : b[i] = q[i]
    BY <1>3, <2>4, <2>5, Prefix
  <2>8. \A i \in 1 .. k - 1 : a[i] = b[i] BY <1>3, <2>2, <2>6, <2>7
  <2>9. a = [i \in 1 .. k - 1 |-> a[i]] /\ b = [i \in 1 .. k - 1 |-> b[i]] BY <2>6, <2>7
  <2>10. a = b BY <2>8, <2>9
  <2> QED BY <2>2, <2>4, <2>10
<1> QED BY <1>4 DEF Chain

(* A name stays confused while more is closed.                             *)
LEMMA ConfusedKept ==
    ASSUME Good, TreeOk, source' = source, path' \in {path, <<>>} \/ (path # <<>> /\ path' = Front(path))
    PROVE  \A n : Confused(n) => Confused(n)'
<1>2. \A n : Declarations(n)' = Declarations(n) /\ LinkedInBlock(n)' = LinkedInBlock(n)
  BY SameItems DEF Declarations, LinkedInBlock
<1>3. \A d, n : Scoped(d, n)' = Scoped(d, n) BY <1>2 DEF Scoped
<1>4. \A n : Visible(n)' \subseteq Visible(n)
  <2>1. SUFFICES ASSUME NEW n, NEW d \in Declarations(n), IsPrefix(source[d].path, path')
                 PROVE  IsPrefix(source[d].path, path)
    BY <1>2 DEF Visible
  <2>2. d \in DOMAIN source BY DEF Declarations
  <2>3. source[d].path \in Seq(Nat) /\ path \in Seq(Nat) /\ Rising(path) /\ Chain(path)
    BY <2>2, Places
  <2>4. Chain(path') /\ path' \in Seq(Nat) /\ ToSet(path') \subseteq ToSet(path)
    <3>1. CASE path' = <<>> BY <3>1 DEF Chain, ToSet
    <3>2. CASE path # <<>> /\ path' = Front(path) BY <2>3, <3>2, Popped, ChainPopped
    <3>3. CASE path' = path BY <2>3, <3>3 DEF Chain, ToSet
    <3> QED BY <3>1, <3>2, <3>3
  <2>5. PICK q : q = path' OBVIOUS
  <2>6. Scope(d) \in {0} \cup ToSet(q) BY <2>1, <2>2, <2>4, <2>5, PrefixByScope
  <2>7. Scope(d) \in {0} \cup ToSet(path) BY <2>4, <2>5, <2>6
  <2> QED BY <2>2, <2>3, <2>7, PrefixByScope
<1>5. \A n : Confused(n) => Confused(n)'
  BY <1>2, <1>3, SameItems, SameFile, <1>4 DEF HidesNoObject, OutOfScope, Confused
<1> QED BY <1>5

LEMMA MentionsClosed ==
    ASSUME Good, TreeOk, MentionsOk, source' = source, path' \in {path, <<>>} \/ (path # <<>> /\ path' = Front(path)),
           \A d \in DOMAIN source : Tag(d) # "goto" => store'[d] = store[d]
    PROVE  MentionsOk'
<1>1. Len(source) \in Nat /\ DOMAIN source = 1 .. Len(source) BY Places
<1>2. \A n : Declarations(n)' = Declarations(n) /\ LinkedInBlock(n)' = LinkedInBlock(n)
  BY SameItems DEF Declarations, LinkedInBlock
<1>3. \A d, n : Scoped(d, n)' = Scoped(d, n) BY <1>2 DEF Scoped
<1>5. \A n : Confused(n) => Confused(n)' BY ConfusedKept
<1>6. \A d : Mentions(d)' = Mentions(d) BY SameItems DEF Mentions
<1>7. \A d, n : NotYetDeclared(d, n)' <=> NotYetDeclared(d, n) BY DEF NotYetDeclared
<1>8. \A d \in DOMAIN source : IsDecl(d) => Denoted(d)' = Denoted(d)
  BY SameItems DEF Denoted, IsDecl, HasObject
<1>9. \A d, n : Meaning(Scoped(d, n))' = Meaning(Scoped(d, n))
  <2>1. SUFFICES ASSUME NEW d, NEW n PROVE Meaning(Scoped(d, n))' = Meaning(Scoped(d, n)) OBVIOUS
  <2>2. PICK s : s = Scoped(d, n) OBVIOUS
  <2>3. s \subseteq DOMAIN source /\ \A e \in s : IsDecl(e)
    BY <2>2 DEF Scoped, Declarations, Declares, IsDecl
  <2>4. s # {} => Max(s) \in s BY <1>1, <2>3, Greatest
  <2>5. Meaning(s)' = Meaning(s) BY <1>8, <2>3, <2>4 DEF Meaning
  <2>6. Meaning(Scoped(d, n))' = Meaning(s)' BY <1>3, <2>2 DEF Meaning
  <2> QED BY <2>2, <2>5, <2>6
<1>10. ASSUME NEW d \in {Len(source)}, d > 0, NEW name \in Mentions(d)'
       PROVE  MentionOk(d, name)'
  <2>1. d \in DOMAIN source BY <1>1, <1>10
  <2>2. name \in Mentions(d) /\ Tag(d) = "object" BY <1>6, <1>10 DEF Mentions
  <2>3. MentionOk(d, name) BY <1>10, <2>2 DEF MentionsOk
  <2>4. store'[d] = store[d] BY <2>1, <2>2
  <2> QED BY <1>5, <1>7, <1>9, <2>3, <2>4 DEF MentionOk
<1> QED BY <1>10 DEF MentionsOk

(* A declaration leaves the meaning of other names alone.                  *)
LEMMA OtherNames ==
    ASSUME Good, Good', TreeOk, Grows, \A d \in DOMAIN source : store'[d] = store[d], NEW h, New = {h},
           path' = path, NEW n, ~Declares(h, n)'
    PROVE  /\ Visible(n)' = Visible(n) /\ Meaning(Visible(n))' = Meaning(Visible(n))
           /\ Confused(n) => Confused(n)'
<1>1. \A d \in DOMAIN source :
          /\ source'[d] = source[d] /\ d \in DOMAIN source' /\ Tag(d)' = Tag(d)
          /\ FileScopeItem(d)' <=> FileScopeItem(d)
          /\ IsFunctionItem(d)' <=> IsFunctionItem(d)
          /\ HasLinkage(d)' <=> HasLinkage(d)
          /\ HasObject(d)' <=> HasObject(d)
          /\ IsDecl(d)' <=> IsDecl(d)
          /\ Declares(d, n)' <=> Declares(d, n)
  BY ItemSame
<1>2. Declarations(n)' = Declarations(n) BY <1>1 DEF Declarations, New
<1>3. \A d \in Declarations(n) : d \in DOMAIN source /\ IsDecl(d)
  BY DEF Declarations, Declares, IsDecl
<1>4. Visible(n)' = Visible(n) BY <1>1, <1>2, <1>3 DEF Visible
<1>5. \A d \in DOMAIN source : Scoped(d, n)' = Scoped(d, n) BY <1>1, <1>2, <1>3 DEF Scoped
<1>6. LinkedInBlock(n)' = LinkedInBlock(n) BY <1>1, <1>2, <1>3 DEF LinkedInBlock
<1>7. HidesNoObject(n) => HidesNoObject(n)'
  BY <1>3, <1>5, <1>6, <1>1 DEF HidesNoObject, LinkedInBlock, Scoped
<1>8. SharedWithEnumerator(n) => SharedWithEnumerator(n)'
  BY <1>1, <1>2, <1>3, <1>6 DEF SharedWithEnumerator
<1>9. OutOfScope(n) => OutOfScope(n)' BY <1>4, <1>6 DEF OutOfScope
<1>10. Confused(n) => Confused(n)' BY <1>7, <1>8, <1>9 DEF Confused
<1>11. \A d \in DOMAIN source : Denoted(d)' = Denoted(d) BY <1>1 DEF Denoted
<1>12. Meaning(Visible(n))' = Meaning(Visible(n))
  BY <1>3, Places, Greatest, <1>11, <1>4 DEF Visible, Meaning
<1> QED BY <1>4, <1>10, <1>12

LEMMA MentionsDeclared ==
    ASSUME Good, Good', NEW sid, Books(sid), NEW item \in Offered.objects, Declaration(item), ~hasErrors',
           UsesOk'
    PROVE  MentionsOk'
<1>1. PICK h : h = Here OBVIOUS
<1>2. /\ Grows /\ New = {h} /\ \A d \in DOMAIN source : store'[d] = store[d]
      /\ h \in Nat /\ SameObject(h, item)' /\ source'[h].path = path /\ ObjectItem(item) /\ path' = path
  BY <1>1, DeclarationFacts
<1>3. TreeOk BY DEF Books
<1>4. Len(source') = h /\ \A e \in DOMAIN source' : e <= h
  <2>1. /\ Len(source) \in Nat /\ DOMAIN source = 1 .. Len(source)
        /\ Len(source') \in Nat /\ DOMAIN source' = 1 .. Len(source')
    BY <1>2, Domains
  <2>2. h = Len(source) + 1 BY <1>1 DEF Here
  <2>3. DOMAIN source' = (1 .. Len(source)) \cup {h} BY <1>2, <2>1, Domains DEF New
  <2>4. PICK k, m : k = Len(source) /\ m = Len(source') OBVIOUS
  <2>5. k \in Nat /\ m \in Nat /\ h = k + 1 /\ 1 .. m = (1 .. k) \cup {h} BY <2>1, <2>2, <2>3, <2>4
  <2>6. m = h BY <2>5
  <2> QED BY <2>1, <2>4, <2>6
<1>5. PICK after : /\ store'[h].mentioned = MentionedBy(Visiting(table, item, after), item)
                   /\ \A n : Identify(table', n) = Identify(after, n)
  BY <1>1, DeclarationBooks DEF VisitedIn
<1>6. SUFFICES ASSUME NEW name \in Mentions(h)' PROVE MentionOk(h, name)'
  BY <1>4 DEF MentionsOk
<1>7. item.init \notin {None, <<None>>} /\ name = item.init[1][1] /\ name \in Names
  BY <1>2, <1>6 DEF SameObject, ObjectItem, Mentions, Initializers
<1>8. store'[h].mentioned = Identify(Visiting(table, item, after), name)
  BY <1>5, <1>7 DEF MentionedBy
<1>9. Scoped(h, name)' = Visible(name)' BY <1>4, <1>2 DEF Declarations, Scoped, Visible
<1>10. CASE item.type # "int[]"
  BY <1>5, <1>8, <1>10, <1>7, <1>9 DEF Visiting, UsesOk, Meaning, MentionOk
<1>11. CASE item.type = "int[]" /\ name = item.name
  BY <1>2, <1>11 DEF SameObject, MentionOk, NotYetDeclared
<1>12. CASE item.type = "int[]" /\ name # item.name
  BY <1>8, <1>12, <1>7, MeaningOfNames, <1>2, <1>3, OtherNames, <1>9 DEF Visiting, SameObject,
     Declares, Meaning, MentionOk
<1> QED BY <1>10, <1>11, <1>12

LEMMA NoMentions ==
    ASSUME NEW l, l = Len(source'), source'[l].what # "object" \/ source'[l].init = <<None>>
    PROVE  MentionsOk'
BY DEF Mentions, Tag, MentionsOk

LEMMA LastNew ==
    ASSUME Good, Grows, New # {},
           \A e \in New : source'[e].what # "object" \/ source'[e].init = <<None>>
    PROVE  MentionsOk'
BY Domains, NoMentions DEF New

LEMMA WrittenMentions ==
    ASSUME Good, NEW it, NEW note, it.what # "object",
           Write(<<it>>, <<note>>) \/ source' = Append(source, it)
    PROVE  MentionsOk'
<1>1. CASE Write(<<it>>, <<note>>)
  <2>1. source' = source \o <<it>> /\ store' = store \o <<note>> BY <1>1 DEF Write
  <2>2. Grows /\ DOMAIN source' \ DOMAIN source = {Here} /\ source'[Here] = it
    BY ONLY Good, <2>1, AddedOne
  <2> QED BY <2>2, LastNew DEF New
<1>2. CASE source' = Append(source, it) BY AppendIs, <1>2, NoMentions DEF Good, TypesOk
<1> QED BY <1>1, <1>2

LEMMA TaggedMentions ==
    ASSUME Good, NEW item, NEW note, "what" \in DOMAIN item, item.what # "object",
           Write(<<Written(item)>>, <<note>>) \/ source' = Append(source, Written(item))
    PROVE  MentionsOk'
BY WrittenIs, WrittenMentions

LEMMA LoopMentions ==
    ASSUME Good, NEW kind, NEW declared, Loop(kind, declared),
           declared = None \/ \E n \in Names : declared = <<n>>
    PROVE  MentionsOk'
<1>1. CASE declared = None BY WrittenIs, <1>1, WrittenMentions DEF Loop
<1>2. CASE \E n \in Names : declared = <<n>>
  <2>1. PICK n \in Names : declared = <<n>> BY <1>2
  <2>2. PICK it, note, v, done, t, h :
            /\ h = Here /\ v = LoopVariable(n, path') /\ it.what = "loop"
            /\ Write(<<it>> \o <<v>>, <<note>> \o <<done.note>>)
    BY <2>1, LoopOpened
  <2>3. PICK vn : vn = done.note OBVIOUS
  <2>4. Grows /\ New = {h, h + 1} /\ source'[h] = it /\ source'[h + 1] = v
    BY <2>2, <2>3, AddedTwo
  <2>5. v.init = <<None>> BY <2>2, LoopVariableIs
  <2> QED BY <2>2, <2>4, <2>5, LastNew
<1> QED BY <1>1, <1>2

LEMMA MentionsNext ==
    ASSUME Good, Good', NEW sid, Books(sid), Next, ~hasErrors', MentionsOk, UsesOk'
    PROVE  MentionsOk'
<1>1. CASE \E item \in Offered.objects : Declaration(item) BY <1>1, MentionsDeclared
<1>2. CASE \E item \in Offered.prototypes : Prototype(item) BY <1>2, PrototypeFacts, LastNew
<1>3. CASE \E item \in Offered.definitions, ps \in Offered.parameters : FunctionDefinition(item, ps)
  <2>1. PICK item \in Offered.definitions, ps \in Offered.parameters : FunctionDefinition(item, ps)
    BY <1>3
  <2>2. PICK n, id, h, y : Defined(sid, item, ps, n, id, h, y) BY <2>1, DefinitionFacts
  <2>3. /\ Grows /\ h \in New /\ source'[h].what = "definition"
        /\ \A k \in 1 .. Len(ps) : source'[h + k].what = "parameter"
        /\ \A e \in New : e = h \/ \E k \in 1 .. Len(ps) : e = h + k
    BY <2>2 DEF Defined
  <2> QED BY <2>3, LastNew
<1>4. CASE \E n \in Offered.names : EnumSpecifier(n) \/ LabeledStatement(n) \/ GotoStatement(n)
  <2>1. PICK n \in Offered.names : EnumSpecifier(n) \/ LabeledStatement(n) \/ GotoStatement(n)
    BY <1>4
  <2>2. CASE EnumSpecifier(n) BY <2>2, TaggedMentions DEF EnumSpecifier
  <2>3. CASE LabeledStatement(n) BY <2>3, TaggedMentions DEF LabeledStatement
  <2>4. CASE GotoStatement(n) BY <2>4, TaggedMentions DEF GotoStatement
  <2> QED BY <2>1, <2>2, <2>3, <2>4
<1>5. CASE Block BY <1>5, TaggedMentions DEF Block
<1>6. CASE \E l \in Offered.loops : Loop(l[1], l[2])
  BY <1>6, MenusAssumption, LoopMentions DEF Good, TypesOk, Offered
<1>7. CASE Switch BY <1>7, TaggedMentions DEF Switch
<1>8. CASE \E value \in CaseValues : CaseLabel(value)
  <2>1. PICK value \in CaseValues : CaseLabel(value) BY <1>8
  <2>2. PICK item : item = [what |-> "case", value |-> value] OBVIOUS
  <2>3. "what" \in DOMAIN item /\ item.what # "object" BY <2>2
  <2>4. source' = Append(source, Written(item)) BY <2>1, <2>2 DEF CaseLabel, WriteLabel
  <2> QED BY <2>3, <2>4, TaggedMentions
<1>9. CASE DefaultLabel
  <2>1. PICK item : item = [what |-> "default"] OBVIOUS
  <2>2. "what" \in DOMAIN item /\ item.what # "object" BY <2>1
  <2>3. source' = Append(source, Written(item)) BY <1>9, <2>1 DEF DefaultLabel, WriteLabel
  <2> QED BY <2>2, <2>3, TaggedMentions
<1>10. CASE \E kind \in {"break", "continue"} : JumpStatement(kind)
  BY <1>10, TaggedMentions DEF JumpStatement
<1>11. CASE EndInner
  BY <1>11, MentionsClosed DEF EndInner, EndBlock, EndLoop, EndSwitch, Open, Books
<1>12. CASE EndFunctionDefinition BY <1>12, EndFunctionIs, MentionsClosed DEF Books
<1> QED BY <1>1, <1>2, <1>3, <1>4, <1>5, <1>6, <1>7, <1>8, <1>9, <1>10, <1>11, <1>12 DEF Next

UsedAsC == ~hasErrors => MentionsOk

\* At every point of a unit that is not refused SymbolTable::lookup finds for each name what
\* C says is visible there, every name an initializer mentioned was found as C says, and two
\* declarations of objects denote one object only where C makes them one.
THEOREM NamesMeanAsWritten == Spec => []NamesAsC
<1>1. Inv /\ BooksKept => UsesOk BY UsesHold
<1>2. Init => UsedAsC BY DEF UsedAsC, Init, MentionsOk
<1>3. UsedAsC /\ Inv /\ Inv' /\ BooksKept /\ UsesOk' /\ [Next]_vars => UsedAsC'
  BY NothingBehindErrors, MentionsNext, MentionsClosed DEF UsedAsC, Inv, BooksKept, BooksExist,
     vars, Books
<1>4. UsesOk /\ UsedAsC => NamesAsC BY DEF NamesAsC, UsesOk, UsedAsC, MentionsOk, MentionOk
<1> QED BY <1>1, <1>2, <1>3, <1>4, InvHolds, BooksHold, PTL DEF Spec

-----------------------------------------------------------------------------
(* Every object has the home that its declarations give it together.       *)

LEMMA HomeNamesApart ==
    ASSUME NEW n, NEW m, NEW k
    PROVE  /\ FileName(n) = FileName(m) => n = m
           /\ StaticName(k, n) # FileName(m)
BY DEF FileName, StaticName

LEMMA InitialIs ==
    ASSUME Good, TreeOk, NEW d \in DOMAIN source
    PROVE  /\ InitialOf({d}) = IF source[d].init = None THEN None ELSE <<d>>
           /\ \A S : {e \in S : source[e].init # None} = {d} => InitialOf(S) = <<d>>
           /\ \A S : {e \in S : source[e].init # None} = {} => InitialOf(S) = None
<1>1. DOMAIN source = 1 .. Len(source) /\ Len(source) \in Nat BY Places
<1>2. Max({d}) = d BY <1>1, Greatest
<1>3. \A S : {e \in S : source[e].init # None} = {d} => InitialOf(S) = <<d>>
  BY <1>2 DEF InitialOf
<1>4. \A S : {e \in S : source[e].init # None} = {} => InitialOf(S) = None
  BY DEF InitialOf
<1>5. source[d].init # None => {e \in {d} : source[e].init # None} = {d} OBVIOUS
<1>6. source[d].init = None => {e \in {d} : source[e].init # None} = {} OBVIOUS
<1> QED BY <1>3, <1>4, <1>5, <1>6

(* A static object of a block.                                             *)
LEMMA StaticHomeIs ==
    ASSUME Good, NEW sid, Books(sid), NEW d \in DOMAIN source, IsStaticLocal(d)
    PROVE  /\ GlobalVariable(LocalEntry(sid, d)) = StaticHome(d)
           /\ \A n : LocalEntry(sid, d).object # FileName(n)
BY InitialIs, HomeNamesApart DEF Books, HoldersOk, IsStaticLocal, LocalEntry, Entry,
   GlobalVariable, EmissionFor, StaticHome, HomeName

(* An object of the file.                                                  *)
LEMMA LinkedObjects ==
    ASSUME Good, NEW sid, Books(sid), NEW n \in Names, ~SharedWithEnumerator(n),
           NEW d \in LinkedOf(n), Tag(d) = "object", NEW e, e = table.global[<<0, n>>]
    PROVE  /\ InFile(n) /\ e.object = FileName(n) /\ ~IsFunction(e) /\ e.value = None
           /\ e \in Entries /\ ObjectEntryOk(n, e)
           /\ e.storage = "static" <=> \E c \in AtFile(n) : source[c].storage = "static"
           /\ \A c \in AtFile(n) :
                  /\ c \in DOMAIN source /\ Tag(c) = "object" /\ DeclOk(c) /\ Compatible(e.type, TypeOf(c))
                  /\ TypeOf(c) \in ObjectTypes
<1>1. InFile(n) /\ LinkedEntryOk(n, e) BY LinkedEntry
<1>2. EntryOk(n, e) /\ e \in Entries BY <1>1 DEF Books, GlobalOk
<1>3. ~IsFunctionItem(d) BY DEF IsFunctionItem
<1>4. \A c \in LinkedOf(n) : c \in DOMAIN source /\ Tag(c) = "object"
  BY <1>3, OneKind DEF LinkedOf, Declarations, HasLinkage
<1>5. FileEnumerators(n) = {}
  <2>1. SUFFICES ASSUME NEW c \in FileEnumerators(n) PROVE FALSE OBVIOUS
  <2>2. e = Enumerator(n, c) BY <1>2 DEF EntryOk
  <2>3. PICK o : o = FileName(n) OBVIOUS
  <2>4. e.value = <<c>> BY <2>2, <2>3 DEF Enumerator, Entry
  <2>5. e.value = None BY <1>1 DEF LinkedEntryOk
  <2>6. \A x : <<x>> # None BY DEF None
  <2> QED BY <2>4, <2>5, <2>6
<1>6. \A c \in AtFile(n) : c \in LinkedOf(n) BY <1>5, AtFileIs
<1>7. \A c \in LinkedOf(n) : c \in AtFile(n) \/ source[c].storage = "extern"
  BY <1>4 DEF LinkedOf, AtFile, HasLinkage, IsFunctionItem
<1>8. ~IsFunction(e) BY <1>1, <1>3 DEF LinkedEntryOk
<1>9. e.storage = "static" <=> \E c \in AtFile(n) : source[c].storage = "static"
  BY <1>1, <1>6, <1>7 DEF LinkedEntryOk
<1>10. \A c \in AtFile(n) :
          /\ c \in DOMAIN source /\ Tag(c) = "object" /\ DeclOk(c) /\ Compatible(e.type, TypeOf(c))
          /\ TypeOf(c) \in ObjectTypes
  BY <1>4, <1>6, Facts, <1>1 DEF LinkedEntryOk, TypeOfAny, IsFunctionItem, DeclOk, TypeOf,
     ObjectTypes
<1> QED BY <1>1, <1>2, <1>8, <1>9, <1>10 DEF LinkedEntryOk

LEMMA LinkedType ==
    ASSUME Good, NEW sid, Books(sid), NEW n \in Names, ~SharedWithEnumerator(n),
           NEW d \in LinkedOf(n), Tag(d) = "object", NEW e, e = table.global[<<0, n>>],
           NEW c \in AtFile(n), source[c].storage # "extern" \/ source[c].init # None
    PROVE  e.type = CompositeOf({TypeOf(a) : a \in AtFile(n)})
<1>1. /\ e \in Entries /\ ~IsFunction(e) /\ ObjectEntryOk(n, e)
      /\ \A a \in AtFile(n) :
             /\ a \in DOMAIN source /\ Tag(a) = "object" /\ DeclOk(a) /\ Compatible(e.type, TypeOf(a))
             /\ TypeOf(a) \in ObjectTypes
  BY LinkedObjects
<1>2. PICK types : types = {TypeOf(a) : a \in AtFile(n)} OBVIOUS
<1>3. e.type \in ObjectTypes BY <1>1 DEF Entries, IsFunction
<1>4. \A t \in types : t \in ObjectTypes /\ Compatible(e.type, t) BY <1>1, <1>2
<1>5. CASE "int[3]" \in types BY <1>2, <1>5, <1>1 DEF ObjectEntryOk, CompositeOf
<1>6. CASE "int[3]" \notin types
  <2>1. TypeOf(c) # "int[]" BY <1>1 DEF DeclOk
  <2>2. TypeOf(c) \in types /\ TypeOf(c) \in {"int", "long"} BY <1>2, <1>4, <1>6, <2>1 DEF ObjectTypes
  <2>3. \A a, b \in ObjectTypes : Compatible(a, b) <=> a = b \/ {a, b} = {"int[]", "int[3]"}
    BY DEF Compatible, Composite, None
  <2>4. PICK x : x = TypeOf(c) OBVIOUS
  <2>5. x \in types /\ x \in {"int", "long"} BY <2>2, <2>4
  <2>6. e.type = x
    <3>1. e.type = x \/ {e.type, x} = {"int[]", "int[3]"} BY <1>3, <1>4, <2>3, <2>5
    <3>2. x \notin {"int[]", "int[3]"} BY <2>5
    <3>3. x \in {e.type, x} OBVIOUS
    <3> QED BY <3>1, <3>2, <3>3
  <2>7. \A t \in types : t = x BY <1>3, <1>4, <2>3, <2>5, <2>6
  <2>8. types = {x} BY <2>5, <2>7
  <2>9. (CHOOSE t \in {x} : TRUE) = x OBVIOUS
  <2> QED BY <1>2, <1>6, <2>6, <2>8, <2>9 DEF CompositeOf
<1> QED BY <1>5, <1>6

LEMMA LinkedHomeIs ==
    ASSUME Good, NEW sid, Books(sid), NEW n \in Names, ~SharedWithEnumerator(n),
           NEW d \in LinkedOf(n), Tag(d) = "object", NEW e, e = table.global[<<0, n>>]
    PROVE  GlobalVariable(e) = LinkedHome(n)
<1>1. /\ e.object = FileName(n) /\ ObjectEntryOk(n, e)
      /\ e.storage = "static" <=> \E c \in AtFile(n) : source[c].storage = "static"
      /\ \A c \in AtFile(n) : c \in DOMAIN source
  BY LinkedObjects
<1>2. PICK defining : defining = {c \in AtFile(n) : source[c].storage # "extern" \/ source[c].init # None}
  OBVIOUS
<1>3. e.storage = "extern" <=> defining = {} BY <1>1, <1>2 DEF ObjectEntryOk
<1>4. EmissionFor(e) =
          IF defining = {} THEN "reference"
          ELSE IF \E c \in AtFile(n) : source[c].storage = "static" THEN "internal" ELSE "external"
  BY <1>1, <1>3 DEF EmissionFor
<1>5. e.staticInit = InitialOf(AtFile(n))
  BY <1>1, InitialIs DEF ObjectEntryOk, Books, LinkedOf, Declarations
<1>6. defining # {} => e.type = CompositeOf({TypeOf(c) : c \in AtFile(n)}) BY <1>2, LinkedType
<1>7. PICK o, init, type, emission :
          /\ o = FileName(n) /\ init = InitialOf(AtFile(n)) /\ emission = EmissionFor(e)
          /\ type = (IF e.storage = "extern" THEN "int" ELSE e.type)
  OBVIOUS
<1>8. GlobalVariable(e) = [object |-> o, emission |-> emission, init |-> init, type |-> type]
  BY <1>1, <1>5, <1>7 DEF GlobalVariable
<1>9. LinkedHome(n) = [object |-> o, emission |-> emission, init |-> init, type |-> type]
  BY <1>3, <1>6, <1>7, <1>2, <1>4 DEF LinkedHome
<1> QED BY <1>8, <1>9

Apart == {FileName(n) : n \in {m \in Names : SharedWithEnumerator(m)}}

LinkedNames ==
    {n \in Names : ~SharedWithEnumerator(n)
                       /\ \E d \in Declarations(n) : Tag(d) = "object" /\ HasLinkage(d)}

FileHomes ==
    {e \in {table.global[key] : key \in DOMAIN table.global} :
         IsGlobal(e) /\ ~IsFunction(e) /\ ~IsEnumerator(e)}

LEMMA FileHomesAre ==
    ASSUME Good, NEW sid, Books(sid)
    PROVE  {GlobalVariable(e) : e \in {h \in FileHomes : h.object \notin Apart}} =
               {LinkedHome(n) : n \in LinkedNames}
<1>1. DOMAIN table.global = {<<0, n>> : n \in {m \in Names : InFile(m)}} BY DEF Books, GlobalOk
<1>2. ASSUME NEW n \in LinkedNames
      PROVE  \E e \in FileHomes : e.object \notin Apart /\ GlobalVariable(e) = LinkedHome(n)
  <2>1. n \in Names /\ ~SharedWithEnumerator(n) BY <1>2 DEF LinkedNames
  <2>2. PICK d \in LinkedOf(n) : Tag(d) = "object" BY <1>2 DEF LinkedNames, LinkedOf
  <2>3. PICK e : e = table.global[<<0, n>>] OBVIOUS
  <2>4. /\ InFile(n) /\ e.object = FileName(n) /\ ~IsFunction(e) /\ e.value = None
        /\ ObjectEntryOk(n, e)
    BY <2>1, <2>2, <2>3, LinkedObjects
  <2>5. GlobalVariable(e) = LinkedHome(n) BY <2>1, <2>2, <2>3, LinkedHomeIs
  <2>6. <<0, n>> \in DOMAIN table.global BY <1>1, <2>1, <2>4
  <2>7. IsGlobal(e) BY <2>4 DEF IsGlobal, ObjectEntryOk
  <2>8. e \in FileHomes BY <2>3, <2>4, <2>6, <2>7 DEF FileHomes, IsEnumerator
  <2>9. FileName(n) \notin Apart BY <2>1, HomeNamesApart DEF Apart
  <2> QED BY <2>4, <2>5, <2>8, <2>9
<1>3. ASSUME NEW e \in FileHomes, e.object \notin Apart
      PROVE  \E n \in LinkedNames : GlobalVariable(e) = LinkedHome(n)
  <2>1. PICK key \in DOMAIN table.global : e = table.global[key] BY <1>3 DEF FileHomes
  <2>2. PICK n \in Names : key = <<0, n>> /\ InFile(n) BY <1>1, <2>1
  <2>3. e = table.global[<<0, n>>] BY <2>1, <2>2
  <2>4. e.object = FileName(n) BY <2>2, <2>3 DEF Books, GlobalOk
  <2>5. ~SharedWithEnumerator(n) BY <1>3, <2>4 DEF Apart
  <2>6. EntryOk(n, e) BY <2>2, <2>3, <2>5 DEF Books, GlobalOk
  <2>7. FileEnumerators(n) = {}
    <3>1. SUFFICES ASSUME NEW c \in FileEnumerators(n) PROVE FALSE OBVIOUS
    <3>2. e = Enumerator(n, c) BY <2>6 DEF EntryOk
    <3>3. PICK o : o = FileName(n) OBVIOUS
    <3>4. e.value = <<c>> BY <3>2, <3>3 DEF Enumerator, Entry
    <3>5. e.value = None BY <1>3 DEF FileHomes, IsEnumerator
    <3>6. \A x : <<x>> # None BY DEF None
    <3> QED BY <3>4, <3>5, <3>6
  <2>8. PICK d : d \in LinkedOf(n) BY <2>2, <2>7 DEF InFile
  <2>9. ~IsFunctionItem(d) BY <2>6, <2>8, <1>3 DEF EntryOk, FileHomes, LinkedEntryOk
  <2>10. d \in Declarations(n) /\ HasLinkage(d) BY <2>8 DEF LinkedOf
  <2>11. Tag(d) = "object" BY <2>9, <2>10 DEF HasLinkage
  <2>12. n \in LinkedNames BY <2>5, <2>10, <2>11 DEF LinkedNames
  <2> QED BY <2>3, <2>5, <2>8, <2>11, <2>12, LinkedHomeIs
<1> QED BY <1>2, <1>3

LEMMA ObjectHomes ==
    ASSUME Good, NEW sid, Books(sid), path = <<>>
    PROVE  {GlobalVariable(e) : e \in {h \in DataHomes(table) : h.object \notin Apart}} =
               {LinkedHome(n) : n \in LinkedNames}
                   \cup {StaticHome(d) : d \in {e \in DOMAIN source : IsStaticLocal(e)}}
<1>1. PICK statics : statics = {e \in DOMAIN source : IsStaticLocal(e)} OBVIOUS
<1>2. table.functionScopeDataHomes = {LocalEntry(sid, d) : d \in statics}
  BY <1>1 DEF EndedStatics, FunctionEnded, Books, EndedOk
<1>3. \A d \in statics :
          /\ GlobalVariable(LocalEntry(sid, d)) = StaticHome(d)
          /\ LocalEntry(sid, d).object \notin Apart BY <1>1, StaticHomeIs DEF Apart
<1>4. DataHomes(table) = FileHomes \cup {LocalEntry(sid, d) : d \in statics}
  BY <1>2 DEF DataHomes, FileHomes
<1>5. PICK homes : homes = {h \in FileHomes : h.object \notin Apart} OBVIOUS
<1>6. {h \in DataHomes(table) : h.object \notin Apart} = homes \cup {LocalEntry(sid, d) : d \in statics}
  BY <1>3, <1>4, <1>5
<1>7. {GlobalVariable(e) : e \in homes} = {LinkedHome(n) : n \in LinkedNames} BY <1>5, FileHomesAre
<1>8. {GlobalVariable(e) : e \in homes \cup {LocalEntry(sid, d) : d \in statics}} =
          {GlobalVariable(e) : e \in homes} \cup {StaticHome(d) : d \in statics}
  BY ONLY <1>3
<1> QED BY <1>1, <1>6, <1>7, <1>8

LEMMA FrameFacts ==
    ASSUME Good, NEW sid, Books(sid), NEW f \in ToSet(frames)
    PROVE  /\ FrameOk(sid, f) /\ f.at \in DOMAIN source /\ f.at \in Nat
           /\ Len(f.arguments) \in Nat /\ DOMAIN f.arguments = 1 .. Len(f.arguments)
<1>1. PICK k \in DOMAIN frames : f = frames[k] BY DEF ToSet
<1>2. FrameOk(sid, f) BY <1>1 DEF Books, EndedOk
<1>3. f.at \in DOMAIN source BY <1>2 DEF FrameOk
<1>4. f.at \in Nat BY <1>3, Places DEF Books
<1>5. PICK args : args = f.arguments OBVIOUS
<1>6. args \in Seq(ToSet(args)) BY <1>2, <1>5 DEF FrameOk, ArgumentsOk, Sequence
<1>7. Len(args) \in Nat /\ DOMAIN args = 1 .. Len(args) BY <1>6
<1> QED BY <1>2, <1>3, <1>4, <1>5, <1>7

Mine(f) == {d \in DOMAIN source : HasObject(d) /\ InFunction(d, f.at) /\ ~IsStaticLocal(d)}

LEMMA FrameParameters ==
    ASSUME Good, NEW sid, Books(sid), NEW f \in ToSet(frames), NEW g, g = f.at, NEW args, args = f.arguments
    PROVE  /\ {d \in Mine(f) : Tag(d) = "parameter"} = {g + k : k \in 1 .. Len(args)}
           /\ \A k \in DOMAIN args : args[k].object = store[g + k].holder
<1>1. /\ ArgumentsOk(sid, g, args) /\ g \in Nat /\ Len(args) \in Nat /\ DOMAIN args = 1 .. Len(args)
      /\ g \in DOMAIN source
  BY FrameFacts DEF FrameOk
<1>2. \A d \in DOMAIN source :
          Tag(d) = "parameter" => HasObject(d) /\ ~IsStaticLocal(d) /\ source[d].path # <<>>
  BY ObjectsInBlocks DEF HasObject, HasLinkage, IsFunctionItem, IsStaticLocal
<1>3. \A k \in 1 .. Len(args) :
          /\ g + k \in Mine(f) /\ Tag(g + k) = "parameter"
          /\ args[k].object = store[g + k].holder
  <2>1. SUFFICES ASSUME NEW k \in 1 .. Len(args)
                 PROVE  /\ g + k \in Mine(f) /\ Tag(g + k) = "parameter"
                        /\ args[k].object = store[g + k].holder
    OBVIOUS
  <2>2. PICK d : d = g + k OBVIOUS
  <2>3. /\ d \in DOMAIN source /\ Tag(d) = "parameter" /\ source[d].path = <<g>>
        /\ args[k] = Entry(LocalName(sid[g], source[d].name), "int", "automatic")
    BY <1>1, <2>2 DEF ArgumentsOk
  <2>4. HasObject(d) /\ ~IsStaticLocal(d) BY <1>2, <2>3
  <2>5. <<g>> # <<>> /\ <<g>>[1] = g /\ Last(<<g>>) = g BY DEF Last
  <2>6. InFunction(d, g) BY <2>3, <2>5 DEF InFunction
  <2>7. d \in Mine(f) BY <2>3, <2>4, <2>6 DEF Mine
  <2>8. Scope(d) = g BY <2>3, <2>5 DEF Scope
  <2>9. store[d].holder = HomeName(sid, d) BY <2>3, <2>4 DEF Books, HoldersOk
  <2>10. PICK o : o = LocalName(sid[g], source[d].name) OBVIOUS
  <2>11. HomeName(sid, d) = o BY <2>3, <2>8, <2>10 DEF HomeName
  <2>12. args[k].object = o BY <2>3, <2>10 DEF Entry
  <2> QED BY <2>2, <2>3, <2>7, <2>9, <2>11, <2>12
<1>4. \A d \in Mine(f) : Tag(d) = "parameter" => \E k \in 1 .. Len(args) : d = g + k
  BY <1>1 DEF Mine, InFunction, ArgumentsOk
<1> QED BY <1>1, <1>3, <1>4

LEMMA FrameLocals ==
    ASSUME Good, NEW sid, Books(sid), NEW f \in ToSet(frames)
    PROVE  {e.object : e \in f.locals} = {store[d].holder : d \in {c \in Mine(f) : Tag(c) = "object"}}
<1>1. PICK autos : autos = AutomaticsOf(f.at) OBVIOUS
<1>2. {c \in Mine(f) : Tag(c) = "object"} = autos BY <1>1 DEF Mine, AutomaticsOf
<1>3. f.locals = {LocalEntry(sid, d) : d \in autos} BY <1>1, FrameFacts DEF FrameOk
<1>4. \A d \in autos : LocalEntry(sid, d).object = store[d].holder
  BY <1>1 DEF AutomaticsOf, IsStaticLocal, LocalEntry, Entry, Books, HoldersOk
<1>5. {e.object : e \in {LocalEntry(sid, d) : d \in autos}} = {store[d].holder : d \in autos}
  BY ONLY <1>4
<1> QED BY <1>2, <1>3, <1>5

LEMMA FrameHolds ==
    ASSUME Good, NEW sid, Books(sid), NEW f \in ToSet(frames)
    PROVE  /\ {e.object : e \in f.locals} \cup {e.object : e \in ToSet(f.arguments)} =
                  {store[d].holder : d \in Mine(f)}
           /\ Len(f.arguments) = Cardinality({d \in Mine(f) : Tag(d) = "parameter"})
<1>1. PICK g, args, n : g = f.at /\ args = f.arguments /\ n = Len(args) OBVIOUS
<1>2. /\ g \in Nat /\ n \in Nat /\ DOMAIN args = 1 .. n BY <1>1, FrameFacts
<1>3. PICK ps, os : /\ ps = {d \in Mine(f) : Tag(d) = "parameter"}
                    /\ os = {d \in Mine(f) : Tag(d) = "object"}
  OBVIOUS
<1>4. ps = {g + k : k \in 1 .. n} /\ \A k \in 1 .. n : args[k].object = store[g + k].holder
  <2>1. /\ {d \in Mine(f) : Tag(d) = "parameter"} = {g + k : k \in 1 .. Len(args)}
        /\ \A k \in DOMAIN args : args[k].object = store[g + k].holder
    BY ONLY SMTT(30), Good, Books(sid), f \in ToSet(frames), <1>1, FrameParameters
  <2>2. Len(args) = n BY <1>1
  <2>3. ps = {g + k : k \in 1 .. Len(args)} BY ONLY <1>3, <2>1
  <2> QED BY ONLY <1>2, <2>1, <2>2, <2>3
<1>5. ToSet(args) = {args[k] : k \in 1 .. n}
  BY <1>1, FrameFacts, <1>2 DEF FrameOk, ArgumentsOk, Sequence, ToSet
<1>6. {e.object : e \in ToSet(args)} = {store[d].holder : d \in ps} BY <1>4, <1>5
<1>7. Mine(f) = os \cup ps BY <1>3 DEF Mine, HasObject
<1>8. {store[d].holder : d \in os \cup ps} = {store[d].holder : d \in os} \cup {store[d].holder : d \in ps}
  OBVIOUS
<1>9. {e.object : e \in f.locals} = {store[d].holder : d \in os} BY <1>3, FrameLocals
<1>10. Cardinality(ps) = n
  <2>1. ps = g + 1 .. g + n
    <3>1. \A x : x \in ps <=> \E k \in 1 .. n : x = g + k BY <1>4
    <3>2. \A x \in g + 1 .. g + n : x - g \in 1 .. n /\ x = g + (x - g) BY <1>2
    <3>3. \A k \in 1 .. n : g + k \in g + 1 .. g + n BY <1>2
    <3> QED BY ZenonT(30), <3>1, <3>2, <3>3
  <2>2. Cardinality(g + 1 .. g + n) = IF g + 1 > g + n THEN 0 ELSE (g + n) - (g + 1) + 1
    BY <1>2, FS_Interval
  <2> QED BY <1>2, <2>1, <2>2
<1> QED BY <1>1, <1>3, <1>6, <1>7, <1>8, <1>9, <1>10

LEMMA SettledExports ==
    ASSUME Good, NEW sid, Books(sid), NEW g \in DOMAIN source, Tag(g) = "definition", Settled(g)
    PROVE  ExportedThen(g) <=> ExternallyDefined(source[g].name)
<1>1. PICK n : n = source[g].name OBVIOUS
<1>2. LinkedInBlock(n) = {} /\ \A d \in AtFile(n) : d <= g BY <1>1 DEF Settled
<1>3. FileEnumerators(n) = {}
  BY Facts, <1>1 DEF FileEnumerators, Declarations, DeclOk, Scope, FileScopeItem, IsDecl,
     Declares, ScopeOk
<1>4. LinkedThen(g) = AtFile(n)
  BY <1>2, <1>3, AtFileIs, <1>1 DEF LinkedInBlock, LinkedOf, AtFile, LinkedThen
<1> QED BY <1>1, <1>4 DEF ExportedThen, ExternallyDefined

LEMMA ExportsHold ==
    ASSUME Good, NEW sid, Books(sid), NEW f \in ToSet(frames), Settled(f.at)
    PROVE  f.exported = ExternallyDefined(source[f.at].name)
BY FrameFacts, SettledExports DEF FrameOk, ExportedThen, ExternallyDefined

LEMMA HomesHold ==
    ASSUME Good, NEW sid, Books(sid), path = <<>>
    PROVE  HomesAsC
BY ObjectHomes, FrameHolds, ExportsHold DEF HomesAsC, Apart, LinkedNames, Mine

\* Between two functions every object with static storage has one home, with the linkage,
\* the type and the initial value that all its declarations give it together; the frame of
\* each finished function holds its automatic objects and parameters; and a function is
\* exported exactly if C makes its definition an external one (SymbolTable::getDataHomes,
\* FunctionFrame).
THEOREM HomesAreAsDeclared == Spec => []HomesAsC
<1>1. Inv /\ BooksKept => HomesAsC BY HomesHold DEF HomesAsC, BooksKept, BooksExist, Inv
<1> QED BY <1>1, InvHolds, BooksHold, PTL

-----------------------------------------------------------------------------
(* What is refused.                                                        *)

LastItem == Max({0} \cup {e \in DOMAIN source : Tag(e) # "parameter"})

RefusedFor(d) ==
    \/ Violates(d) \/ LabelMissing
    \/ IsDeclaration(d) /\ (Undefined(d) \/ WronglyRefused(d))

AcceptedFor(d) == Violates(d) => IsDeclaration(d) /\ WronglyAccepted(d)

NoLabelMissing == ~hasErrors => ~LabelMissing

LEMMA LabelsPresent ==
    ASSUME Inv
    PROVE  NoLabelMissing
BY DEF NoLabelMissing, LabelMissing, Inv, Good, SettledOk, GotoOk

(* One item, and parameters behind it.                                     *)
Begins(h, it) ==
    /\ Grows /\ h \in New /\ h = Len(source) + 1 /\ source'[h] = it /\ it.path = path
    /\ it.what # "parameter" /\ \A e \in New : e # h => source'[e].what = "parameter"

LEMMA BeginsIs ==
    ASSUME Good, NEW h, NEW it, Begins(h, it)
    PROVE  /\ Grows /\ h \in Nat /\ h > 0 /\ h \in DOMAIN source' /\ h \notin DOMAIN source
           /\ source'[h].path = path /\ source'[h].what = it.what
           /\ LastItem' = h
           /\ \A d \in DOMAIN source : d \in DOMAIN source' /\ d \in Nat /\ d < h /\ source'[d] = source[d]
           /\ \A d \in DOMAIN source' : d < h <=> d \in DOMAIN source
           /\ \A d \in DOMAIN source' : d \in Nat /\ d > 0 /\ (d <= h <=> d \in DOMAIN source \cup {h})
<1>1. /\ Len(source) \in Nat /\ DOMAIN source = 1 .. Len(source)
      /\ Len(source') \in Nat /\ DOMAIN source' = 1 .. Len(source')
      /\ DOMAIN source \subseteq DOMAIN source' /\ Grows
      /\ h = Len(source) + 1 /\ h \in DOMAIN source' /\ h \notin DOMAIN source
  BY Domains DEF Begins, New
<1>2. h \in Nat /\ h > 0 BY <1>1
<1>3. \A d \in DOMAIN source : d \in DOMAIN source' /\ d \in Nat /\ d < h /\ source'[d] = source[d]
  BY <1>1 DEF Grows
<1>4. \A d \in DOMAIN source' : d \in Nat /\ d > 0 /\ (d < h <=> d \in DOMAIN source)
  BY <1>1
<1>5. \A d \in DOMAIN source' : d <= h <=> d \in DOMAIN source \cup {h} BY <1>1
<1>6. LastItem' = h
  <2> DEFINE S == {0} \cup {e \in DOMAIN source' : source'[e].what # "parameter"}
  <2>1. S \subseteq Nat BY <1>4
  <2>2. h \in S BY <1>1 DEF Begins
  <2>3. \A x \in S : x <= h BY <1>2, <1>1 DEF Begins, New
  <2> HIDE DEF S
  <2>4. Max(S) = h BY <2>1, <2>2, <2>3, MaxIs
  <2> QED BY <2>4 DEF S, LastItem, Tag
<1>7. source'[h].path = path /\ source'[h].what = it.what BY DEF Begins
<1> QED BY <1>1, <1>2, <1>3, <1>4, <1>5, <1>6, <1>7

LEMMA OneBegins ==
    ASSUME Good, NEW item, "what" \in DOMAIN item, item.what # "parameter", NEW h, h = Here,
           \/ \E note : Write(<<Written(item)>>, <<note>>)
           \/ \E on : WriteLabel(item, on)
    PROVE  Begins(h, Written(item))
<1>1. PICK it : it = Written(item) OBVIOUS
<1>2. it.path = path /\ it.what = item.what BY <1>1, WrittenIs
<1>3. Sequence(source) /\ Sequence(store) /\ Len(store) = Len(source) BY DEF Good, TypesOk
<1>4. Len(source) \in Nat /\ DOMAIN source = 1 .. Len(source) /\ h = Len(source) + 1
  BY JumpsType DEF Here
<1>5. CASE \E note : Write(<<Written(item)>>, <<note>>)
  <2>1. PICK note : source' = source \o <<it>> /\ store' = store \o <<note>> BY <1>1, <1>5 DEF Write
  <2>2. Grows /\ New = {h} /\ source'[h] = it BY <2>1, AddedOne DEF New
  <2> QED BY <1>1, <1>2, <1>4, <2>2 DEF Begins
<1>6. CASE \E on : WriteLabel(item, on)
  <2>1. PICK on : WriteLabel(item, on) BY <1>6
  <2>2. PICK noted, note :
            /\ noted = IF jumps.switchStack = <<>> THEN store
                       ELSE [store EXCEPT ![Last(jumps.switchStack)] = on]
            /\ note = [label |-> jumps.nextLabel + 1]
            /\ source' = Append(source, it) /\ store' = Append(noted, note)
    BY <1>1, <2>1 DEF WriteLabel
  <2>3. Sequence(noted) /\ Len(noted) = Len(source)
    <3>1. CASE jumps.switchStack = <<>> BY <1>3, <2>2, <3>1
    <3>2. CASE jumps.switchStack # <<>>
      <4>1. DOMAIN store = 1 .. Len(source) BY <1>3, <1>4 DEF Sequence
      <4>2. noted = [i \in 1 .. Len(source) |-> noted[i]] BY <2>2, <3>2, <4>1
      <4> QED BY <1>4, <4>2, Tabulated
    <3> QED BY <3>1, <3>2
  <2>4. /\ Sequence(source') /\ Len(source') = Len(source) + 1 /\ DOMAIN source' = 1 .. Len(source) + 1
        /\ \A i \in 1 .. Len(source) : source'[i] = source[i]
        /\ source'[Len(source) + 1] = it
    BY <1>3, <2>2, AppendIs
  <2>5. Sequence(store') /\ Len(store') = Len(source) + 1 BY <2>2, <2>3, AppendIs
  <2>6. Grows BY <1>4, <2>4, <2>5 DEF Grows
  <2>7. New = {h} /\ source'[h] = it BY <1>4, <2>4 DEF New
  <2> QED BY <1>1, <1>2, <1>4, <2>6, <2>7 DEF Begins
<1> QED BY <1>5, <1>6

(* A statement violates a constraint exactly if it is refused.             *)
LEMMA StatementDone ==
    ASSUME Good, NEW h, NEW it, Begins(h, it),
           it.what \notin {"object", "prototype", "definition"},
           hasErrors' => StatementViolates(h)', ~hasErrors' => ~StatementViolates(h)',
           NoLabelMissing'
    PROVE  RefusedAsC'
BY BeginsIs DEF IsDeclaration, Tag, Violates, RefusedFor, AcceptedFor, NoLabelMissing,
   RefusedAsC, LastItem

LEMMA OtherStatement ==
    ASSUME Good, NEW h, NEW it, Begins(h, it),
           it.what \in {"goto", "block", "switch", "enumerator", "loop"}, ~hasErrors', NoLabelMissing'
    PROVE  RefusedAsC'
BY BeginsIs, StatementDone DEF StatementViolates, Tag

(* What a statement may not be, one kind after the other.                  *)
TwinOf(d, e, what) == e \in 1 .. d - 1 /\ Tag(e) = Tag(d) /\ Within(e, what) = Within(d, what)

StatementRule(d) ==
    /\ Tag(d) = "break" => (StatementViolates(d) <=> Within(d, LoopLike) = 0)
    /\ Tag(d) = "continue" => (StatementViolates(d) <=> Within(d, {"loop"}) = 0)
    /\ Tag(d) = "case" =>
           (StatementViolates(d) <=>
                \/ Within(d, {"switch"}) = 0
                \/ \E e : TwinOf(d, e, {"switch"}) /\ source[e].value = source[d].value)
    /\ Tag(d) = "default" =>
           (StatementViolates(d) <=> Within(d, {"switch"}) = 0 \/ \E e : TwinOf(d, e, {"switch"}))
    /\ Tag(d) = "label" =>
           (StatementViolates(d) <=>
                \E e : TwinOf(d, e, {"definition"}) /\ source[e].name = source[d].name)

LEMMA StatementRules ==
    ASSUME NEW d
    PROVE  StatementRule(d)
BY DEF StatementViolates, LoopLike, TwinOf, StatementRule

RulesOk == \A d : StatementRule(d)

LEMMA RulesHold == RulesOk'
<1>1. RulesOk BY StatementRules DEF RulesOk
<1> QED BY <1>1, PTL

LEMMA NoneAround ==
    ASSUME NEW S, S = {}
    PROVE  Max({0} \cup S) = 0
BY MaxIs

(* What the stack of loops says of a jump that has no target.              *)
LEMMA NoLoops ==
    ASSUME Good
    PROVE  /\ jumps.loopStack = <<>> => OpenIn(LoopLike) = {} /\ OpenIn({"loop"}) = {}
           /\ jumps.loopStack # <<>> /\ Last(jumps.loopStack).cont = None => OpenIn({"loop"}) = {}
<1>1. PICK f : LoopsAt(f) BY DEF Good, LoopsOpen
<1>2. /\ f \in Seq(Nat) /\ ToSet(f) = OpenIn(LoopLike) /\ Len(f) = Len(jumps.loopStack)
      /\ \A k \in DOMAIN f : LoopEntry(f, k)
  BY <1>1 DEF LoopsAt
<1>3. DOMAIN f = 1 .. Len(f) /\ Len(f) \in Nat BY <1>2
<1>4. OpenIn({"loop"}) \subseteq ToSet(f) /\ \A c \in OpenIn({"loop"}) : Tag(c) = "loop"
  BY <1>2 DEF OpenIn, LoopLike
<1>5. jumps.loopStack \in Seq(LoopFrames) BY JumpsType
<1>6. CASE jumps.loopStack = <<>> BY <1>2, <1>6, <1>3, <1>4 DEF ToSet
<1>7. CASE jumps.loopStack # <<>> /\ Last(jumps.loopStack).cont = None
  <2> DEFINE k == Len(f)
  <2>1. k \in DOMAIN f /\ Last(jumps.loopStack) = jumps.loopStack[k]
    BY <1>2, <1>3, <1>5, <1>7 DEF Last
  <2> HIDE DEF k
  <2>2. LoopEntry(f, k) /\ jumps.loopStack[k].cont = None BY <1>2, <1>7, <2>1
  <2>3. \A x : <<x>> # None BY DEF None
  <2>4. \A i \in 1 .. k : Tag(f[i]) # "loop" BY <2>2, <2>3 DEF LoopEntry
  <2>5. \A c \in ToSet(f) : Tag(c) # "loop" BY <1>3, <2>4 DEF ToSet, k
  <2> QED BY <1>4, <1>7, <2>5
<1> QED BY <1>6, <1>7

LEMMA JumpStatementRefused ==
    ASSUME Good, NEW kind \in {"break", "continue"}, JumpStatement(kind), NoLabelMissing'
    PROVE  RefusedAsC'
<1>1. PICK h, item, it : h = Here /\ item = [what |-> kind] /\ it = Written(item) OBVIOUS
<1>2. /\ \E note : Write(<<Written(item)>>, <<note>>)
      /\ hasErrors' = ((IF jumps.loopStack = <<>> THEN None
                        ELSE IF kind = "break" THEN <<Last(jumps.loopStack).exit>>
                        ELSE Last(jumps.loopStack).cont) = None)
      /\ "what" \in DOMAIN item /\ item.what = kind /\ item.what # "parameter"
  BY <1>1 DEF JumpStatement
<1>3. Begins(h, it) BY <1>1, <1>2, OneBegins
<1>4. it.what = kind BY <1>1, <1>2, WrittenIs
<1>5. Grows /\ source'[h].path = path /\ Tag(h)' = kind
  BY <1>3, <1>4, BeginsIs DEF Tag
<1>6. \A what : Within(h, what)' = Max({0} \cup OpenIn(what)) BY <1>5, WithinFresh
<1>7. StatementRule(h)' BY RulesHold DEF RulesOk
<1>8. \A x : <<x>> # None BY DEF None
<1>9. hasErrors' <=> StatementViolates(h)'
  <2>1. CASE kind = "break"
    <3>1. StatementViolates(h)' <=> Within(h, LoopLike)' = 0 BY <1>5, <1>7, <2>1 DEF StatementRule
    <3>2. CASE jumps.loopStack = <<>> BY <1>6, <3>2, NoLoops, NoneAround, <1>2, <3>1
    <3>3. CASE jumps.loopStack # <<>>
      <4>1. Within(h, LoopLike)' \in DOMAIN source BY <1>6, <3>3, TopLoop
      <4>2. Within(h, LoopLike)' # 0 BY <4>1, JumpsType
      <4> QED BY <1>2, <1>8, <2>1, <3>1, <3>3, <4>2
    <3> QED BY <3>2, <3>3
  <2>2. CASE kind = "continue"
    <3>1. StatementViolates(h)' <=> Within(h, {"loop"})' = 0 BY <1>5, <1>7, <2>2 DEF StatementRule
    <3>2. CASE jumps.loopStack = <<>> \/ Last(jumps.loopStack).cont = None
      BY <1>6, <3>2, NoLoops, NoneAround, <1>2, <2>2, <3>1
    <3>3. CASE jumps.loopStack # <<>> /\ Last(jumps.loopStack).cont # None
      <4>1. Within(h, {"loop"})' \in DOMAIN source BY <1>6, <3>3, TopLoop
      <4>2. Within(h, {"loop"})' # 0 BY <4>1, JumpsType
      <4> QED BY <1>2, <2>2, <3>1, <3>3, <4>2
    <3> QED BY <3>2, <3>3
  <2> QED BY <2>1, <2>2
<1>10. it.what \notin {"object", "prototype", "definition"} BY <1>4
<1> QED BY <1>3, <1>9, <1>10, StatementDone

(* The labels of a switch.                                                 *)
LEMMA SwitchAround ==
    ASSUME Good, NEW h, NEW it, Begins(h, it)
    PROVE  /\ jumps.switchStack = <<>> => Within(h, {"switch"})' = 0
           /\ jumps.switchStack # <<>> =>
                  /\ Within(h, {"switch"})' = Last(jumps.switchStack)
                  /\ Last(jumps.switchStack) # 0 /\ Last(jumps.switchStack) \in DOMAIN source
                  /\ SwitchOk(Last(jumps.switchStack))
           /\ \A e, what : TwinOf(h, e, what)' <=>
                  e \in DOMAIN source /\ Tag(e) = it.what /\ Within(e, what) = Within(h, what)'
<1>1. /\ Grows /\ h \in Nat /\ source'[h].path = path /\ source'[h].what = it.what
      /\ \A d \in DOMAIN source : source'[d] = source[d]
      /\ h = Len(source) + 1
  BY BeginsIs DEF Begins
<1>2. Within(h, {"switch"})' = Max({0} \cup OpenIn({"switch"})) BY <1>1, WithinFresh
<1>3. jumps.switchStack = <<>> => Within(h, {"switch"})' = 0 BY <1>2, TopSwitch, NoneAround
<1>4. jumps.switchStack # <<>> =>
          /\ Within(h, {"switch"})' = Last(jumps.switchStack)
          /\ Last(jumps.switchStack) # 0 /\ Last(jumps.switchStack) \in DOMAIN source
          /\ SwitchOk(Last(jumps.switchStack))
  BY TopSwitch, JumpsType, <1>2 DEF Good, SettledOk
<1>5. ASSUME NEW e, NEW what
      PROVE  TwinOf(h, e, what)' <=>
                 e \in DOMAIN source /\ Tag(e) = it.what /\ Within(e, what) = Within(h, what)'
  BY <1>1, JumpsType, WithinKept DEF Tag, TwinOf
<1> QED BY <1>3, <1>4, <1>5

LEMMA CaseLabelRefused ==
    ASSUME Good, NEW value, CaseLabel(value), NoLabelMissing'
    PROVE  RefusedAsC'
<1>1. PICK h, item, it, sw : /\ h = Here /\ item = [what |-> "case", value |-> value]
                             /\ it = Written(item) /\ sw = Last(jumps.switchStack)
  OBVIOUS
<1>2. /\ \E on : WriteLabel(item, on)
      /\ hasErrors' = \/ jumps.switchStack = <<>>
                      \/ jumps.switchStack # <<>> /\ \E c \in store[sw].cases : c[1] = value
      /\ "what" \in DOMAIN item /\ item.what = "case" /\ item.what # "parameter"
      /\ "value" \in DOMAIN item /\ item.value = value
  BY <1>1 DEF CaseLabel, CurrentSwitch
<1>3. Begins(h, it) BY <1>1, <1>2, OneBegins
<1>4. it.what = "case" /\ it.value = value BY <1>1, <1>2, WrittenIs
<1>5. Tag(h)' = "case" /\ source'[h].value = value
      /\ \A d \in DOMAIN source : source'[d] = source[d]
  BY <1>3, <1>4, BeginsIs DEF Tag, Begins
<1>6. StatementRule(h)' BY RulesHold DEF RulesOk
<1>7. StatementViolates(h)' <=>
          \/ Within(h, {"switch"})' = 0
          \/ \E e : TwinOf(h, e, {"switch"})' /\ source'[e].value = source'[h].value
  BY <1>5, <1>6 DEF StatementRule
<1>8. hasErrors' <=> StatementViolates(h)'
  <2>1. CASE jumps.switchStack = <<>> BY <1>2, <1>3, <1>7, <2>1, SwitchAround
  <2>2. CASE jumps.switchStack # <<>>
    <3>1. /\ Within(h, {"switch"})' = sw /\ sw # 0 /\ SwitchOk(sw)
          /\ \A e : TwinOf(h, e, {"switch"})' <=>
                 e \in DOMAIN source /\ Tag(e) = "case" /\ Within(e, {"switch"}) = sw
      BY <1>1, <1>3, <1>4, <2>2, SwitchAround
    <3>2. \A e : TwinOf(h, e, {"switch"})' <=> e \in OfSwitch(sw, "case")
      BY <3>1 DEF OfSwitch
    <3>3. store[sw].cases = {<<source[c].value, c>> : c \in OfSwitch(sw, "case")}
      BY <3>1 DEF SwitchOk
    <3>4. (\E c \in store[sw].cases : c[1] = value) <=>
              \E e \in OfSwitch(sw, "case") : source[e].value = value
      <4> DEFINE pair(c) == <<source[c].value, c>>
      <4>1. \A c : pair(c)[1] = source[c].value OBVIOUS
      <4>2. store[sw].cases = {pair(c) : c \in OfSwitch(sw, "case")} BY <3>3
      <4> HIDE DEF pair
      <4> QED BY <4>1, <4>2
    <3>5. \A e \in OfSwitch(sw, "case") : source'[e] = source[e] BY <1>5 DEF OfSwitch
    <3> QED BY <1>2, <1>5, <1>7, <2>2, <3>1, <3>2, <3>4, <3>5
  <2> QED BY <2>1, <2>2
<1>9. it.what \notin {"object", "prototype", "definition"} BY <1>4
<1> QED BY <1>3, <1>8, <1>9, StatementDone

LEMMA DefaultLabelRefused ==
    ASSUME Good, DefaultLabel, NoLabelMissing'
    PROVE  RefusedAsC'
<1>1. PICK h, item, it, sw : /\ h = Here /\ item = [what |-> "default"]
                             /\ it = Written(item) /\ sw = Last(jumps.switchStack)
  OBVIOUS
<1>2. /\ \E on : WriteLabel(item, on)
      /\ hasErrors' = \/ jumps.switchStack = <<>>
                      \/ jumps.switchStack # <<>> /\ store[sw].defaultLabel # None
      /\ "what" \in DOMAIN item /\ item.what = "default" /\ item.what # "parameter"
  BY <1>1 DEF DefaultLabel, CurrentSwitch
<1>3. Begins(h, it) BY <1>1, <1>2, OneBegins
<1>4. it.what = "default" BY <1>1, <1>2, WrittenIs
<1>5. Tag(h)' = "default" BY <1>3, <1>4, BeginsIs DEF Tag
<1>6. StatementRule(h)' BY RulesHold DEF RulesOk
<1>7. StatementViolates(h)' <=>
          \/ Within(h, {"switch"})' = 0
          \/ \E e : TwinOf(h, e, {"switch"})'
  BY <1>5, <1>6 DEF StatementRule
<1>8. hasErrors' <=> StatementViolates(h)'
  <2>1. CASE jumps.switchStack = <<>> BY <1>2, <1>3, <1>7, <2>1, SwitchAround
  <2>2. CASE jumps.switchStack # <<>>
    <3>1. /\ Within(h, {"switch"})' = sw /\ sw # 0 /\ SwitchOk(sw)
          /\ \A e : TwinOf(h, e, {"switch"})' <=>
                 e \in DOMAIN source /\ Tag(e) = "default" /\ Within(e, {"switch"}) = sw
      BY <1>1, <1>3, <1>4, <2>2, SwitchAround
    <3>2. \A e : TwinOf(h, e, {"switch"})' <=> e \in OfSwitch(sw, "default")
      BY <3>1 DEF OfSwitch
    <3>3. /\ ToSet(store[sw].defaultLabel) = OfSwitch(sw, "default")
          /\ store[sw].defaultLabel \in {None} \cup {<<n>> : n \in Nat}
      BY <3>1 DEF SwitchOk, SwitchNotes
    <3>4. store[sw].defaultLabel # None <=> \E e : e \in OfSwitch(sw, "default")
      <4>1. CASE store[sw].defaultLabel = None BY <4>1, <3>3 DEF None, ToSet
      <4>2. CASE store[sw].defaultLabel # None BY <3>3, <4>2, Single
      <4> QED BY <4>1, <4>2
    <3> QED BY <1>2, <1>7, <2>2, <3>1, <3>2, <3>4
  <2> QED BY <2>1, <2>2
<1>9. it.what \notin {"object", "prototype", "definition"} BY <1>4
<1> QED BY <1>3, <1>8, <1>9, StatementDone

(* The function around an item is the first construct of its path.         *)
LEMMA FirstOnly ==
    ASSUME NEW p \in Seq(Nat), p # <<>>, \A k \in DOMAIN p : Tag(p[k]) = "definition" <=> k = 1
    PROVE  Max({0} \cup {c \in ToSet(p) : Tag(c) \in {"definition"}}) = p[1]
<1>1. DOMAIN p = 1 .. Len(p) /\ Len(p) \in Nat /\ Len(p) >= 1 OBVIOUS
<1>2. 1 \in DOMAIN p /\ p[1] \in Nat BY <1>1
<1> DEFINE S == {c \in ToSet(p) : Tag(c) \in {"definition"}}
<1>3. S = {p[1]}
  <2>1. p[1] \in S BY <1>2 DEF ToSet
  <2>2. \A c \in S : c = p[1] BY DEF ToSet
  <2> HIDE DEF S
  <2> QED BY <2>1, <2>2
<1> HIDE DEF S
<1>4. {0} \cup S \subseteq Nat /\ p[1] \in {0} \cup S /\ \A x \in {0} \cup S : x <= p[1]
  BY <1>2, <1>3
<1>5. Max({0} \cup S) = p[1] BY <1>4, MaxIs
<1> QED BY <1>5 DEF S

LEMMA LabeledStatementRefused ==
    ASSUME Good, TreeOk, NEW name, LabeledStatement(name), NoLabelMissing'
    PROVE  RefusedAsC'
<1>1. PICK h, item, it : /\ h = Here /\ item = [what |-> "label", name |-> name]
                         /\ it = Written(item)
  OBVIOUS
<1>2. /\ \E note : Write(<<Written(item)>>, <<note>>)
      /\ hasErrors' = \E l \in jumps.namedLabels : l[1] = name
      /\ "what" \in DOMAIN item /\ item.what = "label" /\ item.what # "parameter"
      /\ "name" \in DOMAIN item /\ item.name = name /\ path # <<>>
  BY <1>1 DEF LabeledStatement
<1>3. Begins(h, it) BY <1>1, <1>2, OneBegins
<1>4. it.what = "label" /\ it.name = name BY <1>1, <1>2, WrittenIs
<1>5. /\ Grows /\ Tag(h)' = "label" /\ source'[h].name = name /\ source'[h].path = path
      /\ \A d \in DOMAIN source : source'[d] = source[d]
  BY <1>3, <1>4, BeginsIs DEF Tag, Begins
<1>6. StatementRule(h)' BY RulesHold DEF RulesOk
<1>7. StatementViolates(h)' <=>
          \E e : TwinOf(h, e, {"definition"})' /\ source'[e].name = source'[h].name
  BY <1>5, <1>6 DEF StatementRule
<1>8. Within(h, {"definition"})' = path[1]
  <2>1. Within(h, {"definition"})' = Max({0} \cup OpenIn({"definition"})) BY <1>5, WithinFresh
  <2>2. path \in Seq(Nat) /\ \A k \in DOMAIN path : Tag(path[k]) = "definition" <=> k = 1
    BY DEF Good, PathOk
  <2> QED BY <1>2, <2>1, <2>2, FirstOnly DEF OpenIn
<1>9. ASSUME NEW e \in DOMAIN source, Tag(e) = "label"
      PROVE  Within(e, {"definition"}) = source[e].path[1] /\ source[e].path # <<>>
  BY <1>9, FirstOnly DEF Good, PlacedOk, TreeOk, Within
<1>10. \A e : TwinOf(h, e, {"definition"})' <=>
                 e \in DOMAIN source /\ Tag(e) = "label" /\ InOpenFunction(e)
  BY <1>3, <1>4, SwitchAround, <1>8, <1>9 DEF InOpenFunction
<1>11. jumps.namedLabels = {<<source[l].name, store[l].label>> :
                               l \in {e \in DOMAIN source : Tag(e) = "label" /\ InOpenFunction(e)}}
  BY <1>2 DEF Good, GotosWait
<1>12. (\E l \in jumps.namedLabels : l[1] = name) <=>
           \E e : e \in DOMAIN source /\ Tag(e) = "label" /\ InOpenFunction(e) /\ source[e].name = name
  <2> DEFINE pair(c) == <<source[c].name, store[c].label>>
             mine == {e \in DOMAIN source : Tag(e) = "label" /\ InOpenFunction(e)}
  <2>1. \A c : pair(c)[1] = source[c].name OBVIOUS
  <2>2. jumps.namedLabels = {pair(c) : c \in mine} BY <1>11
  <2>3. \A e : e \in mine <=> e \in DOMAIN source /\ Tag(e) = "label" /\ InOpenFunction(e) OBVIOUS
  <2> HIDE DEF pair, mine
  <2> QED BY <2>1, <2>2, <2>3
<1>13. hasErrors' <=> StatementViolates(h)' BY <1>2, <1>5, <1>7, <1>10, <1>12
<1>14. it.what \notin {"object", "prototype", "definition"} BY <1>4
<1> QED BY <1>3, <1>13, <1>14, StatementDone

(* What is never refused.                                                  *)
LEMMA NeverRefused ==
    ASSUME Good, NEW item, NEW note, "what" \in DOMAIN item,
           item.what \in {"goto", "block", "switch", "enumerator", "loop"},
           Write(<<Written(item)>>, <<note>>), ~hasErrors', NoLabelMissing'
    PROVE  RefusedAsC'
BY OneBegins, WrittenIs, OtherStatement

LEMMA OthersRefused ==
    ASSUME Good, NoLabelMissing',
           (\E n : GotoStatement(n) \/ EnumSpecifier(n)) \/ Block \/ Switch
    PROVE  RefusedAsC'
<1>1. CASE \E n : GotoStatement(n) BY <1>1, NeverRefused DEF GotoStatement, May
<1>2. CASE \E n : EnumSpecifier(n) BY <1>2, NeverRefused DEF EnumSpecifier, May
<1>3. CASE Block BY <1>3, NeverRefused DEF Block, May
<1>4. CASE Switch BY <1>4, NeverRefused DEF Switch, May
<1> QED BY <1>1, <1>2, <1>3, <1>4

LEMMA PlainLoopRefused ==
    ASSUME Good, NEW kind, NEW declared, Loop(kind, declared), declared = None, NoLabelMissing'
    PROVE  RefusedAsC'
<1>1. PICK item : item = [what |-> "loop", kind |-> kind] OBVIOUS
<1>2. PICK note : Write(<<Written(item)>>, <<note>>)
  <2> DEFINE entry == jumps.nextLabel + 1
             own == kind \in {"forIncrement", "do"}
             cont == IF ~own THEN entry ELSE IF kind = "do" THEN entry + 1 ELSE entry + 2
             exit == IF kind = "do" THEN entry + 2 ELSE entry + 1
             note == [entry |-> entry, cont |-> cont, exit |-> exit]
  <2>1. PICK t, u : t = <<>> /\ u = <<>>
                    /\ Write(<<Written(item)>> \o t, <<note>> \o u)
    BY <1>1 DEF Loop
  <2> HIDE DEF note
  <2>2. <<Written(item)>> \o t = <<Written(item)>> /\ <<note>> \o u = <<note>> BY <2>1
  <2> QED BY <2>1, <2>2
<1>3. ~hasErrors' BY DEF Loop
<1>4. "what" \in DOMAIN item /\ item.what = "loop" BY <1>1
<1> QED BY <1>2, <1>3, <1>4, NeverRefused

(* What may be said against a declaration that is refused.                 *)
Internal(d) == \E e \in Linked(d) : source[e].storage = "static"

StaticLate(d) == source[d].storage = "static" /\ Linked(d) # {} /\ ~Internal(d)

PlainLate(d) == Tag(d) = "object" /\ source[d].storage = "" /\ Internal(d)

UndefinedRule(d) ==
    Undefined(d) <=> HasLinkage(d) /\ (StaticLate(d) \/ PlainLate(d) \/ TypesClash(d, Linked(d)))

UndefinedRules == \A d : UndefinedRule(d)

LEMMA UndefinedRulesHold == UndefinedRules'
<1>1. \A d : UndefinedRule(d) BY Zenon DEF UndefinedRule, Undefined, StaticLate, PlainLate, Internal
<1>2. UndefinedRules BY <1>1 DEF UndefinedRules
<1> QED BY <1>2, PTL

Judged(d) == IsDeclaration(d) /\ (Violates(d) \/ Undefined(d) \/ WronglyRefused(d))

LEMMA JudgedRefused ==
    ASSUME Good, NEW h, NEW it, Begins(h, it), hasErrors', Judged(h)'
    PROVE  RefusedAsC'
BY BeginsIs DEF Judged, RefusedFor, RefusedAsC, LastItem

(* Item h declares n.                                                      *)
Declaring(h, it, n) ==
    /\ Good /\ TreeOk /\ Begins(h, it) /\ it.what \in {"object", "prototype", "definition"}
    /\ it.name = n

LEMMA DeclaringIs ==
    ASSUME NEW h, NEW it, NEW n, Declaring(h, it, n)
    PROVE  /\ Good /\ Grows /\ h \in DOMAIN source' /\ h \notin DOMAIN source /\ IsDeclaration(h)'
           /\ source'[h] = it /\ Tag(h)' = it.what /\ source'[h].name = n /\ source'[h].path = path
           /\ FileScopeItem(h)' <=> path = <<>>
           /\ Before(h)' = Declarations(n)
           /\ \A d \in DOMAIN source : Declares(d, n)' <=> Declares(d, n)
           /\ SameScope(h)' = {d \in Declarations(n) : source[d].path = path}
           /\ Linked(h)' = LinkedOf(n)
           /\ Declares(h, n)'
<1>1. /\ Good /\ Grows /\ h \in DOMAIN source' /\ h \notin DOMAIN source
      /\ source'[h] = it /\ it.path = path
      /\ \A d \in DOMAIN source : d \in DOMAIN source'
      /\ \A d \in DOMAIN source' : d < h <=> d \in DOMAIN source
  BY BeginsIs DEF Declaring, Begins
<1>2. /\ Tag(h)' = it.what /\ source'[h].name = n /\ source'[h].path = path
      /\ (FileScopeItem(h)' <=> path = <<>>) /\ IsDeclaration(h)' /\ Declares(h, n)'
  BY <1>1 DEF Declaring, Tag, FileScopeItem, IsDeclaration, Declares
<1>3. \A d \in DOMAIN source : /\ source'[d] = source[d] /\ (HasLinkage(d)' <=> HasLinkage(d))
                               /\ (Declares(d, n)' <=> Declares(d, n))
  BY <1>1, ItemSame
<1>4. \A d : d \in Before(h)' <=> d \in Declarations(n)
  BY <1>2, <1>1, <1>3 DEF Before, Declarations
<1>5. Before(h)' = Declarations(n)
  <2> DEFINE A == Before(h)'
             B == Declarations(n)
  <2>1. \A d : d \in A <=> d \in B BY <1>4
  <2>2. \A d \in A : d \in DOMAIN source' BY DEF Before, Declarations
  <2> HIDE DEF A, B
  <2>3. A = B BY <2>1
  <2> QED BY <2>3 DEF A, B
<1>6. \A d \in Declarations(n) : d \in DOMAIN source BY DEF Declarations
<1>7. SameScope(h)' = {d \in Declarations(n) : source[d].path = path}
  BY <1>2, <1>3, <1>5, <1>6 DEF SameScope
<1>8. Linked(h)' = LinkedOf(n) BY <1>3, <1>5, <1>6 DEF Linked, LinkedOf
<1> QED BY <1>1, <1>2, <1>3, <1>5, <1>7, <1>8

(* There is something else in its scope that has no linkage, or it has     *)
(* none.                                                                   *)
LEMMA JudgedBeside ==
    ASSUME NEW h, NEW it, NEW n, Declaring(h, it, n), NEW d \in Declarations(n), source[d].path = path,
           ~HasLinkage(d) \/ ~HasLinkage(h)'
    PROVE  Judged(h)'
BY DeclaringIs, ItemSame DEF Declarations, DeclarationViolates, Judged, Violates

(* It has another type than an earlier declaration.                        *)
LEMMA JudgedClash ==
    ASSUME NEW h, NEW it, NEW n, Declaring(h, it, n), NEW d \in LinkedOf(n), HasLinkage(h)',
           ~Compatible(TypeOfAny(h)', TypeOfAny(d))
    PROVE  Judged(h)' /\ (source[d].path = path => Violates(h)')
BY DeclaringIs, ItemSame, UndefinedRulesHold DEF Declarations, LinkedOf, TypesClash,
   UndefinedRules, UndefinedRule, DeclarationViolates, Judged, Violates

(* Its name is that of an enumerator of the file.                          *)
LEMMA JudgedShared ==
    ASSUME NEW h, NEW it, NEW n, Declaring(h, it, n), HasLinkage(h)',
           SharedWithEnumerator(n) \/ (FileEnumerators(n) # {} /\ path # <<>>)
    PROVE  Judged(h)'
BY DeclaringIs, ItemSame DEF SharedWithEnumerator, FileEnumerators, Declarations,
   LinkedInBlock, WronglyRefused, Judged

(* It is "static" and no earlier declaration is, or the other way round.   *)
LEMMA JudgedStatic ==
    ASSUME NEW h, NEW it, NEW n, Declaring(h, it, n), HasLinkage(h)', it.storage = "static",
           LinkedOf(n) # {}, \A d \in LinkedOf(n) : source[d].storage # "static"
    PROVE  Judged(h)'
BY DeclaringIs, ItemSame, UndefinedRulesHold DEF LinkedOf, Declarations, StaticLate, Internal,
   UndefinedRules, UndefinedRule, Judged

LEMMA JudgedPlain ==
    ASSUME NEW h, NEW it, NEW n, Declaring(h, it, n), HasLinkage(h)', it.what = "object",
           it.storage \notin {"static", "extern"}, it.storage \in StorageSpecifiers,
           NEW d \in LinkedOf(n), source[d].storage = "static"
    PROVE  Judged(h)'
<1>1. /\ Good /\ Grows /\ IsDeclaration(h)' /\ Linked(h)' = LinkedOf(n) /\ source'[h] = it
      /\ Tag(h)' = "object"
  BY DeclaringIs
<1>2. source'[d] = source[d] BY <1>1, ItemSame DEF LinkedOf, Declarations
<1>3. Internal(h)' BY <1>1, <1>2 DEF Internal
<1>4. source'[h].storage = "" BY Zenon, <1>1 DEF StorageSpecifiers
<1>5. PlainLate(h)' BY Zenon, <1>1, <1>3, <1>4 DEF PlainLate
<1>6. Undefined(h)' BY <1>5, UndefinedRulesHold DEF UndefinedRules, UndefinedRule
<1> QED BY <1>1, <1>6 DEF Judged

(* What the file holds under a name.                                       *)
LEMMA FileFound ==
    ASSUME Good, NEW sid, Books(sid), NEW n \in Names, NEW e, FileScope(table, n) = <<e>>
    PROVE  /\ e \in Entries
           /\ \/ SharedWithEnumerator(n)
              \/ FileEnumerators(n) # {} /\ IsEnumerator(e) /\ ~IsFunction(e)
              \/ LinkedOf(n) # {} /\ LinkedEntryOk(n, e) /\ ~IsEnumerator(e)
<1>1. FileScope(table, n) = IF InFile(n) THEN <<table.global[<<0, n>>]>> ELSE None BY FoundInFile
<1>2. \A x : <<x>> # None /\ (<<x>> = <<e>> => x = e) BY DEF None
<1>3. InFile(n) /\ e = table.global[<<0, n>>] BY <1>1, <1>2
<1>4. GlobalOk BY DEF Books
<1>5. e \in Entries /\ (~SharedWithEnumerator(n) => EntryOk(n, e)) BY <1>3, <1>4 DEF GlobalOk
<1>6. CASE ~SharedWithEnumerator(n) /\ FileEnumerators(n) # {}
  BY <1>5, <1>6, <1>2 DEF EntryOk, Enumerator, Entry, IsEnumerator, IsFunction, FunctionTypes
<1>7. CASE ~SharedWithEnumerator(n) /\ LinkedOf(n) # {}
  BY <1>5, <1>7 DEF EntryOk, LinkedEntryOk, IsEnumerator
<1> QED BY <1>3, <1>5, <1>6, <1>7 DEF InFile

LEMMA LinkedTypes ==
    ASSUME Good, NEW sid, Books(sid), NEW n, NEW d \in LinkedOf(n)
    PROVE  /\ d \in DOMAIN source /\ d \in Declarations(n) /\ HasLinkage(d)
           /\ IsFunctionItem(d) \/ Tag(d) = "object"
           /\ IsFunctionItem(d) => TypeOfAny(d) \in FunctionTypes
           /\ ~IsFunctionItem(d) => TypeOfAny(d) \in ObjectTypes /\ TypeOfAny(d) = TypeOf(d)
BY Facts DEF LinkedOf, Declarations, HasLinkage, DeclOk, TypeOfAny, TypeOf, ObjectTypes

LEMMA TypesApart ==
    ASSUME NEW a \in ObjectTypes, NEW b \in FunctionTypes
    PROVE  ~Compatible(a, b) /\ ~Compatible(b, a)
BY DEF ObjectTypes, FunctionTypes, Composite, None, Compatible

LEMMA CompatibleToo ==
    ASSUME NEW a \in ObjectTypes, NEW b \in ObjectTypes, NEW c \in ObjectTypes,
           Compatible(a, b), Compatible(c, b)
    PROVE  Compatible(a, c)
<1>1. Compatible(b, c) BY DEF None, ObjectTypes, Compatible, Composite
<1> QED BY <1>1, Compatibility

(* A type that does not go with the entry does not go with a declaration.  *)
LEMMA ObjectClash ==
    ASSUME Good, NEW sid, Books(sid), NEW n, LinkedOf(n) # {}, NEW e \in Entries, LinkedEntryOk(n, e),
           NEW type \in ObjectTypes, IsFunction(e) \/ ~Compatible(e.type, type)
    PROVE  \E d \in LinkedOf(n) : ~Compatible(type, TypeOfAny(d))
BY LinkedTypes, TypesApart, CompatibleToo DEF LinkedEntryOk, Entries, IsFunction

LEMMA FunctionClash ==
    ASSUME Good, NEW sid, Books(sid), NEW n, LinkedOf(n) # {}, NEW e \in Entries, LinkedEntryOk(n, e),
           NEW type \in FunctionTypes, ~IsFunction(e) \/ ~Compatible(type, e.type)
    PROVE  \E d \in LinkedOf(n) : ~Compatible(type, TypeOfAny(d))
BY LinkedTypes, TypesApart, FunctionTypesApart DEF LinkedEntryOk, IsFunction

(* An object.                                                              *)
ObjectDeclaring(h, it, n, item) ==
    /\ Declaring(h, it, n) /\ it.what = "object" /\ SameObject(h, item)' /\ ObjectItem(item)
    /\ n = item.name

LEMMA ObjectDeclaringIs ==
    ASSUME NEW h, NEW it, NEW n, NEW item, ObjectDeclaring(h, it, n, item)
    PROVE  /\ Declaring(h, it, n) /\ n \in Names /\ Tag(h)' = "object" /\ IsDeclaration(h)'
           /\ source'[h].storage = item.storage /\ source'[h].type = item.type
           /\ source'[h].init = item.init /\ source'[h].name = n
           /\ it.storage = item.storage
           /\ ~IsFunctionItem(h)' /\ TypeOf(h)' = TypeFor(item) /\ TypeOfAny(h)' = TypeFor(item)
           /\ FileScopeItem(h)' <=> path = <<>>
           /\ HasLinkage(h)' <=> path = <<>> \/ item.storage = "extern"
           /\ TypeFor(item) \in ObjectTypes
BY DeclaringIs, TypeForIs DEF ObjectDeclaring, ObjectItem, SameObject, IsFunctionItem, TypeOf,
   TypeFor, TypeOfAny, HasLinkage

LEMMA JudgedObject ==
    ASSUME NEW h, NEW it, NEW n, NEW item, ObjectDeclaring(h, it, n, item)
    PROVE  /\ item.storage = "extern" /\ item.init # None /\ path # <<>> => Judged(h)'
           /\ item.init # None
                  /\ (\E d \in Declarations(n) : source[d].path = path /\ source[d].init # None)
                  => Judged(h)'
           /\ TypeFor(item) = "int[]" /\ (path = <<>> \/ item.storage # "extern") => Judged(h)'
           /\ (\E m \in Mentions(h)' : Scoped(h, m)' = {} \/ NotYetDeclared(h, m)') => Judged(h)'
           /\ item.storage = "extern" /\ item.init # None
                  /\ (\E d \in Declarations(n) : source[d].path = path /\ source[d].storage = "static")
                  => Judged(h)'
BY ObjectDeclaringIs, DeclaringIs, ItemSame DEF Judged, Violates, Declarations,
   DeclarationViolates, WronglyRefused

(* A name that is not found is not visible.                                *)
SameBlocks(t, u) ==
    \/ t.function = None /\ u.function = None
    \/ \E f, g : /\ t.function = <<f>> /\ u.function = <<g>>
                 /\ f.blockIds = g.blockIds /\ f.arguments = g.arguments
                 /\ DOMAIN f.values \subseteq DOMAIN g.values

Wider(t, u) == SameBlocks(t, u) /\ DOMAIN t.global \subseteq DOMAIN u.global

LEMMA FoundNowhere ==
    ASSUME NEW t, NEW u, Wider(t, u), NEW n, Find(u, n) = None
    PROVE  Find(t, n) = None
<1>1. \A x : <<x>> # None BY DEF None
<1>2. WalkBlockScopes(u, n) = None /\ FileScope(u, n) = None BY DEF Find
<1>3. FileScope(t, n) = None BY <1>1, <1>2 DEF FileScope, At, Wider
<1>4. CASE t.function = None /\ u.function = None
  BY <1>4, <1>3 DEF WalkBlockScopes, IsAtFileScope, Find
<1>5. CASE \E f, g : /\ t.function = <<f>> /\ u.function = <<g>>
                     /\ f.blockIds = g.blockIds /\ f.arguments = g.arguments
                     /\ DOMAIN f.values \subseteq DOMAIN g.values
  <2>1. PICK f, g : /\ t.function = <<f>> /\ u.function = <<g>>
                    /\ f.blockIds = g.blockIds /\ f.arguments = g.arguments
                    /\ DOMAIN f.values \subseteq DOMAIN g.values
    BY <1>5
  <2>2. /\ ~IsAtFileScope(t) /\ OpenFunction(t) = f /\ ~IsAtFileScope(u) /\ OpenFunction(u) = g
    BY <1>1, <2>1 DEF IsAtFileScope, OpenFunction
  <2> DEFINE HoldingT == {k \in DOMAIN f.blockIds : <<f.blockIds[k], n>> \in DOMAIN f.values}
             HoldingU == {k \in DOMAIN g.blockIds : <<g.blockIds[k], n>> \in DOMAIN g.values}
  <2>3. /\ WalkBlockScopes(t, n) = IF HoldingT = {} THEN FindArgument(f, n)
                                  ELSE <<f.values[<<f.blockIds[Max(HoldingT)], n>>]>>
        /\ WalkBlockScopes(u, n) = IF HoldingU = {} THEN FindArgument(g, n)
                                  ELSE <<g.values[<<g.blockIds[Max(HoldingU)], n>>]>>
    BY <2>2, Zenon DEF WalkBlockScopes
  <2>4. HoldingT \subseteq HoldingU BY <2>1
  <2> HIDE DEF HoldingT, HoldingU
  <2>5. HoldingU = {} BY <1>1, <1>2, <2>3
  <2>6. FindArgument(g, n) = None BY <1>2, <2>3, <2>5
  <2>7. FindArgument(f, n) = FindArgument(g, n) BY <2>1 DEF FindArgument
  <2>8. WalkBlockScopes(t, n) = None BY <2>3, <2>4, <2>5, <2>6, <2>7
  <2> QED BY <1>3, <2>8 DEF Find
<1> QED BY <1>4, <1>5 DEF Wider, SameBlocks

LEMMA NotVisible ==
    ASSUME Good, NEW sid, Books(sid), NEW n \in Names, Find(table, n) = None
    PROVE  Visible(n) = {}
<1>1. \A x : <<x>> # None BY DEF None
<1>2. WalkBlockScopes(table, n) = None /\ FileScope(table, n) = None BY DEF Find
<1>3. ~InFile(n) BY FoundInFile, <1>1, <1>2
<1> SUFFICES ASSUME NEW d \in Visible(n) PROVE FALSE OBVIOUS
<1>4. /\ d \in DOMAIN source /\ source[d].name = n /\ IsDecl(d)
      /\ Scope(d) \in {0} \cup ToSet(path)
      /\ \/ Scope(d) = 0 /\ source[d].path = <<>> /\ FileScopeItem(d)
         \/ d \in LocalOf(n) /\ ~FileScopeItem(d) /\ Scope(d) # 0
         \/ d \in ParametersOf(n) /\ ~FileScopeItem(d) /\ Scope(d) # 0
         \/ d \in InnerPrototypes(n) /\ ~FileScopeItem(d) /\ Scope(d) # 0
  BY VisibleKinds
<1>5. d \in Declarations(n) BY DEF Visible
<1>6. CASE FileScopeItem(d) BY <1>5, <1>6, AtFileIs, <1>3 DEF AtFile, InFile
<1>7. CASE d \in InnerPrototypes(n)
  BY <1>5, <1>7, <1>3 DEF InnerPrototypes, LinkedOf, HasLinkage, IsFunctionItem, InFile
<1>8. CASE ~FileScopeItem(d) /\ d \in LocalOf(n) \cup ParametersOf(n)
  BY <1>4, <1>8, Facts, InsideOpen, FoundInBlocks, <1>1, <1>2, FoundInArguments
<1> QED BY <1>4, <1>6, <1>7, <1>8

LEMMA NothingScoped ==
    ASSUME NEW h, NEW it, NEW n, Declaring(h, it, n), NEW m, m # n, Visible(m) = {}
    PROVE  Scoped(h, m)' = {}
BY DeclaringIs, BeginsIs, ItemSame DEF Scoped, Declarations, Declares, Declaring, Visible

LEMMA NotFound ==
    ASSUME NEW t, NEW n, Identify(t, n) = <<"undefined">>
    PROVE  Find(t, n) = None
BY DEF Identify

LEMMA MentionUndefined ==
    ASSUME NEW t, NEW item, ObjectItem(item), MentionedBy(t, item) = <<"undefined">>
    PROVE  /\ item.init \notin {None, <<None>>} /\ item.init[1][1] \in Names
           /\ Find(t, item.init[1][1]) = None
BY NotFound DEF NoNote, MentionedBy, ObjectItem, Initializers

LEMMA JudgedMention ==
    ASSUME NEW sid, Books(sid), NEW h, NEW it, NEW n, NEW item, ObjectDeclaring(h, it, n, item),
           NEW after, Wider(table, after), Find(after, n) # None,
           MentionedBy(Visiting(table, item, after), item) = <<"undefined">>
    PROVE  Judged(h)'
<1>1. PICK m : m = item.init[1][1] OBVIOUS
<1>2. PICK visiting : visiting = Visiting(table, item, after) OBVIOUS
<1>3. ObjectItem(item) BY DEF ObjectDeclaring
<1>4. item.init \notin {None, <<None>>} /\ m \in Names /\ Find(visiting, m) = None
  BY <1>1, <1>2, <1>3, MentionUndefined
<1>5. /\ Declaring(h, it, n) /\ Tag(h)' = "object" /\ source'[h].init = item.init
      /\ source'[h].type = item.type /\ source'[h].name = n
  BY ObjectDeclaringIs
<1>6. m \in Mentions(h)' BY <1>1, <1>4, <1>5 DEF Mentions
<1>7. CASE m # n
  <2>1. Find(table, m) = None BY <1>4, FoundNowhere, <1>2 DEF Visiting
  <2>2. Good BY <1>5 DEF Declaring
  <2>3. Visible(m) = {} BY <1>4, <2>1, <2>2, NotVisible
  <2>4. Scoped(h, m)' = {} BY <1>5, <1>7, <2>3, NothingScoped
  <2> QED BY <1>6, <2>4, JudgedObject
<1>8. CASE m = n BY <1>2, <1>4, <1>8, <1>5, <1>6, JudgedObject DEF Visiting, NotYetDeclared
<1> QED BY <1>7, <1>8

-----------------------------------------------------------------------------
(* Why a name cannot be bound to an object, and what is left if it can.    *)
Left(t, item) ==
    \E after : /\ BoundTables(t, item) = {after} /\ Wider(t, after)
               /\ Find(after, item.name) # None

LocalClash(fn, id, item) ==
    \/ TypeFor(item) = "int[]"
    \/ id = fn.blockIds[1] /\ FindArgument(fn, item.name) # None
    \/ <<id, item.name>> \in DOMAIN fn.values

LEMMA WiderInside ==
    ASSUME NEW t, NEW fn, t.function = <<fn>>, NEW u, NEW gn, u.function = <<gn>>,
           gn.blockIds = fn.blockIds, gn.arguments = fn.arguments,
           DOMAIN fn.values \subseteq DOMAIN gn.values, DOMAIN t.global \subseteq DOMAIN u.global
    PROVE  Wider(t, u)
BY DEF Wider, SameBlocks

LEMMA BoundLocally ==
    ASSUME NEW t, NEW fn, TableRecord(t), t.function = <<fn>>, FunctionRecord(fn),
           fn.blockIds \in Seq(Nat), fn.blockIds # <<>>, NEW item, item.storage # "extern",
           NEW id, id = Last(fn.blockIds), NEW key, key = <<id, item.name>>
    PROVE  (BoundTables(t, item) = {} /\ LocalClash(fn, id, item)) \/ Left(t, item)
<1>1. OpenFunction(t) = fn /\ ~IsAtFileScope(t) /\ CurrentScopeId(t) = id
  BY DEF OpenFunction, IsAtFileScope, None, CurrentScopeId, Last
<1> DEFINE static == item.storage = "static"
           name == item.name
           type == TypeFor(item)
           object == IF static THEN StaticName(id, name) ELSE LocalName(id, name)
           storage == IF static THEN "static" ELSE "automatic"
<1>2. PICK inserted : inserted = Entry(object, type, storage) OBVIOUS
<1>3. PICK after : after = TableFor(t, fn, key, inserted) OBVIOUS
<1>4. PICK bound : bound = BindObject(t, item, type, StorageOf(t, item)) OBVIOUS
<1>5. StorageOf(t, item) = storage BY <1>1 DEF StorageOf
<1>6. bound = BoundTables(t, item) BY <1>4 DEF BoundTables
<1> HIDE DEF type
<1>7. bound = IF \/ type = "int[]"
                 \/ id = fn.blockIds[1] /\ FindArgument(fn, name) # None
                 \/ key \in DOMAIN fn.values
              THEN {} ELSE {after}
  BY <1>1, <1>4, <1>5, <1>2, <1>3, Inserted DEF BindObject, InsertSymbol
<1>8. bound = IF LocalClash(fn, id, item) THEN {} ELSE {after} BY ONLY <1>7, key = <<id, item.name>> DEF LocalClash, type
<1>9. CASE LocalClash(fn, id, item) BY <1>6, <1>8, <1>9
<1>10. CASE ~LocalClash(fn, id, item)
  <2>2. bound = {after} BY <1>8, <1>10
  <2>3. PICK fn2 : /\ after.function = <<fn2>> /\ fn2.values = With(fn.values, key, inserted)
                   /\ fn2.arguments = fn.arguments /\ fn2.blockIds = fn.blockIds
    BY <1>3, TableForIs
  <2>4. after.global = t.global BY <1>3, TableForIs
  <2>5. DOMAIN fn2.values = DOMAIN fn.values \cup {key}
    <3>1. DOMAIN With(fn.values, key, inserted) = DOMAIN fn.values \cup {key} BY ONLY WithIs
    <3> QED BY <2>3, <3>1
  <2>6. Wider(t, after) BY <2>4, <2>3, <2>5, WiderInside
  <2>7. Find(after, name) # None
    <3>1. <<Last(fn2.blockIds), name>> \in DOMAIN fn2.values BY <2>3, <2>5
    <3>2. Find(after, name) = <<fn2.values[<<Last(fn2.blockIds), name>>]>> BY <2>3, <3>1, TopFound
    <3>3. \A x : <<x>> # None BY DEF None
    <3> QED BY <3>2, <3>3
  <2> QED BY <1>6, <2>2, <2>6, <2>7 DEF Left
<1> QED BY <1>9, <1>10

LEMMA BoundExtern ==
    ASSUME NEW t, NEW fn, TableRecord(t), t.function = <<fn>>, FunctionRecord(fn),
           fn.blockIds \in Seq(Nat), fn.blockIds # <<>>, NEW item, item.storage = "extern",
           NEW id, id = Last(fn.blockIds), NEW key, key = <<id, item.name>>
    PROVE  \/ /\ BoundTables(t, item) = {}
              /\ \/ item.init # None
                 \/ id = fn.blockIds[1] /\ FindArgument(fn, item.name) # None
                 \/ ExternClash(t, fn, key, item.name, TypeFor(item))
           \/ Left(t, item)
<1>1. OpenFunction(t) = fn /\ ~IsAtFileScope(t) BY DEF None, OpenFunction, IsAtFileScope
<1>2. StorageOf(t, item) = IF item.init = None THEN "extern" ELSE "global"
  BY Zenon DEF StorageOf
<1>3. PICK s : s = StorageOf(t, item) OBVIOUS
<1>4. BoundTables(t, item) = BindObject(t, item, TypeFor(item), s) BY <1>3 DEF BoundTables
<1>5. CASE item.init # None BY <1>1, <1>5, <1>4 DEF BindObject
<1>6. CASE item.init = None
  <2>1. PICK n : n = item.name OBVIOUS
  <2>2. s = "extern" /\ TypeFor(item) = item.type BY <1>2, <1>3, <1>6 DEF TypeFor
  <2>3. BindObject(t, item, item.type, s) = InsertSymbol(t, n, item.type, s)
    BY <1>1, <1>6, <2>1, <2>2 DEF BindObject
  <2>4. CurrentScopeId(t) = id BY <1>1 DEF CurrentScopeId, Last
  <2>5. InsertSymbol(t, n, item.type, s) =
            IF id = fn.blockIds[1] /\ FindArgument(fn, n) # None THEN {}
            ELSE BindBlockScopeExtern(t, n, item.type)
    BY <1>1, <2>2, <2>4, Zenon DEF InsertSymbol
  <2>6. CASE id = fn.blockIds[1] /\ FindArgument(fn, n) # None
    BY <1>4, <2>1, <2>2, <2>3, <2>5, <2>6
  <2>7. CASE ~(id = fn.blockIds[1] /\ FindArgument(fn, n) # None)
    <3>1. BoundTables(t, item) = BindBlockScopeExtern(t, n, item.type)
      BY <1>4, <2>2, <2>3, <2>5, <2>7
    <3>0. id = CurrentScopeId(t) /\ key = <<id, n>> BY <2>1, <2>4
    <3>2. \/ BindBlockScopeExtern(t, n, item.type) = {} /\ ExternClash(t, fn, key, n, item.type)
          \/ \E global, seen, values :
                 /\ ExternInFile(t, n, item.type, global, seen)
                 /\ ExternInBlock(fn, key, n, seen, values)
                 /\ BindBlockScopeExtern(t, n, item.type) = {TableOf(t, fn, global, values)}
      BY ONLY TableRecord(t), t.function = <<fn>>, FunctionRecord(fn), <3>0, ExternBound
    <3>3. ASSUME NEW global, NEW seen, NEW values, ExternInFile(t, n, item.type, global, seen),
                 ExternInBlock(fn, key, n, seen, values),
                 BindBlockScopeExtern(t, n, item.type) = {TableOf(t, fn, global, values)}
          PROVE  Left(t, item)
      <4>1. PICK after : after = TableOf(t, fn, global, values) OBVIOUS
      <4>2. PICK gn : gn = [values |-> values, arguments |-> fn.arguments,
                            blockIds |-> fn.blockIds, function |-> fn.function]
        OBVIOUS
      <4>3. after.function = <<gn>> /\ after.global = global BY <4>1, <4>2 DEF TableOf
      <4>4. gn.values = values /\ gn.arguments = fn.arguments /\ gn.blockIds = fn.blockIds BY <4>2
      <4>5. DOMAIN fn.values \subseteq DOMAIN values /\ key \in DOMAIN values
        <5>1. PICK e : e = Entry(FileName(n), seen, "extern") OBVIOUS
        <5>2. values = With(fn.values, key, e) \/ (values = fn.values /\ key \in DOMAIN fn.values)
          BY <3>3, <5>1, Zenon DEF ExternInBlock
        <5>3. DOMAIN With(fn.values, key, e) = DOMAIN fn.values \cup {key} BY ONLY WithIs
        <5> QED BY <5>2, <5>3
      <4>6. DOMAIN t.global \subseteq DOMAIN global
        <5>1. PICK e, k : e = Entry(FileName(n), item.type, "extern") /\ k = <<0, n>> OBVIOUS
        <5>2. global = With(t.global, k, e) \/ global = t.global BY <3>3, <5>1 DEF ExternInFile
        <5>3. DOMAIN With(t.global, k, e) = DOMAIN t.global \cup {k} BY ONLY WithIs
        <5> QED BY <5>2, <5>3
      <4>7. Wider(t, after) BY <4>3, <4>4, <4>5, <4>6, WiderInside
      <4>8. Find(after, n) # None
        <5>1. <<Last(gn.blockIds), n>> \in DOMAIN gn.values BY <2>1, <4>4, <4>5
        <5>2. Find(after, n) = <<gn.values[<<Last(gn.blockIds), n>>]>>
          BY <4>3, <4>4, <5>1, TopFound
        <5>3. \A x : <<x>> # None BY DEF None
        <5> QED BY <5>2, <5>3
      <4> QED BY <2>1, <3>1, <3>3, <4>1, <4>7, <4>8 DEF Left
    <3> QED BY <2>1, <2>2, <3>1, <3>2, <3>3
  <2> QED BY <2>6, <2>7
<1> QED BY <1>5, <1>6

LEMMA BoundInFile ==
    ASSUME NEW t, TableRecord(t), t.function = None, NEW item, ObjectItem(item), NEW n, n = item.name,
           \A e : FileScope(t, n) = <<e>> => e \in Entries
    PROVE  (BoundTables(t, item) = {} /\ FileClash(t, n, item)) \/ Left(t, item)
<1>1. \/ BoundTables(t, item) = {} /\ FileClash(t, n, item)
      \/ \E after, x : /\ BoundTables(t, item) = {after} /\ FileWritten(t, after, <<0, n>>, x)
                       /\ FileEntry(t, n, item, x)
  BY FileBound
<1>2. ASSUME NEW after, NEW x, BoundTables(t, item) = {after}, FileWritten(t, after, <<0, n>>, x)
      PROVE  Left(t, item)
  <2>1. PICK key : key = <<0, n>> OBVIOUS
  <2>2. after.function = t.function /\ DOMAIN after.global = DOMAIN t.global \cup {key}
    BY <1>2, <2>1 DEF FileWritten
  <2>3. Wider(t, after) BY <2>2 DEF Wider, SameBlocks
  <2>4. Find(after, n) # None
    BY <2>2, <2>1 DEF WalkBlockScopes, IsAtFileScope, Find, FileScope, At, None
  <2> QED BY <1>2, <2>3, <2>4 DEF Left
<1> QED BY <1>1, <1>2

(* An object is refused for one of two reasons.                            *)
LEMMA AnalysisRefused ==
    ASSUME NEW t, NEW item, NEW at, AnalyzeObject(t, item, at).refused, Left(t, item)
    PROVE  \E after : /\ Wider(t, after) /\ Find(after, item.name) # None
                      /\ MentionedBy(Visiting(t, item, after), item) = <<"undefined">>
<1>1. PICK after : /\ BoundTables(t, item) = {after} /\ Wider(t, after) /\ Find(after, item.name) # None
  BY DEF Left
<1>0. BoundTables(t, item) = {} \/ BoundTables(t, item) = {after} BY <1>1
<1>2. /\ BoundTables(t, item) = {} => AnalyzeObject(t, item, at).refused
      /\ BoundTables(t, item) = {after} =>
             /\ AnalyzeObject(t, item, at).table = Outcome(t, item, at, after)
             /\ AnalyzeObject(t, item, at).note.holder = Find(after, item.name)[1].object
             /\ AnalyzeObject(t, item, at).note.mentioned = MentionedBy(Visiting(t, item, after), item)
             /\ AnalyzeObject(t, item, at).refused =
                    (AnalyzeObject(t, item, at).note.mentioned = <<"undefined">>)
  BY ONLY <1>0, Analyzed
<1> QED BY <1>1, <1>2

-----------------------------------------------------------------------------
(* What already holds the name in the scope that is open.                  *)
LEMMA LastPlace ==
    ASSUME Good, TreeOk, path # <<>>, NEW d \in DOMAIN source, Scope(d) = Last(path)
    PROVE  source[d].path = path
<1>1. path \in Seq(Nat) /\ Len(path) \in Nat /\ DOMAIN path = 1 .. Len(path) BY Places
<1>2. PICK k : k = Len(path) OBVIOUS
<1>3. k \in DOMAIN path /\ path[k] = Last(path) BY <1>1, <1>2 DEF Last
<1>4. source[d].path = SubSeq(path, 1, k) BY <1>3, PathOfScope
<1>5. SubSeq(path, 1, Len(path)) = path BY <1>1
<1> QED BY <1>2, <1>4, <1>5

LEMMA KeyHeld ==
    ASSUME Good, NEW sid, Books(sid), path # <<>>, Opens(Last(path)), NEW n,
           NEW fn, fn = OpenFunction(table), NEW key, key = <<CurrentScopeId(table), n>>,
           key \in DOMAIN fn.values
    PROVE  \E d \in Declarations(n) :
               /\ source[d].path = path /\ Tag(d) \in {"object", "enumerator"}
               /\ BlockEntryOk(sid, d, fn.values[key])
<1>1. PICK ids : ids = OpenFunction(table).blockIds OBVIOUS
<1>2. /\ ids \in Seq(Nat) /\ ids # <<>> /\ Len(ids) \in Nat /\ Len(ids) >= 1
      /\ Last(path) \in DOMAIN source /\ CurrentScopeId(table) = Last(ids)
      /\ CurrentScopeId(table) = sid[Last(path)]
  BY <1>1, CurrentScope
<1>3. PICK k : k = Len(ids) OBVIOUS
<1>4. k \in DOMAIN ids /\ ids[k] = CurrentScopeId(table)
  <2>1. DOMAIN ids = 1 .. Len(ids) BY <1>2
  <2>2. Last(ids) = ids[k] BY <1>3 DEF Last
  <2>3. k \in DOMAIN ids BY ONLY <1>2, <1>3, <2>1
  <2>4. ids[k] = CurrentScopeId(table) BY ONLY <1>2, <2>2
  <2> QED BY <2>3, <2>4
<1>5. \E d \in LocalOf(n) : sid[Scope(d)] = ids[k] BY <1>4, <1>1, HeldBy
<1>6. PICK d \in LocalOf(n) : sid[Scope(d)] = sid[Last(path)] BY <1>2, <1>4, <1>5
<1>7. /\ d \in DOMAIN source /\ InValues(d) /\ source[d].name = n /\ IsDecl(d)
      /\ Scope(d) \in DOMAIN source /\ Opens(Scope(d))
  BY LocalOpens
<1>8. Scope(d) = Last(path) BY <1>2, <1>6, <1>7, SidIsOneToOne
<1>9. source[d].path = path BY <1>7, <1>8, Facts, LastPlace
<1>10. Tag(d) \in {"object", "enumerator"} BY <1>7 DEF InValues
<1>11. KeyOf(sid, d) = key /\ BlockEntryOk(sid, d, OpenFunction(table).values[KeyOf(sid, d)])
  BY <1>7, <1>8, <1>10, BesideIs
<1>12. d \in Declarations(n) BY DEF LocalOf
<1> QED BY <1>9, <1>10, <1>11, <1>12

LEMMA ArgumentHeld ==
    ASSUME Good, NEW sid, Books(sid), path # <<>>, Opens(Last(path)), NEW n,
           NEW fn, fn = OpenFunction(table), CurrentScopeId(table) = fn.blockIds[1],
           FindArgument(fn, n) # None
    PROVE  \E d \in Declarations(n) : source[d].path = path /\ ~HasLinkage(d)
<1>1. ParametersOf(n) # {} BY FoundInArguments
<1>2. PICK d : d \in ParametersOf(n) BY <1>1
<1>3. Scope(d) = path[1] /\ path[1] \in DOMAIN source BY <1>2, AreVisible
<1>4. d \in DOMAIN source /\ Tag(d) = "parameter" /\ d \in Declarations(n)
  BY <1>2 DEF ParametersOf, Declarations
<1>5. Opens(path[1]) BY <1>4, Facts, <1>3, JumpsType DEF IsDecl, DeclOk
<1>6. PICK ids : ids = OpenFunction(table).blockIds OBVIOUS
<1>7. /\ Last(path) \in DOMAIN source /\ ids[1] = sid[path[1]]
      /\ CurrentScopeId(table) = sid[Last(path)]
  BY <1>6, CurrentScope
<1>8. sid[Last(path)] = sid[path[1]] BY <1>6, <1>7
<1>9. Last(path) = path[1] BY <1>3, <1>5, <1>7, <1>8, SidIsOneToOne
<1>10. source[d].path = path BY <1>3, <1>4, <1>9, Facts, LastPlace
<1>11. ~HasLinkage(d) BY <1>4 DEF HasLinkage, IsFunctionItem
<1> QED BY <1>4, <1>10, <1>11

(* An object without linkage,                                              *)
LEMMA LocalRefused ==
    ASSUME NEW sid, Books(sid), NEW h, NEW it, NEW n, NEW item, ObjectDeclaring(h, it, n, item),
           path # <<>>, Opens(Last(path)), item.storage # "extern",
           LocalClash(OpenFunction(table), CurrentScopeId(table), item)
    PROVE  Judged(h)'
BY ObjectDeclaringIs, JudgedObject, ArgumentHeld, JudgedBeside, KeyHeld DEF ObjectDeclaring,
   Declaring, LocalClash

(* one that the file has another entry for,                                *)
LEMMA ClashInFile ==
    ASSUME NEW sid, Books(sid), NEW h, NEW it, NEW n, NEW item, ObjectDeclaring(h, it, n, item),
           HasLinkage(h)', NEW e, FileScope(table, n) = <<e>>,
           IsFunction(e) \/ ~Compatible(e.type, TypeFor(item))
    PROVE  Judged(h)'
BY ObjectDeclaringIs, FileFound, JudgedShared, JudgedBeside, ObjectClash, JudgedClash DEF
   ObjectDeclaring, Declaring, FileEnumerators, FileScopeItem, HasLinkage, IsFunctionItem

(* and "extern" in a block.                                                *)
LEMMA ExternRefused ==
    ASSUME NEW sid, Books(sid), NEW h, NEW it, NEW n, NEW item, ObjectDeclaring(h, it, n, item),
           path # <<>>, Opens(Last(path)), item.storage = "extern",
           NEW fn, fn = OpenFunction(table), NEW key, key = <<CurrentScopeId(table), n>>,
           ExternClash(table, fn, key, n, TypeFor(item))
    PROVE  Judged(h)'
<1>1. Good /\ n = item.name /\ Declaring(h, it, n) BY DEF ObjectDeclaring, Declaring
<1>2. /\ HasLinkage(h)' /\ n \in Names /\ TypeFor(item) \in ObjectTypes
      /\ TypeOfAny(h)' = TypeFor(item)
  BY ObjectDeclaringIs
<1>3. PICK type : type = TypeFor(item) OBVIOUS
<1>4. CASE \E e : FileScope(table, n) = <<e>> /\ (IsFunction(e) \/ ~Compatible(e.type, type))
  BY <1>2, <1>3, <1>4, ClashInFile
<1>5. ASSUME key \in DOMAIN fn.values, NEW seen, ExternSeen(table, n, type, seen),
             ~(fn.values[key].storage = "extern" /\ Compatible(fn.values[key].type, seen))
      PROVE  Judged(h)'
  <2>1. PICK v : v = fn.values[key] OBVIOUS
  <2>2. PICK d \in Declarations(n) :
            /\ source[d].path = path /\ Tag(d) \in {"object", "enumerator"} /\ BlockEntryOk(sid, d, v)
    BY <1>1, <1>5, <2>1, KeyHeld
  <2>3. CASE ~HasLinkage(d) BY <1>1, <2>2, <2>3, JudgedBeside
  <2>4. CASE HasLinkage(d)
    <3>1. Tag(d) = "object" /\ d \in LinkedOf(n)
      BY <2>2, <2>4 DEF HasLinkage, IsFunctionItem, LinkedOf
    <3>2. v.storage = "extern" /\ v.type \in ObjectTypes /\ Compatible(v.type, TypeOf(d))
      BY <2>2, <2>4, <3>1 DEF BlockEntryOk
    <3>3. TypeOf(d) \in ObjectTypes /\ TypeOfAny(d) = TypeOf(d)
      BY <3>1, <1>1, LinkedTypes DEF IsFunctionItem
    <3>4. ~Compatible(v.type, seen) BY <1>5, <2>1, <3>2
    <3>5. seen \in ObjectTypes /\ Compatible(type, seen)
      <4>0. \A a : Compatible(a, a) BY DEF None, Compatible, Composite
      <4>1. CASE seen = type BY <1>2, <1>3, <4>0, <4>1
      <4>2. CASE \E e : FileScope(table, n) = <<e>> /\ ~IsFunction(e) /\ Composite(e.type, type) = <<seen>>
        BY <4>2, <1>1, <1>2, FileFound, <1>3, Compatibility, <4>0, CompatibleToo DEF Entries,
           IsFunction
      <4> QED BY <1>5, <4>1, <4>2 DEF ExternSeen
    <3>6. ~Compatible(type, TypeOf(d))
      BY <1>2, <1>3, <3>2, <3>3, <3>5, CompatibleToo, Compatibility, <3>4
    <3> QED BY <1>1, <1>2, <1>3, <3>1, <3>3, <3>6, JudgedClash
  <2> QED BY <2>3, <2>4
<1> QED BY <1>3, <1>4, <1>5 DEF ExternClash

(* An object of the file.                                                  *)
LEMMA FileRefused ==
    ASSUME NEW sid, Books(sid), NEW h, NEW it, NEW n, NEW item, ObjectDeclaring(h, it, n, item),
           path = <<>>, FileClash(table, n, item)
    PROVE  Judged(h)'
<1>1. /\ Good /\ n = item.name /\ Declaring(h, it, n) /\ it.what = "object"
  BY DEF ObjectDeclaring, Declaring
<1>2. /\ HasLinkage(h)' /\ n \in Names /\ TypeFor(item) \in ObjectTypes
      /\ TypeOfAny(h)' = TypeFor(item) /\ it.storage = item.storage /\ ObjectItem(item)
  BY ObjectDeclaringIs DEF ObjectDeclaring
<1>3. CASE TypeFor(item) = "int[]" BY <1>3, JudgedObject
<1>4. ASSUME NEW e, FileScope(table, n) = <<e>>,
             IsFunction(e) \/ ~Merges(e, TypeFor(item), FileStorage(item), item.init # None)
      PROVE  Judged(h)'
  <2>1. CASE IsFunction(e) \/ ~Compatible(e.type, TypeFor(item)) BY <1>2, <1>4, <2>1, ClashInFile
  <2>2. CASE ~IsFunction(e) /\ Compatible(e.type, TypeFor(item))
    <3>1. /\ e \in Entries
          /\ \/ SharedWithEnumerator(n)
             \/ FileEnumerators(n) # {} /\ IsEnumerator(e) /\ ~IsFunction(e)
             \/ LinkedOf(n) # {} /\ LinkedEntryOk(n, e) /\ ~IsEnumerator(e)
      BY <1>1, <1>2, <1>4, FileFound
    <3>2. CASE SharedWithEnumerator(n) BY <1>1, <1>2, <3>2, JudgedShared
    <3>3. CASE FileEnumerators(n) # {}
      BY <3>3, <1>1, JudgedBeside DEF FileEnumerators, FileScopeItem, HasLinkage,
         IsFunctionItem
    <3>4. CASE LinkedOf(n) # {} /\ LinkedEntryOk(n, e) /\ ~IsEnumerator(e)
      BY <1>4, <2>2, <3>4, <1>1, <1>2, JudgedStatic, JudgedObject, JudgedPlain DEF Merges,
         LinkedEntryOk, FileStorage, LinkedOf, HasLinkage, FileScopeItem, ObjectItem,
         ObjectEntryOk, AtFile
    <3> QED BY <3>1, <3>2, <3>3, <3>4
  <2> QED BY <2>1, <2>2
<1> QED BY <1>3, <1>4 DEF FileClash

-----------------------------------------------------------------------------
LEMMA DeclarationRefusal ==
    ASSUME Good, TreeOk, NEW item \in Offered.objects, NEW h, h = Here, Declaration(item),
           NEW it, it = Written(item), NEW n, n = item.name
    PROVE  /\ ObjectDeclaring(h, it, n, item)
           /\ hasErrors' = AnalyzeObject(table, item, h).refused
           /\ path # <<>> => Opens(Last(path))
<1>1. PICK done : done = AnalyzeObject(table, item, Here) OBVIOUS
<1>2. /\ Write(<<Written(item)>>, <<done.note>>) /\ hasErrors' = done.refused /\ DeclarationAllowed
  BY <1>1 DEF Declaration
<1>3. ObjectItem(item) /\ item.what = "object" /\ DOMAIN item = {"what", "name", "storage", "type", "init"}
  BY OfferedObject
<1>4. Begins(h, it) BY <1>2, <1>3, OneBegins
<1>5. it.what = "object" /\ it.name = n BY <1>3, ObjectWritten
<1>6. SameObject(h, item)' BY <1>4, <1>3, ObjectWritten DEF Begins, SameObject, Tag
<1>7. path # <<>> => Opens(Last(path)) BY <1>2 DEF DeclarationAllowed, Open, Opens
<1> QED BY <1>1, <1>2, <1>3, <1>4, <1>5, <1>6, <1>7 DEF ObjectDeclaring, Declaring

LEMMA RefusedBinding ==
    ASSUME NEW sid, Books(sid), NEW h, NEW it, NEW n, NEW item, ObjectDeclaring(h, it, n, item),
           path # <<>> => Opens(Last(path)), ~Left(table, item)
    PROVE  Judged(h)'
<1>1. Good /\ n = item.name /\ ObjectItem(item) /\ n \in Names
  BY ObjectDeclaringIs DEF ObjectDeclaring, Declaring
<1>2. PICK t : t = table OBVIOUS
<1>3. TableRecord(t) BY <1>2 DEF Books, TableOk, TableRecord
<1>4. CASE path = <<>>
  BY <1>2, <1>4, <1>1, FileFound, <1>3, BoundInFile, FileRefused DEF Books, TableOk
<1>5. CASE path # <<>>
  <2>1. PICK fn : fn = OpenFunction(table) OBVIOUS
  <2>2. t.function = <<fn>> /\ FunctionRecord(fn) BY <1>2, <1>5, <2>1, OpenFunctionIs DEF FunctionRecord
  <2>3. PICK id, ids : id = CurrentScopeId(table) /\ ids = fn.blockIds OBVIOUS
  <2>4. ids \in Seq(Nat) /\ ids # <<>> /\ id = Last(ids) BY <1>1, <1>5, <2>1, <2>3, CurrentScope
  <2>5. PICK key : key = <<id, n>> OBVIOUS
  <2>6. CASE item.storage # "extern"
    <3>1. (BoundTables(t, item) = {} /\ LocalClash(fn, id, item)) \/ Left(t, item)
      BY <1>1, <1>3, <2>2, <2>3, <2>4, <2>5, <2>6, BoundLocally
    <3>2. LocalClash(OpenFunction(table), CurrentScopeId(table), item) BY <1>2, <2>1, <2>3, <3>1
    <3> QED BY <1>5, <2>6, <3>2, LocalRefused
  <2>7. CASE item.storage = "extern"
    <3>1. \/ /\ BoundTables(t, item) = {}
             /\ \/ item.init # None
                \/ id = fn.blockIds[1] /\ FindArgument(fn, n) # None
                \/ ExternClash(t, fn, key, n, TypeFor(item))
          \/ Left(t, item)
      BY <1>1, <1>3, <2>2, <2>3, <2>4, <2>5, <2>7, BoundExtern
    <3>2. CASE item.init # None BY <1>5, <2>7, <3>2, JudgedObject
    <3>3. CASE id = fn.blockIds[1] /\ FindArgument(fn, n) # None
      BY <1>1, <1>5, <2>1, <2>3, <3>3, ArgumentHeld, JudgedBeside DEF ObjectDeclaring
    <3>4. CASE ExternClash(t, fn, key, n, TypeFor(item))
      BY <1>2, <2>3, <2>5, <3>4, <1>5, <2>1, <2>7, ExternRefused
    <3> QED BY <1>2, <3>1, <3>2, <3>3, <3>4
  <2> QED BY <2>6, <2>7
<1> QED BY <1>4, <1>5

LEMMA DeclarationRefused ==
    ASSUME Good, NEW sid, Books(sid), NEW item \in Offered.objects, Declaration(item), hasErrors'
    PROVE  RefusedAsC'
<1>1. PICK h, it, n : h = Here /\ it = Written(item) /\ n = item.name OBVIOUS
<1>2. TreeOk BY Facts
<1>3. /\ ObjectDeclaring(h, it, n, item)
      /\ hasErrors' = AnalyzeObject(table, item, h).refused
      /\ path # <<>> => Opens(Last(path))
  BY <1>1, <1>2, DeclarationRefusal
<1>4. CASE ~Left(table, item)
  BY <1>3, <1>4, RefusedBinding, JudgedRefused DEF ObjectDeclaring, Declaring
<1>5. CASE Left(table, item)
  <2>1. PICK t : t = table OBVIOUS
  <2>2. AnalyzeObject(t, item, h).refused BY <1>3, <2>1
  <2>3. Left(t, item) BY <1>5, <2>1
  <2>4. \E after : /\ Wider(t, after) /\ Find(after, item.name) # None
                   /\ MentionedBy(Visiting(t, item, after), item) = <<"undefined">>
    BY ONLY <2>2, <2>3, AnalysisRefused
  <2>5. PICK after : /\ Wider(table, after) /\ Find(after, n) # None
                     /\ MentionedBy(Visiting(table, item, after), item) = <<"undefined">>
    BY <1>1, <2>1, <2>4
  <2>6. Judged(h)' BY <1>3, <2>5, JudgedMention
  <2>7. Begins(h, it) BY <1>3 DEF ObjectDeclaring, Declaring
  <2> QED BY <2>6, <2>7, JudgedRefused
<1> QED BY <1>4, <1>5

-----------------------------------------------------------------------------
(* A function that is refused.                                             *)
FunctionDeclaring(h, it, n, item) ==
    /\ Declaring(h, it, n) /\ it.what \in {"prototype", "definition"} /\ SameFunction(h, item)'
    /\ FunctionItem(item) /\ n = item.name /\ it.storage = item.storage

LEMMA FunctionDeclaringIs ==
    ASSUME NEW h, NEW it, NEW n, NEW item, FunctionDeclaring(h, it, n, item)
    PROVE  /\ Good /\ Declaring(h, it, n) /\ n \in Names /\ IsFunctionItem(h)' /\ HasLinkage(h)'
           /\ item.type \in FunctionTypes /\ TypeOfAny(h)' = item.type /\ it.storage = item.storage
           /\ Tag(h)' = it.what /\ source'[h].storage = item.storage
BY DeclaringIs DEF FunctionDeclaring, SameFunction, HasLinkage, TypeOfAny, FunctionItem

(* Its name is held by something else in the file,                         *)
LEMMA FunctionApart ==
    ASSUME NEW sid, Books(sid), NEW h, NEW it, NEW n, NEW item, FunctionDeclaring(h, it, n, item),
           NEW e, FileScope(table, n) = <<e>>,
           \/ ~IsFunction(e) \/ ~Compatible(item.type, e.type)
           \/ e.storage # "static" /\ item.storage = "static"
           \/ e.functionDefined /\ it.what = "definition"
    PROVE  Judged(h)'
<1>1. /\ Good /\ Declaring(h, it, n) /\ n \in Names /\ HasLinkage(h)'
      /\ item.type \in FunctionTypes /\ TypeOfAny(h)' = item.type /\ it.storage = item.storage
      /\ Tag(h)' = it.what
  BY FunctionDeclaringIs
<1>2. /\ e \in Entries
      /\ \/ SharedWithEnumerator(n)
         \/ FileEnumerators(n) # {} /\ IsEnumerator(e) /\ ~IsFunction(e)
         \/ LinkedOf(n) # {} /\ LinkedEntryOk(n, e) /\ ~IsEnumerator(e)
  BY <1>1, FileFound
<1>3. CASE SharedWithEnumerator(n) BY <1>1, <1>3, JudgedShared
<1>4. CASE FileEnumerators(n) # {}
  BY <1>1, <1>4, JudgedShared, JudgedBeside DEF FileEnumerators, FileScopeItem, HasLinkage,
     IsFunctionItem
<1>5. CASE LinkedOf(n) # {} /\ LinkedEntryOk(n, e)
  <2>1. CASE ~IsFunction(e) \/ ~Compatible(item.type, e.type)
    BY <1>1, <1>2, <1>5, <2>1, FunctionClash, JudgedClash
  <2>2. CASE e.storage # "static" /\ item.storage = "static"
    BY <1>5, <2>2, <1>1, JudgedStatic DEF LinkedEntryOk
  <2>3. CASE IsFunction(e) /\ e.functionDefined /\ it.what = "definition"
    BY <1>5, <2>3, <1>1, DeclaringIs, ItemSame DEF LinkedEntryOk, FunctionEntryOk,
       Declarations, LinkedOf, DeclarationViolates, Judged, Violates
  <2> QED BY <2>1, <2>2, <2>3
<1> QED BY <1>2, <1>3, <1>4, <1>5

LEMMA RefusedFunction ==
    ASSUME NEW sid, Books(sid), NEW h, NEW it, NEW n, NEW item, FunctionDeclaring(h, it, n, item),
           \/ HasGlobalVariable(table, n)
           \/ ~HasFunction(table, n) /\ FileScope(table, n) # None
           \/ HasFunction(table, n) /\ FileScope(table, n)[1].functionDefined /\ it.what = "definition"
           \/ ~Redeclares(table, item)
    PROVE  Judged(h)'
BY FunctionApart DEF FunctionDeclaring, HasGlobalVariable, Redeclares, HasFunction, FileScope,
   At, None

LEMMA PrototypeBegins ==
    ASSUME Good, TreeOk, NEW item \in Offered.prototypes, NEW h, h = Here, Prototype(item),
           NEW it, it = Written(item), NEW n, n = item.name
    PROVE  FunctionDeclaring(h, it, n, item) /\ it.what = "prototype"
<1>1. FunctionItem(item) /\ item.what = "prototype" /\ DOMAIN item = {"what", "name", "storage", "inline", "type"}
  BY OfferedFunction
<1>2. Write(<<Written(item)>>, <<NoNote>>) BY DEF Prototype
<1>3. Begins(h, it) BY <1>1, <1>2, OneBegins
<1>4. /\ it.what = "prototype" /\ it.name = n /\ it.storage = item.storage /\ it.type = item.type
      /\ it.inline = item.inline
  BY <1>1, FunctionWritten
<1>5. source'[h] = it BY <1>3 DEF Begins
<1>6. SameFunction(h, item)' BY <1>4, <1>5 DEF SameFunction, Tag, IsFunctionItem
<1> QED BY <1>1, <1>3, <1>4, <1>6 DEF FunctionDeclaring, Declaring

LEMMA PrototypeRefused ==
    ASSUME Good, NEW sid, Books(sid), NEW item \in Offered.prototypes, Prototype(item), hasErrors'
    PROVE  RefusedAsC'
<1>1. PICK h, it, n : h = Here /\ it = Written(item) /\ n = item.name OBVIOUS
<1>2. TreeOk BY Facts
<1>3. FunctionDeclaring(h, it, n, item) BY <1>1, <1>2, PrototypeBegins
<1>4. \/ HasGlobalVariable(table, n)
      \/ ~HasFunction(table, n) /\ FileScope(table, n) # None
      \/ ~Redeclares(table, item)
  BY <1>1 DEF Prototype
<1>5. Judged(h)' BY <1>3, <1>4, RefusedFunction
<1>6. Begins(h, it) BY <1>3 DEF FunctionDeclaring, Declaring
<1> QED BY <1>5, <1>6, JudgedRefused

LEMMA DefinitionBegins ==
    ASSUME Good, TreeOk, NEW item \in Offered.definitions, NEW ps \in Offered.parameters,
           FunctionDefinition(item, ps), NEW h, h = Here, NEW n, n = item.name
    PROVE  \E it : FunctionDeclaring(h, it, n, item) /\ it.what = "definition"
<1>1. ps \in Seq(Names) BY MenusAssumption DEF Good, TypesOk, Offered
<1>2. DOMAIN ps = 1 .. Len(ps) /\ Len(ps) \in Nat BY <1>1
<1>3. PICK m : m = Len(ps) OBVIOUS
<1>4. PICK def : def = [item EXCEPT !.what = "definition"] OBVIOUS
<1>5. PICK it : it = Written(def) OBVIOUS
<1>6. \E Note : Write(<<it>> \o [k \in 1 .. m |-> [what |-> "parameter", name |-> ps[k], path |-> <<h>>]],
                      <<NoNote>> \o [k \in 1 .. m |-> Note[k]])
  <2>1. PICK started, bad :
            Write(<<it>> \o [k \in 1 .. m |-> [what |-> "parameter", name |-> ps[k], path |-> <<h>>]],
                  <<NoNote>> \o [k \in 1 .. m |->
                       IF bad THEN NoNote
                       ELSE [holder |-> Find(started, ps[k])[1].object, mentioned |-> NoNote]])
    BY <1>2, <1>3, <1>4, <1>5 DEF FunctionDefinition
  <2> DEFINE Note == [k \in 1 .. m |-> IF bad THEN NoNote
                          ELSE [holder |-> Find(started, ps[k])[1].object, mentioned |-> NoNote]]
  <2>2. Note = [k \in 1 .. m |-> Note[k]] OBVIOUS
  <2> QED BY <2>1, <2>2
<1> DEFINE P == [k \in 1 .. m |-> [what |-> "parameter", name |-> ps[k], path |-> <<h>>]]
<1>7. PICK Note : Write(<<it>> \o P, <<NoNote>> \o [k \in 1 .. m |-> Note[k]]) BY <1>6
<1> DEFINE N == [k \in 1 .. m |-> Note[k]]
<1>8. /\ P = [k \in 1 .. m |-> P[k]] /\ N = [k \in 1 .. m |-> N[k]] /\ m \in Nat
      /\ \A k \in 1 .. m : P[k].what = "parameter"
  BY <1>2, <1>3
<1>9. Write(<<it>> \o P, <<NoNote>> \o N) BY <1>7
<1> HIDE DEF P, N
<1>10. /\ Grows /\ h \in New /\ source'[h] = it
       /\ \A k \in 1 .. m : source'[h + k] = P[k]
       /\ \A e \in New : e = h \/ \E k \in 1 .. m : e = h + k
  BY <1>8, <1>9, AddedBehind
<1>11. DOMAIN item = {"what", "name", "storage", "inline", "type"} /\ FunctionItem(item) BY OfferedFunction
<1>12. /\ DOMAIN def = {"what", "name", "storage", "inline", "type"}
       /\ def.what = "definition" /\ def.name = item.name /\ def.storage = item.storage
       /\ def.inline = item.inline /\ def.type = item.type
  BY <1>4, <1>11
<1>13. /\ it.what = "definition" /\ it.name = item.name /\ it.storage = item.storage
       /\ it.inline = item.inline /\ it.type = item.type /\ it.path = path
  BY <1>5, <1>12, FunctionWritten
<1>14. SameFunction(h, item)' BY <1>10, <1>13 DEF SameFunction, Tag, IsFunctionItem
<1>15. \A e \in New : e # h => source'[e].what = "parameter" BY <1>8, <1>10
<1>16. Begins(h, it) BY <1>10, <1>13, <1>15 DEF Begins, Here
<1> QED BY <1>11, <1>13, <1>14, <1>16 DEF FunctionDeclaring, Declaring

LEMMA DefinitionRefused ==
    ASSUME Good, NEW sid, Books(sid), NEW item \in Offered.definitions, NEW ps \in Offered.parameters,
           FunctionDefinition(item, ps), hasErrors'
    PROVE  RefusedAsC'
<1>1. PICK h, n : h = Here /\ n = item.name OBVIOUS
<1>2. TreeOk BY Facts
<1>3. PICK it : FunctionDeclaring(h, it, n, item) /\ it.what = "definition"
  BY <1>1, <1>2, DefinitionBegins
<1>4. \/ HasGlobalVariable(table, n)
      \/ HasFunction(table, n) /\ FileScope(table, n)[1].functionDefined
      \/ ~Redeclares(table, item)
  BY <1>1 DEF FunctionDefinition
<1>5. Judged(h)' BY <1>3, <1>4, RefusedFunction
<1>6. Begins(h, it) BY <1>3 DEF FunctionDeclaring, Declaring
<1> QED BY <1>5, <1>6, JudgedRefused

-----------------------------------------------------------------------------
(* The variable of a loop stands alone in its scope.                       *)
LEMMA FreshId ==
    ASSUME Good, NEW sid, Books(sid), path # <<>>, NEW fn, fn = OpenFunction(table), NEW n
    PROVE  /\ <<table.nextScopeId + 1, n>> \notin DOMAIN fn.values
           /\ fn.blockIds \in Seq(Nat) /\ fn.blockIds # <<>>
           /\ fn.blockIds[1] # table.nextScopeId + 1 /\ table.nextScopeId \in Nat
<1>1. table.nextScopeId \in Nat BY DEF Books, TableOk
<1>2. PICK ids, next : ids = fn.blockIds /\ next = table.nextScopeId OBVIOUS
<1>3. /\ ids \in Seq(Nat) /\ Rising(ids) /\ ids # <<>> /\ \A x \in ToSet(ids) : x \in Nat /\ x <= next
  BY <1>2, CurrentScope
<1>4. ids[1] \in ToSet(ids) BY <1>3, FirstAndLast
<1>5. ids[1] # next + 1 BY <1>3, <1>4, <1>1, <1>2
<1>6. \A d \in DOMAIN source : InValues(d) => KeyOf(sid, d) # <<next + 1, n>>
  BY Facts, Places, <1>2, <1>1 DEF KeyOf, InValues, IsDecl, InOpenFunction, DeclOk
<1>7. DOMAIN fn.values = {KeyOf(sid, d) : d \in {e \in DOMAIN source : InValues(e)}}
  BY OpenFunctionIs DEF ValuesOk
<1> QED BY <1>1, <1>2, <1>3, <1>5, <1>6, <1>7

LEMMA DeclaredLoopAccepted ==
    ASSUME Good, NEW sid, Books(sid), NEW kind, NEW n \in Names, NEW declared, declared = <<n>>,
           Loop(kind, declared)
    PROVE  ~hasErrors'
<1>1. PICK it, note, v, done, t, h :
          /\ h = Here /\ v = LoopVariable(n, path') /\ t = EnterBlockScope(table)
          /\ done = AnalyzeObject(t, v, h + 1) /\ it.what = "loop" /\ it.path = path
          /\ Write(<<it>> \o <<v>>, <<note>> \o <<done.note>>)
          /\ path' = Append(path, h) /\ path # <<>> /\ table' = done.table /\ frames' = frames
          /\ ~hasErrors' => ~done.refused
          /\ hasErrors' => done.refused
  BY LoopOpened
<1>2. /\ v.name = n /\ v.init = <<None>> /\ v.storage # "extern" /\ TypeFor(v) # "int[]"
  BY <1>1, LoopVariableIs
<1>3. PICK fn : fn = OpenFunction(table) OBVIOUS
<1>4. PICK id : id = table.nextScopeId + 1 OBVIOUS
<1>5. /\ <<id, n>> \notin DOMAIN fn.values /\ fn.blockIds \in Seq(Nat) /\ fn.blockIds # <<>>
      /\ fn.blockIds[1] # id /\ id \in Nat
  BY <1>1, <1>3, <1>4, FreshId
<1>6. PICK gn : gn = [values |-> fn.values, arguments |-> fn.arguments,
                      blockIds |-> Append(fn.blockIds, id), function |-> fn.function]
  OBVIOUS
<1>7. TableRecord(t) /\ t.function = <<gn>> /\ FunctionRecord(gn) /\ gn.values = fn.values
      /\ gn.blockIds = Append(fn.blockIds, id)
  <2>1. PICK u : u = table OBVIOUS
  <2>2. TableRecord(u) /\ u.function = <<fn>> /\ FunctionRecord(fn)
    BY <1>1, <1>3, <2>1, OpenFunctionIs DEF Books, TableOk, TableRecord, FunctionRecord
  <2>3. EnterBlockScope(u) =
            [global |-> u.global,
             function |-> <<[values |-> fn.values, arguments |-> fn.arguments,
                             blockIds |-> Append(fn.blockIds, u.nextScopeId + 1),
                             function |-> fn.function]>>,
             functionScopeDataHomes |-> u.functionScopeDataHomes,
             nextScopeId |-> u.nextScopeId + 1]
    BY <2>2, BlockEntered
  <2>4. u.nextScopeId + 1 = id BY <1>4, <2>1
  <2>5. t = [global |-> u.global, function |-> <<gn>>,
             functionScopeDataHomes |-> u.functionScopeDataHomes, nextScopeId |-> id]
    BY <1>1, <1>6, <2>1, <2>3, <2>4
  <2> QED BY <1>6, <2>5 DEF TableRecord, FunctionRecord
<1>8. PICK ids : ids = gn.blockIds OBVIOUS
<1>9. ids \in Seq(Nat) /\ ids # <<>> /\ id = Last(ids) /\ ids[1] # id
  <2>1. PICK old : old = fn.blockIds OBVIOUS
  <2>2. old \in Seq(Nat) /\ old # <<>> /\ old[1] # id /\ ids = Append(old, id) /\ id \in Nat
    BY <1>5, <1>7, <1>8, <2>1
  <2>3. ids \in Seq(Nat) /\ Len(ids) = Len(old) + 1 /\ ids[Len(ids)] = id BY ONLY <2>2
  <2>4. Len(old) >= 1 /\ ids[1] = old[1] BY ONLY <2>2
  <2> QED BY <2>2, <2>3, <2>4 DEF Last
<1>10. ~LocalClash(gn, id, v) BY <1>2, <1>5, <1>7, <1>8, <1>9 DEF LocalClash
<1>11. Left(t, v) BY <1>2, <1>7, <1>8, <1>9, BoundLocally, <1>10
<1>12. SUFFICES ASSUME hasErrors' PROVE FALSE OBVIOUS
<1>13. AnalyzeObject(t, v, h + 1).refused BY <1>1, <1>12
<1>14. PICK at : at = h + 1 OBVIOUS
<1>15. AnalyzeObject(t, v, at).refused BY <1>13, <1>14
<1>16. \E after : /\ Wider(t, after) /\ Find(after, v.name) # None
                  /\ MentionedBy(Visiting(t, v, after), v) = <<"undefined">>
  BY ONLY <1>11, <1>15, AnalysisRefused
<1>17. PICK after : MentionedBy(Visiting(t, v, after), v) = <<"undefined">> BY <1>16
<1>18. MentionedBy(Visiting(t, v, after), v) = NoNote BY <1>2 DEF MentionedBy
<1>19. \A x : <<x>> # <<>> OBVIOUS
<1> QED BY <1>17, <1>18, <1>19 DEF NoNote

-----------------------------------------------------------------------------
(* What stands in the table together goes together, so that nothing that   *)
(* is not known to pass wrongly has passed.                                *)
LEMMA TwiceInScope ==
    ASSUME Good, NEW sid, Books(sid), NEW d \in DOMAIN source, IsDeclaration(d), ~WronglyAccepted(d),
           NEW e \in SameScope(d)
    PROVE  /\ e \in DOMAIN source /\ e < d /\ e \in Nat /\ d \in Nat /\ Declares(e, source[d].name)
           /\ source[e].path = source[d].path
           /\ HasLinkage(d) /\ HasLinkage(e)
           /\ source[d].path # <<>> => Tag(d) = "object" /\ Tag(e) = "object"
<1>1. /\ e \in DOMAIN source /\ Declares(e, source[d].name) /\ e < d
      /\ source[e].path = source[d].path
  BY DEF SameScope, Before, Declarations
<1>2. TreeOk BY Facts
<1>3. e \in Nat /\ d \in Nat BY <1>1, <1>2, Places
<1>4. IsDecl(d) /\ IsDecl(e) /\ source[e].name = source[d].name
  BY <1>1 DEF IsDeclaration, IsDecl, Declares
<1>5. Scope(d) = Scope(e) BY <1>1, <1>2, SameScopePath
<1>6. ScopeOk(d, e) BY <1>1, <1>3, <1>4, <1>5, Facts
<1>7. CASE source[d].path # <<>>
  BY <1>2, <1>7, Places, <1>6, <1>1, <1>3 DEF WronglyAccepted, FileScopeItem, ScopeOk
<1>8. CASE source[d].path = <<>>
  <2>1. Tag(e) # "enumerator" BY <1>6 DEF ScopeOk
  <2>2. Tag(e) # "parameter"
    <3>1. Tag(e) = "parameter" => Len(source[e].path) = 1 BY <1>1, Facts DEF DeclOk
    <3>2. Len(source[e].path) = 0 BY <1>1, <1>8
    <3> QED BY <3>1, <3>2
  <2>3. IsDeclaration(e) BY <1>4, <2>1, <2>2 DEF IsDecl, IsDeclaration
  <2>4. HasLinkage(d) /\ HasLinkage(e)
    BY <1>1, <1>8, <2>3 DEF HasLinkage, IsDeclaration, IsFunctionItem, FileScopeItem
  <2> QED BY <1>1, <1>3, <1>8, <2>4
<1> QED BY <1>7, <1>8

LEMMA CompatibleBack ==
    ASSUME NEW a \in ObjectTypes, NEW b \in ObjectTypes, Compatible(a, b)
    PROVE  Compatible(b, a)
BY DEF None, ObjectTypes, Compatible, Composite

LEMMA TypesTogether ==
    ASSUME Good, NEW sid, Books(sid), NEW n, NEW e \in Entries, LinkedEntryOk(n, e),
           NEW a \in LinkedOf(n), NEW b \in LinkedOf(n)
    PROVE  Compatible(TypeOfAny(a), TypeOfAny(b)) /\ (IsFunctionItem(a) <=> IsFunctionItem(b))
BY LinkedTypes, FunctionTypesApart, CompatibleBack, Compatibility DEF LinkedEntryOk,
   IsFunction, Entries

(* Beside each other in the file: one entry.                               *)
LEMMA FileTogether ==
    ASSUME Good, NEW sid, Books(sid), NEW d \in DOMAIN source, IsDeclaration(d), source[d].path = <<>>,
           NEW n, n = source[d].name
    PROVE  \E x \in Entries : LinkedEntryOk(n, x) /\ d \in LinkedOf(n) /\ ~SharedWithEnumerator(n)
<1>1. d \in LinkedOf(n)
  BY DEF LinkedOf, Declarations, Declares, IsDeclaration, HasLinkage, IsFunctionItem, FileScopeItem
<1>2. n \in Names BY Facts DEF DeclOk, IsDecl, IsDeclaration
<1>3. \A c \in Declarations(n) : Tag(c) = "enumerator" => ~FileScopeItem(c)
  BY Facts DEF FileScopeItem, Declarations, Declares, IsDecl, IsDeclaration, Scope, ScopeOk
<1>4. ~SharedWithEnumerator(n) BY <1>3 DEF SharedWithEnumerator
<1>5. InFile(n) BY <1>1 DEF InFile
<1>6. PICK x : x = table.global[<<0, n>>] OBVIOUS
<1>7. GlobalOk BY DEF Books
<1>8. x \in Entries /\ EntryOk(n, x) BY <1>2, <1>4, <1>5, <1>6, <1>7 DEF GlobalOk
<1>9. LinkedEntryOk(n, x) BY <1>1, <1>8 DEF EntryOk
<1> QED BY <1>1, <1>4, <1>8, <1>9

(* What is left to hold against an item that passed.                       *)
LEMMA PassedTypes ==
    ASSUME Good, NEW sid, Books(sid), NEW d \in DOMAIN source, IsDeclaration(d), ~WronglyAccepted(d),
           FileScopeItem(d) \/ InOpenFunction(d), path = <<>> => FileScopeItem(d), NEW e \in SameScope(d)
    PROVE  Compatible(TypeOfAny(d), TypeOfAny(e)) /\ (IsFunctionItem(d) <=> IsFunctionItem(e))
<1>1. PICK n : n = source[d].name OBVIOUS
<1>2. /\ e \in DOMAIN source /\ Declares(e, n) /\ source[e].path = source[d].path
      /\ HasLinkage(d) /\ HasLinkage(e)
      /\ source[d].path # <<>> => Tag(d) = "object" /\ Tag(e) = "object"
  BY <1>1, TwiceInScope
<1>3. e \in LinkedOf(n) BY <1>2 DEF LinkedOf, Declarations
<1>4. CASE source[d].path = <<>> BY <1>1, <1>4, FileTogether, <1>3, TypesTogether
<1>5. CASE source[d].path # <<>>
  <2>1. path # <<>> /\ InOpenFunction(d) BY <1>5 DEF FileScopeItem
  <2>2. InOpenFunction(e) BY <1>2, <2>1 DEF InOpenFunction
  <2>3. InValues(d) /\ InValues(e) BY <1>2, <1>5, <2>1, <2>2 DEF InValues
  <2>4. TreeOk BY Facts
  <2>5. Scope(d) = Scope(e) BY <1>2, <2>4, SameScopePath
  <2>6. source[e].name = n BY <1>2 DEF Declares
  <2>7. KeyOf(sid, d) = KeyOf(sid, e) BY <1>1, <2>5, <2>6 DEF KeyOf
  <2>8. PICK fn : fn = OpenFunction(table) OBVIOUS
  <2>9. ValuesOk(sid, fn) BY <2>1, <2>8, OpenFunctionIs
  <2>10. PICK x : x = fn.values[KeyOf(sid, d)] OBVIOUS
  <2>11. BlockEntryOk(sid, d, x) /\ BlockEntryOk(sid, e, x)
    BY <2>9, <2>3, <1>2, <2>7, <2>10 DEF ValuesOk
  <2>12. PICK u, s, t : u = x.type /\ s = TypeOf(d) /\ t = TypeOf(e) OBVIOUS
  <2>13. u \in ObjectTypes /\ Compatible(u, s) /\ Compatible(u, t)
    BY <1>2, <1>5, <2>11, <2>12 DEF BlockEntryOk
  <2>14. ~IsFunctionItem(d) /\ ~IsFunctionItem(e) BY <1>2, <1>5 DEF IsFunctionItem
  <2>15. s = TypeOfAny(d) /\ t = TypeOfAny(e) BY <2>12, <2>14 DEF TypeOfAny
  <2>16. d \in LinkedOf(n) BY <1>1, <1>2 DEF LinkedOf, Declarations, Declares, IsDeclaration
  <2>17. s \in ObjectTypes /\ t \in ObjectTypes BY <1>3, <2>14, <2>15, <2>16, LinkedTypes
  <2>18. Compatible(s, u) BY <2>13, <2>17, CompatibleBack
  <2>19. Compatible(s, t) BY <2>13, <2>17, <2>18, Compatibility
  <2> QED BY <2>14, <2>15, <2>19
<1> QED BY <1>4, <1>5

LEMMA PassedDeclaration ==
    ASSUME Good, NEW sid, Books(sid), NEW d \in DOMAIN source, IsDeclaration(d),
           FileScopeItem(d) \/ InOpenFunction(d), path = <<>> => FileScopeItem(d),
           DeclarationViolates(d), ~WronglyAccepted(d)
    PROVE  \E n \in Mentions(d) : Scoped(d, n) = {}
<1>1. \A e \in SameScope(d) : HasLinkage(d) /\ HasLinkage(e) BY TwiceInScope
<1>2. ~TypesClash(d, {e \in SameScope(d) : HasLinkage(e)}) BY PassedTypes DEF TypesClash
<1>3. PICK n : n = source[d].name OBVIOUS
<1>4. ASSUME Tag(d) = "definition", NEW e \in Before(d), Tag(e) = "definition" PROVE FALSE
  BY <1>3, <1>4, Facts, FileTogether, Places DEF Before, Declarations, DeclOk, LinkedOf,
     HasLinkage, IsFunctionItem, LinkedEntryOk, FunctionEntryOk
<1>5. Tag(d) = "object" /\ source[d].path # <<>> /\ source[d].storage = "extern"
          => source[d].init = None BY Facts, Places DEF DeclOk
<1>6. ASSUME Tag(d) = "object", source[d].init # None, NEW e \in SameScope(d), source[e].init # None
      PROVE  FALSE
  BY <1>3, TwiceInScope, <1>6, <1>5, FileTogether DEF IsFunctionItem, HasLinkage,
     FileScopeItem, LinkedEntryOk, AtFile, Declarations, LinkedOf, ObjectEntryOk
<1>7. ~(Tag(d) = "object" /\ ~HasLinkage(d) /\ TypeOf(d) = "int[]")
  BY Facts DEF DeclOk, HasLinkage
<1> QED BY <1>1, <1>2, <1>4, <1>5, <1>6, <1>7 DEF DeclarationViolates, FileScopeItem

(* A declaration that passed, and what its initializer mentions.           *)
PassedRule(sid, d) ==
    Good /\ Books(sid) /\ d \in DOMAIN source /\ IsDeclaration(d)
        /\ (FileScopeItem(d) \/ InOpenFunction(d)) /\ (path = <<>> => FileScopeItem(d))
        /\ DeclarationViolates(d) /\ ~WronglyAccepted(d)
        => \E n \in Mentions(d) : Scoped(d, n) = {}

PassedRules == \A sid, d : PassedRule(sid, d)

LEMMA PassedRulesHold == PassedRules'
<1>1. \A sid, d : PassedRule(sid, d) BY PassedDeclaration DEF PassedRule
<1>2. PassedRules BY <1>1 DEF PassedRules
<1> QED BY <1>2, PTL

(* The last item is a declaration, and is accepted.                        *)
LEMMA AcceptedLast ==
    ASSUME NEW h, LastItem' = h, AcceptedFor(h)', ~hasErrors', NoLabelMissing'
    PROVE  RefusedAsC'
BY DEF NoLabelMissing, AcceptedFor, RefusedAsC, LastItem

LEMMA DeclaredAccepted ==
    ASSUME NEW h, LastItem' = h, h \in DOMAIN source', IsDeclaration(h)',
           Good', NEW sid, Books(sid)',
           source'[h].path = path' \/ source'[h].path = <<>>,
           \A m \in Mentions(h)' : Scoped(h, m)' = {} => WronglyAccepted(h)',
           ~hasErrors', NoLabelMissing'
    PROVE  RefusedAsC'
BY PassedRulesHold, AcceptedLast DEF FileScopeItem, InOpenFunction, PassedRules, PassedRule,
   AcceptedFor, Violates

(* A name of no declaration in scope is not let pass.                      *)
LEMMA UndefinedRefused ==
    ASSUME NEW t, NEW item, NEW at, AnalyzeObject(t, item, at).note.mentioned = <<"undefined">>
    PROVE  AnalyzeObject(t, item, at).refused
BY DEF AnalyzeObject

LEMMA MentionsMet ==
    ASSUME Good, NEW item \in Offered.objects, NEW h, h = Here, Declaration(item), ~hasErrors',
           NEW it, Begins(h, it), MentionsOk', h = Len(source'), NEW m \in Mentions(h)', Scoped(h, m)' = {}
    PROVE  WronglyAccepted(h)'
<1>1. /\ source'[h].path = path /\ SameObject(h, item)' /\ h \in Nat /\ h # 0
      /\ ~AnalyzeObject(table, item, h).refused /\ store'[h] = AnalyzeObject(table, item, h).note
  BY DeclarationFacts
<1>2. h > 0 BY <1>1
<1>3. MentionOk(h, m)' BY <1>2 DEF MentionsOk
<1>4. CASE Confused(m)' BY <1>4 DEF WronglyAccepted
<1>5. CASE NotYetDeclared(h, m)'
  BY <1>1, <1>5, BeginsIs DEF SameObject, NotYetDeclared, Declares, Good, PathOk, IsPrefix,
     Scoped, Declarations
<1>6. CASE store'[h].mentioned = Meaning(Scoped(h, m))'
  BY <1>1, <1>6, UndefinedRefused DEF Meaning
<1> QED BY <1>3, <1>4, <1>5, <1>6 DEF MentionOk

(* What C and what the analyser say of an item is in the source.           *)
LEMMA SameBefore ==
    ASSUME source' = source
    PROVE  /\ \A n : Declarations(n)' = Declarations(n) /\ LinkedInBlock(n)' = LinkedInBlock(n)
           /\ \A d, n : Scoped(d, n)' = Scoped(d, n)
           /\ \A d : /\ Before(d)' = Before(d) /\ SameScope(d)' = SameScope(d)
                     /\ Linked(d)' = Linked(d) /\ Mentions(d)' = Mentions(d)
           /\ \A d, n : NotYetDeclared(d, n)' <=> NotYetDeclared(d, n)
BY SameItems DEF Declarations, LinkedInBlock, Scoped, Before, SameScope, Linked, Mentions,
   NotYetDeclared

LEMMA SameClash ==
    ASSUME source' = source, NEW d
    PROVE  /\ TypesClash(d, {e \in SameScope(d) : HasLinkage(e)})'
                  <=> TypesClash(d, {e \in SameScope(d) : HasLinkage(e)})
           /\ TypesClash(d, Linked(d))' <=> TypesClash(d, Linked(d))
BY SameItems, SameBefore DEF TypesClash

LEMMA SameDeclarationViolates ==
    ASSUME source' = source, NEW d
    PROVE  DeclarationViolates(d)' <=> DeclarationViolates(d)
<1>1. /\ \A c : Tag(c)' = Tag(c) /\ TypeOf(c)' = TypeOf(c) /\ (HasLinkage(c)' <=> HasLinkage(c))
      /\ FileScopeItem(d)' <=> FileScopeItem(d)
  BY SameItems
<1>2. /\ SameScope(d)' = SameScope(d) /\ Before(d)' = Before(d) /\ Mentions(d)' = Mentions(d)
      /\ \A n : Scoped(d, n)' = Scoped(d, n)
  BY SameBefore
<1> DEFINE Clash == TypesClash(d, {e \in SameScope(d) : HasLinkage(e)})
<1>3. Clash' <=> Clash BY SameClash
<1>4. DeclarationViolates(d) <=>
          \/ \E e \in SameScope(d) : ~HasLinkage(d) \/ ~HasLinkage(e)
          \/ Clash
          \/ Tag(d) = "definition" /\ \E e \in Before(d) : Tag(e) = "definition"
          \/ /\ Tag(d) = "object"
             /\ \/ source[d].init # None /\ source[d].storage = "extern" /\ ~FileScopeItem(d)
                \/ source[d].init # None /\ \E e \in SameScope(d) : source[e].init # None
                \/ ~HasLinkage(d) /\ TypeOf(d) = "int[]"
                \/ \E n \in Mentions(d) : Scoped(d, n) = {}
  BY DEF DeclarationViolates
<1>5. DeclarationViolates(d)' <=>
          \/ \E e \in SameScope(d)' : ~HasLinkage(d)' \/ ~HasLinkage(e)'
          \/ Clash'
          \/ Tag(d)' = "definition" /\ \E e \in Before(d)' : Tag(e)' = "definition"
          \/ /\ Tag(d)' = "object"
             /\ \/ source'[d].init # None /\ source'[d].storage = "extern" /\ ~FileScopeItem(d)'
                \/ source'[d].init # None /\ \E e \in SameScope(d)' : source'[e].init # None
                \/ ~HasLinkage(d)' /\ TypeOf(d)' = "int[]"
                \/ \E n \in Mentions(d)' : Scoped(d, n)' = {}
  BY DEF DeclarationViolates
<1> HIDE DEF Clash
<1> QED BY <1>1, <1>2, <1>3, <1>4, <1>5

LEMMA SameStatementViolates ==
    ASSUME source' = source, NEW d
    PROVE  StatementViolates(d)' <=> StatementViolates(d)
<1>1. \A c : Tag(c)' = Tag(c) BY SameItems
<1>2. \A c, what : Within(c, what)' = Within(c, what) BY <1>1 DEF Within
<1>3. \A e, what : TwinOf(d, e, what)' <=> TwinOf(d, e, what) BY <1>1, <1>2 DEF TwinOf
<1>4. StatementRule(d)' BY RulesHold DEF RulesOk
<1>5. StatementRule(d) BY StatementRules
<1>6. CASE Tag(d) \in {"break", "continue", "case", "default", "label"}
  BY <1>1, <1>2, <1>3, <1>4, <1>5, <1>6 DEF StatementRule
<1>7. CASE Tag(d) \notin {"break", "continue", "case", "default", "label"}
  BY <1>1, <1>7 DEF StatementViolates
<1> QED BY <1>6, <1>7

LEMMA SameViolates ==
    ASSUME source' = source, NEW d
    PROVE  /\ Violates(d)' <=> Violates(d)
           /\ IsDeclaration(d)' <=> IsDeclaration(d)
           /\ LastItem' = LastItem
BY SameItems, SameDeclarationViolates, SameStatementViolates DEF IsDeclaration, LastItem, Tag,
   Violates

LEMMA SameUndefined ==
    ASSUME source' = source, NEW d
    PROVE  Undefined(d)' <=> Undefined(d)
BY UndefinedRulesHold, SameItems, SameBefore, SameClash DEF UndefinedRule, Undefined,
   StaticLate, PlainLate, Internal, UndefinedRules

LEMMA SameWronglyRefused ==
    ASSUME source' = source, NEW d
    PROVE  WronglyRefused(d)' <=> WronglyRefused(d)
BY SameItems, SameBefore, SameFile DEF WronglyRefused

LEMMA SameWronglyAccepted ==
    ASSUME source' = source, NEW d, \A n : Confused(n) => Confused(n)', WronglyAccepted(d)
    PROVE  WronglyAccepted(d)'
BY SameItems, SameBefore DEF WronglyAccepted

(* What closes a construct refuses a unit for a label only, and what was   *)
(* known to pass wrongly still is.                                         *)
Closes == source' = source /\ (path' \in {path, <<>>} \/ (path # <<>> /\ path' = Front(path)))

LEMMA ClosedAccepted ==
    ASSUME Good, TreeOk, RefusedAsC, ~hasErrors, Closes, ~hasErrors', NoLabelMissing'
    PROVE  RefusedAsC'
BY ConfusedKept, SameViolates, SameWronglyAccepted, AcceptedLast DEF Closes, RefusedAsC,
   LastItem, AcceptedFor

LEMMA FunctionRefused ==
    ASSUME Good, EndFunctionDefinition, hasErrors'
    PROVE  RefusedAsC'
<1>1. PICK g \in jumps.pendingGotos : \A l \in jumps.namedLabels : l[1] # source[g].name
  BY DEF EndFunctionDefinition
<1>2. path # <<>> /\ path' = <<>> /\ source' = source
  BY DEF EndFunctionDefinition, Open
<1>3. g \in DOMAIN source /\ Tag(g) = "goto" /\ InOpenFunction(g) BY <1>2 DEF Good, GotosWait
<1>4. ASSUME NEW l \in TargetsOf(g) PROVE FALSE
  <2>1. /\ l \in DOMAIN source /\ Tag(l) = "label" /\ source[l].name = source[g].name
        /\ source[l].path[1] = source[g].path[1]
    BY DEF TargetsOf
  <2>2. source[l].path # <<>> BY <2>1 DEF Good, PlacedOk
  <2>3. InOpenFunction(l) BY <1>3, <2>1, <2>2 DEF InOpenFunction
  <2>4. <<source[l].name, store[l].label>> \in jumps.namedLabels
    BY <1>2, <2>1, <2>3 DEF Good, GotosWait
  <2> QED BY <1>1, <2>1, <2>4
<1>5. TargetsOf(g)' = {} BY <1>2, SameItems, <1>4 DEF TargetsOf
<1>6. FunctionEnded(g)' BY <1>2 DEF FunctionEnded
<1>7. g \in DOMAIN source' /\ Tag(g)' = "goto" BY <1>2, <1>3, SameItems
<1>8. LabelMissing' BY <1>5, <1>6, <1>7 DEF LabelMissing
<1> QED BY <1>8 DEF RefusedAsC

(* Nothing changes.                                                        *)
LEMMA NothingChanges ==
    ASSUME RefusedAsC, UNCHANGED vars
    PROVE  RefusedAsC'
<1>1. source' = source /\ path' = path /\ hasErrors' = hasErrors BY DEF vars
<1>2. PICK h : h = LastItem OBVIOUS
<1>3. /\ LastItem' = h /\ (Violates(h)' <=> Violates(h)) /\ (IsDeclaration(h)' <=> IsDeclaration(h))
      /\ Undefined(h)' <=> Undefined(h)
      /\ WronglyRefused(h)' <=> WronglyRefused(h)
  BY <1>1, <1>2, SameViolates, SameUndefined, SameWronglyRefused
<1>4. LabelMissing' <=> LabelMissing
  BY <1>1, SameItems DEF LabelMissing, FunctionEnded, TargetsOf
<1>5. WronglyAccepted(h) => WronglyAccepted(h)'
  BY <1>1, SameFile, SameBefore, SameItems, SameWronglyAccepted DEF Visible, HidesNoObject,
     OutOfScope, Confused
<1>6. RefusedAsC <=>
          (h > 0 => IF hasErrors THEN RefusedFor(h) ELSE AcceptedFor(h) /\ ~LabelMissing)
  BY <1>2 DEF RefusedAsC, LastItem, RefusedFor, AcceptedFor
<1>7. RefusedAsC' <=>
          (LastItem' > 0 => IF hasErrors' THEN RefusedFor(LastItem)'
                            ELSE AcceptedFor(LastItem)' /\ ~LabelMissing')
  BY DEF RefusedAsC, LastItem, RefusedFor, AcceptedFor
<1>8. RefusedFor(h) => RefusedFor(h)' BY <1>3, <1>4 DEF RefusedFor
<1>9. AcceptedFor(h) => AcceptedFor(h)' BY <1>3, <1>5 DEF AcceptedFor
<1>10. (RefusedFor(LastItem)' <=> RefusedFor(h)') /\ (AcceptedFor(LastItem)' <=> AcceptedFor(h)')
  BY <1>3
<1> QED BY <1>1, <1>3, <1>4, <1>6, <1>7, <1>8, <1>9, <1>10

(* The declarations that are accepted.                                     *)
LEMMA DeclarationAccepted ==
    ASSUME Good, Good', NEW sid, Books(sid), NEW nid, Books(nid)', NEW item \in Offered.objects,
           Declaration(item), ~hasErrors', MentionsOk', NoLabelMissing'
    PROVE  RefusedAsC'
<1>1. PICK h, it, n : h = Here /\ it = Written(item) /\ n = item.name OBVIOUS
<1>2. TreeOk BY Facts
<1>3. ObjectDeclaring(h, it, n, item) BY <1>1, <1>2, DeclarationRefusal
<1>4. Begins(h, it) /\ Declaring(h, it, n) BY <1>3 DEF ObjectDeclaring, Declaring
<1>5. h \in DOMAIN source' /\ IsDeclaration(h)' /\ source'[h].path = path /\ LastItem' = h
  BY <1>4, DeclaringIs, BeginsIs
<1>6. path' = path /\ Grows /\ New = {h} BY <1>1, DeclarationFacts
<1>7. h = Len(source')
  <2>1. PICK k, m : k = Len(source) /\ m = Len(source') OBVIOUS
  <2>2. /\ k \in Nat /\ DOMAIN source = 1 .. k /\ m \in Nat /\ DOMAIN source' = 1 .. m
        /\ DOMAIN source \subseteq DOMAIN source'
    BY <1>6, <2>1, Domains
  <2>3. h = k + 1 /\ (1 .. m) \ (1 .. k) = {h} BY <1>1, <1>6, <2>1, <2>2 DEF Here, New
  <2>4. m >= h BY <2>3, <2>2
  <2>5. ~(m > h) BY <2>2, <2>3
  <2> QED BY <2>1, <2>2, <2>3, <2>4, <2>5
<1>8. \A m \in Mentions(h)' : Scoped(h, m)' = {} => WronglyAccepted(h)'
  BY <1>1, <1>4, <1>7, MentionsMet
<1> QED BY <1>5, <1>6, <1>8, DeclaredAccepted

LEMMA FunctionAccepted ==
    ASSUME Good', NEW nid, Books(nid)', NEW h, NEW it, NEW n, NEW item, FunctionDeclaring(h, it, n, item),
           path' = path \/ path = <<>>, ~hasErrors', NoLabelMissing'
    PROVE  RefusedAsC'
BY DeclaringIs, BeginsIs, DeclaredAccepted DEF FunctionDeclaring, Declaring, Mentions

(* The variable of a loop is the last item.                                *)
LEMMA LoopAccepted ==
    ASSUME Good, Good', NEW sid, Books(sid), NEW nid, Books(nid)', NEW kind, NEW n \in Names, NEW declared,
           declared = <<n>>, Loop(kind, declared), NoLabelMissing'
    PROVE  RefusedAsC'
<1>1. ~hasErrors' BY DeclaredLoopAccepted
<1>2. PICK it, note, v, done, t, h :
          /\ h = Here /\ v = LoopVariable(n, path') /\ it.what = "loop"
          /\ Write(<<it>> \o <<v>>, <<note>> \o <<done.note>>)
  BY LoopOpened
<1>3. PICK vn, k : vn = done.note /\ k = h + 1 OBVIOUS
<1>4. Grows /\ New = {h, k} /\ source'[k] = v /\ h \in Nat BY <1>2, <1>3, AddedTwo
<1>5. v.what = "object" /\ v.init = <<None>> /\ v.path = path' BY <1>2, LoopVariableIs
<1>6. k \in DOMAIN source' BY <1>4 DEF New
<1>7. Tag(k)' = "object" /\ IsDeclaration(k)' /\ source'[k].path = path'
  BY <1>4, <1>5 DEF Tag, IsDeclaration
<1>8. Mentions(k)' = {} BY <1>4, <1>5 DEF Mentions
<1>9. LastItem' = k
  <2> DEFINE S == {0} \cup {e \in DOMAIN source' : source'[e].what # "parameter"}
  <2>1. /\ Len(source) \in Nat /\ DOMAIN source = 1 .. Len(source)
        /\ Len(source') \in Nat /\ DOMAIN source' = 1 .. Len(source')
    BY <1>4, Domains
  <2>2. S \subseteq Nat BY <2>1
  <2>3. k \in S BY <1>4, <1>5, <1>6
  <2>4. \A x \in S : x <= k BY <1>4, <1>2, <1>3, <2>1 DEF New, Here
  <2> HIDE DEF S
  <2>5. Max(S) = k BY <2>2, <2>3, <2>4, MaxIs
  <2> QED BY <2>5 DEF S, LastItem, Tag
<1> QED BY <1>1, <1>6, <1>7, <1>8, <1>9, DeclaredAccepted

LEMMA LabelsPresentNext == Inv' => NoLabelMissing'
<1>1. Inv => NoLabelMissing BY LabelsPresent
<1> QED BY <1>1, PTL

LEMMA RefusedNext ==
    ASSUME Inv, Inv', BooksKept, BooksKept', ~hasErrors' => MentionsOk', RefusedAsC, Next
    PROVE  RefusedAsC'
<1>1. ~hasErrors BY NothingBehindErrors
<1>2. Good BY <1>1 DEF Inv
<1>3. PICK sid : Books(sid) BY <1>1 DEF BooksKept, BooksExist
<1>4. TreeOk BY <1>2, <1>3, Facts
<1>5. NoLabelMissing' BY LabelsPresentNext
<1>6. ~hasErrors' => Good' /\ (\E nid : Books(nid)') BY DEF Inv, BooksKept, BooksExist
<1>7. CASE \E item \in Offered.objects : Declaration(item)
  BY <1>2, <1>3, <1>5, <1>6, <1>7, DeclarationRefused, DeclarationAccepted
<1>8. CASE \E item \in Offered.prototypes : Prototype(item)
  <2>1. PICK item \in Offered.prototypes : Prototype(item) BY <1>8
  <2>2. PICK h, it, n : h = Here /\ it = Written(item) /\ n = item.name OBVIOUS
  <2>3. FunctionDeclaring(h, it, n, item) BY <1>2, <1>4, <2>1, <2>2, PrototypeBegins
  <2>4. path' = path BY <2>1 DEF Prototype
  <2> QED BY <1>2, <1>3, <1>5, <1>6, <2>1, <2>3, <2>4, PrototypeRefused, FunctionAccepted
<1>9. CASE \E item \in Offered.definitions, ps \in Offered.parameters : FunctionDefinition(item, ps)
  <2>1. PICK item \in Offered.definitions, ps \in Offered.parameters : FunctionDefinition(item, ps)
    BY <1>9
  <2>2. PICK h, n : h = Here /\ n = item.name OBVIOUS
  <2>3. PICK it : FunctionDeclaring(h, it, n, item) BY <1>2, <1>4, <2>1, <2>2, DefinitionBegins
  <2>4. path = <<>> BY <2>1 DEF FunctionDefinition
  <2> QED BY <1>2, <1>3, <1>5, <1>6, <2>1, <2>3, <2>4, DefinitionRefused, FunctionAccepted
<1>10. CASE \E n \in Offered.names : EnumSpecifier(n) \/ LabeledStatement(n) \/ GotoStatement(n)
  BY <1>2, <1>4, <1>5, <1>10, LabeledStatementRefused, OthersRefused
<1>11. CASE Block \/ Switch BY <1>2, <1>5, <1>11, OthersRefused
<1>12. CASE \E l \in Offered.loops : Loop(l[1], l[2])
  <2>1. PICK l \in Offered.loops : Loop(l[1], l[2]) BY <1>12
  <2>2. PICK kind, declared : kind = l[1] /\ declared = l[2] OBVIOUS
  <2>3. Loop(kind, declared) BY <2>1, <2>2
  <2>4. menu \in DOMAIN Menus BY <1>2 DEF Good, TypesOk
  <2>5. declared = None \/ \E n \in Names : declared = <<n>>
    BY <2>1, <2>2, <2>4, MenusAssumption DEF Offered
  <2>6. CASE declared = None BY <1>2, <1>5, <2>3, <2>6, PlainLoopRefused
  <2>7. CASE \E n \in Names : declared = <<n>>
    BY <2>7, <1>2, <1>3, <2>3, DeclaredLoopAccepted, <1>5, <1>6, LoopAccepted
  <2> QED BY <2>5, <2>6, <2>7
<1>13. CASE \E value \in CaseValues : CaseLabel(value) BY <1>2, <1>5, <1>13, CaseLabelRefused
<1>14. CASE DefaultLabel BY <1>2, <1>5, <1>14, DefaultLabelRefused
<1>15. CASE \E kind \in {"break", "continue"} : JumpStatement(kind)
  BY <1>2, <1>5, <1>15, JumpStatementRefused
<1>16. CASE EndInner
  BY <1>16, <1>1, <1>2, <1>4, <1>5, ClosedAccepted DEF EndInner, EndBlock, EndLoop, EndSwitch,
     Open, Closes
<1>17. CASE EndFunctionDefinition
  BY <1>2, <1>17, FunctionRefused, EndFunctionIs, <1>1, <1>4, <1>5, ClosedAccepted DEF Closes
<1> QED BY <1>7, <1>8, <1>9, <1>10, <1>11, <1>12, <1>13, <1>14, <1>15, <1>16, <1>17 DEF Next

(* A unit is refused at the first thing in it that violates a constraint   *)
(* of C, and only there: every handler that sets hasErrors does it for a   *)
(* declaration, a statement or a goto that C rejects, that C leaves        *)
(* undefined or that is among the few known to be refused wrongly, and     *)
(* lets no other pass but the known two.                                   *)
THEOREM RefusedWhereC == Spec => []RefusedAsC
<1>1. Init => RefusedAsC BY NoneAround DEF Init, LastItem, RefusedAsC
<1>2. NamesAsC => (~hasErrors => MentionsOk) BY DEF NamesAsC, MentionsOk, MentionOk
<1>3. /\ RefusedAsC /\ Inv /\ Inv' /\ BooksKept /\ BooksKept' /\ (~hasErrors => MentionsOk)'
      /\ [Next]_vars
      => RefusedAsC' BY RefusedNext, NothingChanges
<1> QED BY <1>1, <1>2, <1>3, InvHolds, BooksHold, NamesMeanAsWritten, PTL DEF Spec
=============================================================================
