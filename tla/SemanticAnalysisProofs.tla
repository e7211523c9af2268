----------------------- MODULE SemanticAnalysisProofs -----------------------
(***************************************************************************)
(* The jumps of SemanticAnalysis go where C says, in units of any length   *)
(* and any menu.                                                           *)
(*                                                                         *)
(* The argument.  The stacks of the visitor are the loops and switches on  *)
(* the path, in the order in which they were opened (LoopsOpen,            *)
(* SwitchesOpen): the path only grows behind what is open and shrinks from *)
(* its end, and so do they.  The labels and the gotos that wait are those  *)
(* of the function that is open (GotosWait).  What has been settled of an  *)
(* item stays true when items are added, because all that it refers to was *)
(* written before it.                                                      *)
(***************************************************************************)
EXTENDS SemanticAnalysis, TLAPS

Sequence(s) == s \in Seq(ToSet(s))

Rising(s) == \A i, j \in DOMAIN s : i < j => s[i] < s[j]

-----------------------------------------------------------------------------
(* Sequences.                                                              *)

LEMMA Concatenation ==
    ASSUME NEW s, NEW t, Sequence(s), Sequence(t)
    PROVE  /\ Sequence(s \o t)
           /\ Len(s) \in Nat /\ Len(t) \in Nat
           /\ DOMAIN s = 1 .. Len(s) /\ DOMAIN t = 1 .. Len(t)
           /\ Len(s \o t) = Len(s) + Len(t)
           /\ DOMAIN (s \o t) = 1 .. Len(s) + Len(t)
           /\ \A i \in 1 .. Len(s) : (s \o t)[i] = s[i]
           /\ \A i \in 1 .. Len(t) : (s \o t)[Len(s) + i] = t[i]
<1> DEFINE S == ToSet(s) \cup ToSet(t)
           u == s \o t
<1>1. s \in Seq(S) /\ t \in Seq(S) BY DEF Sequence
<1> HIDE DEF S
<1>2. u \in Seq(S) BY <1>1
<1>3. u \in Seq(ToSet(u))
  <2> HIDE DEF u
  <2> QED BY <1>2 DEF ToSet
<1> QED BY <1>1, <1>3 DEF Sequence

LEMMA Single ==
    ASSUME NEW x
    PROVE  /\ Sequence(<<x>>) /\ Len(<<x>>) = 1 /\ DOMAIN <<x>> = {1} /\ <<x>>[1] = x
           /\ ToSet(<<x>>) = {x}
BY DEF Sequence, ToSet

LEMMA Tabulated ==
    ASSUME NEW n \in Nat, NEW f, f = [i \in 1 .. n |-> f[i]]
    PROVE  Sequence(f) /\ Len(f) = n /\ DOMAIN f = 1 .. n
BY DEF ToSet, Sequence

LEMMA Pushed ==
    ASSUME NEW s \in Seq(Nat), NEW n \in Nat, Rising(s), \A x \in ToSet(s) : x < n
    PROVE  /\ Append(s, n) \in Seq(Nat) /\ Rising(Append(s, n))
           /\ ToSet(Append(s, n)) = ToSet(s) \cup {n}
           /\ Len(s) \in Nat /\ DOMAIN s = 1 .. Len(s)
           /\ Len(Append(s, n)) = Len(s) + 1 /\ DOMAIN Append(s, n) = 1 .. Len(s) + 1
           /\ \A i \in 1 .. Len(s) : Append(s, n)[i] = s[i]
           /\ Append(s, n)[Len(s) + 1] = n
<1> DEFINE t == Append(s, n)
<1>1. /\ t \in Seq(Nat) /\ Len(s) \in Nat /\ Len(t) = Len(s) + 1
      /\ DOMAIN t = 1 .. Len(s) + 1 /\ DOMAIN s = 1 .. Len(s)
      /\ \A i \in 1 .. Len(s) : t[i] = s[i] /\ t[Len(s) + 1] = n
      /\ t[Len(s) + 1] = n
  OBVIOUS
<1> HIDE DEF t
<1>2. ToSet(t) = ToSet(s) \cup {n} BY <1>1 DEF ToSet
<1>3. ASSUME NEW i \in DOMAIN t, NEW j \in DOMAIN t, i < j PROVE t[i] < t[j]
  <2>1. i \in 1 .. Len(s) BY <1>1, <1>3
  <2>2. CASE j = Len(s) + 1 BY <1>1, <2>1, <2>2 DEF ToSet
  <2>3. CASE j # Len(s) + 1
    <3>1. j \in 1 .. Len(s) BY <1>1, <2>3
    <3> QED BY <1>1, <1>3, <2>1, <3>1 DEF Rising
  <2> QED BY <2>2, <2>3
<1>4. Rising(t) BY <1>3 DEF Rising
<1> QED BY <1>1, <1>2, <1>4 DEF t

LEMMA Popped ==
    ASSUME NEW s \in Seq(Nat), Rising(s), s # <<>>
    PROVE  /\ Front(s) \in Seq(Nat) /\ Rising(Front(s))
           /\ Len(s) \in Nat /\ Len(s) >= 1 /\ DOMAIN s = 1 .. Len(s)
           /\ Len(Front(s)) = Len(s) - 1 /\ DOMAIN Front(s) = 1 .. Len(s) - 1
           /\ \A i \in 1 .. Len(s) - 1 : Front(s)[i] = s[i]
           /\ ToSet(Front(s)) = ToSet(s) \ {Last(s)}
           /\ Last(s) \in ToSet(s) /\ \A x \in ToSet(s) : x <= Last(s)
<1> DEFINE t == Front(s)
<1>1. Len(s) \in Nat /\ Len(s) >= 1 /\ DOMAIN s = 1 .. Len(s) OBVIOUS
<1>2. t = [i \in 1 .. Len(s) - 1 |-> s[i]] BY <1>1 DEF Front
<1>3. t \in Seq(Nat) /\ Len(t) = Len(s) - 1 /\ DOMAIN t = 1 .. Len(s) - 1
      /\ \A i \in 1 .. Len(s) - 1 : t[i] = s[i]
  <2>1. t \in [1 .. Len(s) - 1 -> Nat] BY <1>1, <1>2
  <2>2. Len(s) - 1 \in Nat BY <1>1
  <2> HIDE DEF t
  <2> QED BY <1>2, <2>1, <2>2
<1> HIDE DEF t
<1>4. Last(s) \in ToSet(s) /\ Last(s) = s[Len(s)] BY <1>1 DEF Last, ToSet
<1>5. ASSUME NEW x \in ToSet(s) PROVE x <= Last(s) /\ (x # Last(s) => x \in ToSet(t))
  <2>1. PICK i \in 1 .. Len(s) : x = s[i] BY <1>1 DEF ToSet
  <2>2. x \in Nat /\ Last(s) \in Nat BY <1>1, <1>4, <2>1
  <2>3. CASE i = Len(s) BY <1>4, <2>1, <2>2, <2>3
  <2>4. CASE i # Len(s)
    <3> DEFINE n == Len(s)
    <3>0. n \in Nat /\ i \in 1 .. n /\ i # n BY <1>1, <2>4
    <3>1. i < Len(s) /\ i \in 1 .. Len(s) - 1
      <4> HIDE DEF n
      <4>1. i < n /\ i \in 1 .. n - 1 BY <3>0
      <4> QED BY <4>1 DEF n
    <3>2. s[i] < s[Len(s)] BY <1>1, <3>1 DEF Rising
    <3>3. t[i] = x /\ i \in DOMAIN t BY <1>3, <2>1, <3>1
    <3> QED BY <1>4, <2>1, <2>2, <3>2, <3>3 DEF ToSet
  <2> QED BY <2>3, <2>4
<1>6. ASSUME NEW x \in ToSet(t) PROVE x \in ToSet(s) /\ x # Last(s)
  <2>1. PICK i \in 1 .. Len(s) - 1 : x = t[i] BY <1>3 DEF ToSet
  <2>2. i \in DOMAIN s /\ x = s[i] /\ i < Len(s) BY <1>1, <1>3, <2>1
  <2>3. s[i] < s[Len(s)] BY <1>1, <2>2 DEF Rising
  <2>4. s[i] \in Nat BY <2>2
  <2> QED BY <1>4, <2>2, <2>3, <2>4 DEF ToSet
<1>7. ToSet(t) = ToSet(s) \ {Last(s)} BY <1>5, <1>6
<1>8. ASSUME NEW i \in DOMAIN t, NEW j \in DOMAIN t, i < j PROVE t[i] < t[j]
  <2> DEFINE n == Len(s)
  <2>0. n \in Nat /\ i \in 1 .. n - 1 /\ j \in 1 .. n - 1 BY <1>1, <1>3
  <2>1. i \in DOMAIN s /\ j \in DOMAIN s /\ t[i] = s[i] /\ t[j] = s[j]
    <3> HIDE DEF n
    <3>1. i \in 1 .. n /\ j \in 1 .. n BY <2>0
    <3> QED BY <1>1, <1>3, <2>0, <3>1 DEF n
  <2> QED BY <1>8, <2>1 DEF Rising
<1> QED BY <1>1, <1>3, <1>4, <1>5, <1>7, <1>8 DEF t, Rising

LEMMA MaxIs ==
    ASSUME NEW S, S \subseteq Nat, NEW m \in S, \A x \in S : x <= m
    PROVE  Max(S) = m
<1>1. \A x \in S : (\A y \in S : x >= y) => x = m OBVIOUS
<1>2. \A y \in S : m >= y OBVIOUS
<1> QED BY <1>1, <1>2 DEF Max

-----------------------------------------------------------------------------
(* The invariant.                                                          *)

LoopLike == {"loop", "switch"}

LoopFrames == [exit : Nat, cont : Seq(Nat)]

TypesOk ==
    /\ Sequence(source) /\ Sequence(store) /\ Len(store) = Len(source)
    /\ menu \in DOMAIN Menus
    /\ jumps \in [loopStack : Seq(LoopFrames), switchStack : Seq(Nat),
                  namedLabels : SUBSET (Names \X Nat), pendingGotos : SUBSET Nat, nextLabel : Nat]

(* Of what is open, the function was begun first and nothing else is one.  *)
PathOk ==
    /\ path \in Seq(Nat) /\ Rising(path) /\ ToSet(path) \subseteq DOMAIN source
    /\ \A k \in DOMAIN path : Tag(path[k]) = "definition" <=> k = 1

PlacedOk(d) ==
    /\ source[d].path \in Seq(Nat) /\ ToSet(source[d].path) \subseteq DOMAIN source
    /\ Tag(d) \in {"goto", "label"} => source[d].path # <<>>

BreakOk(d) ==
    LET w == Within(d, LoopLike)
    IN  w \in DOMAIN source /\ Tag(w) \in LoopLike /\ store[d].jumpTo = <<store[w].exit>>

ContinueOk(d) ==
    LET w == Within(d, {"loop"})
    IN  w \in DOMAIN source /\ Tag(w) = "loop" /\ store[d].jumpTo = <<store[w].cont>>

SwitchNotes ==
    [exit : Nat, cases : SUBSET (CaseValues \X Nat), defaultLabel : {None} \cup {<<n>> : n \in Nat}]

OfSwitch(d, what) == {c \in DOMAIN source : Tag(c) = what /\ Within(c, {"switch"}) = d}

SwitchOk(d) ==
    /\ store[d] \in SwitchNotes
    /\ store[d].cases = {<<source[c].value, c>> : c \in OfSwitch(d, "case")}
    /\ ToSet(store[d].defaultLabel) = OfSwitch(d, "default")

GotoOk(d) == FunctionEnded(d) => \E l \in TargetsOf(d) : store[d].jumpTo = <<store[l].label>>

SettledOk(d) ==
    /\ Tag(d) = "break" => BreakOk(d)
    /\ Tag(d) = "continue" => ContinueOk(d)
    /\ Tag(d) \in {"case", "default"} => Within(d, {"switch"}) \in DOMAIN source
    /\ Tag(d) = "switch" => SwitchOk(d)
    /\ Tag(d) = "goto" => GotoOk(d)

LabelsOk ==
    /\ \A d \in DOMAIN source : LabelsAt(d) \subseteq 1 .. jumps.nextLabel
    /\ \A d, e \in DOMAIN source : d # e => LabelsAt(d) \cap LabelsAt(e) = {}

OpenIn(what) == {c \in ToSet(path) : Tag(c) \in what}

(* Entry k of the stack of loops is that of the loop or switch at f[k].    *)
LoopEntry(f, k) ==
    /\ jumps.loopStack[k].exit = store[f[k]].exit
    /\ \/ jumps.loopStack[k].cont = None /\ \A i \in 1 .. k : Tag(f[i]) # "loop"
       \/ \E m \in 1 .. k :
              /\ Tag(f[m]) = "loop" /\ jumps.loopStack[k].cont = <<store[f[m]].cont>>
              /\ \A i \in 1 .. k : Tag(f[i]) = "loop" => i <= m

LoopsAt(f) ==
    /\ f \in Seq(Nat) /\ Rising(f) /\ ToSet(f) = OpenIn(LoopLike)
    /\ Len(f) = Len(jumps.loopStack)
    /\ \A k \in DOMAIN f : LoopEntry(f, k)

LoopsOpen == \E f : LoopsAt(f)

SwitchesOpen == Rising(jumps.switchStack) /\ ToSet(jumps.switchStack) = OpenIn({"switch"})

InOpenFunction(d) == source[d].path # <<>> /\ source[d].path[1] = path[1]

GotosWait ==
    path # <<>> =>
        /\ jumps.pendingGotos = {g \in DOMAIN source : Tag(g) = "goto" /\ InOpenFunction(g)}
        /\ jumps.namedLabels =
               {<<source[l].name, store[l].label>> :
                   l \in {e \in DOMAIN source : Tag(e) = "label" /\ InOpenFunction(e)}}

Good ==
    /\ TypesOk
    /\ PathOk
    /\ \A d \in DOMAIN source : PlacedOk(d) /\ SettledOk(d)
    /\ LabelsOk
    /\ LoopsOpen
    /\ SwitchesOpen
    /\ GotosWait

(* Nothing is written behind an error.                                     *)
Inv == ~hasErrors => Good

-----------------------------------------------------------------------------
(* What stays true when items are added.                                   *)

Grows ==
    /\ Sequence(source') /\ Sequence(store') /\ Len(store') = Len(source')
    /\ Len(source) <= Len(source')
    /\ \A d \in DOMAIN source : source'[d] = source[d]

Kept(d) ==
    /\ Tag(d) \in LoopLike => store'[d].exit = store[d].exit
    /\ Tag(d) = "loop" => store'[d].cont = store[d].cont /\ store'[d].entry = store[d].entry
    /\ Tag(d) \in {"case", "default", "label"} => store'[d].label = store[d].label
    /\ Tag(d) \in {"break", "continue"} => store'[d].jumpTo = store[d].jumpTo

LEMMA Domains ==
    ASSUME Good, Grows
    PROVE  /\ Len(source) \in Nat /\ DOMAIN source = 1 .. Len(source)
           /\ Len(source') \in Nat /\ DOMAIN source' = 1 .. Len(source')
           /\ DOMAIN source \subseteq DOMAIN source'
BY DEF Good, TypesOk, Grows, Sequence

LEMMA WithinKept ==
    ASSUME Good, Grows, NEW d \in DOMAIN source, NEW what
    PROVE  Within(d, what)' = Within(d, what)
BY DEF Grows, Good, PlacedOk, Within, Tag

(* Of an item that is written where the path is, what is around it is open. *)
LEMMA WithinFresh ==
    ASSUME Good, Grows, NEW e, source'[e].path = path, NEW what
    PROVE  Within(e, what)' = Max({0} \cup OpenIn(what))
BY DEF Good, PathOk, Grows, Within, Tag, OpenIn

LEMMA SwitchKept ==
    ASSUME Good, Grows, NEW d \in DOMAIN source, Tag(d) = "switch", store'[d] = store[d],
           \A e \in DOMAIN source' \ DOMAIN source :
               source'[e].what \in {"case", "default"} => Within(e, {"switch"})' # d
    PROVE  SwitchOk(d)'
BY Domains, WithinKept DEF Good, SettledOk, Grows, Tag, OfSwitch, SwitchOk

LEMMA GotoKept ==
    ASSUME Good, Grows, \A c \in DOMAIN source : Kept(c),
           NEW d \in DOMAIN source, Tag(d) = "goto", FunctionEnded(d), store'[d] = store[d]
    PROVE  GotoOk(d)'
<1>1. PICK l \in TargetsOf(d) : store[d].jumpTo = <<store[l].label>>
  BY DEF Good, SettledOk, GotoOk
<1>2. l \in DOMAIN source /\ Tag(l) = "label" BY DEF TargetsOf
<1>3. store'[l].label = store[l].label BY <1>2 DEF Kept
<1>4. source'[l] = source[l] /\ source'[d] = source[d] BY <1>2 DEF Grows
<1>5. DOMAIN source \subseteq DOMAIN source' BY Domains
<1>6. l \in TargetsOf(d)' BY <1>1, <1>2, <1>4, <1>5 DEF TargetsOf, Tag
<1> QED BY <1>1, <1>3, <1>6 DEF GotoOk

(* The rest of what an item needs.                                         *)
LEMMA ItemKept ==
    ASSUME Good, Grows, \A c \in DOMAIN source : Kept(c), NEW d \in DOMAIN source,
           Tag(d) = "switch" => SwitchOk(d)', Tag(d) = "goto" => GotoOk(d)'
    PROVE  PlacedOk(d)' /\ SettledOk(d)'
<1>1. source'[d] = source[d] /\ Tag(d)' = Tag(d) BY DEF Grows, Tag
<1>2. DOMAIN source \subseteq DOMAIN source' BY Domains
<1>3. PlacedOk(d) /\ SettledOk(d) BY DEF Good
<1>4. PlacedOk(d)' BY <1>1, <1>2, <1>3 DEF PlacedOk
<1>5. \A c \in DOMAIN source : Tag(c)' = Tag(c) BY DEF Grows, Tag
<1>6. ASSUME Tag(d) = "break" PROVE BreakOk(d)'
  <2> DEFINE w == Within(d, LoopLike)
  <2>1. w \in DOMAIN source /\ Tag(w) \in LoopLike /\ store[d].jumpTo = <<store[w].exit>>
    BY <1>3, <1>6 DEF SettledOk, BreakOk
  <2>2. Within(d, LoopLike)' = w BY WithinKept
  <2>3. store'[w].exit = store[w].exit BY <2>1 DEF Kept
  <2>4. store'[d].jumpTo = store[d].jumpTo BY <1>6 DEF Kept
  <2>5. source'[w] = source[w] BY <2>1 DEF Grows
  <2>6. source'[w].what \in LoopLike BY <2>1, <2>5 DEF Tag
  <2>7. store'[d].jumpTo = <<store'[w].exit>> BY <2>1, <2>3, <2>4
  <2> HIDE DEF w
  <2> QED BY <1>2, <2>1, <2>2, <2>6, <2>7 DEF BreakOk, Tag, LoopLike
<1>7. ASSUME Tag(d) = "continue" PROVE ContinueOk(d)'
  <2> DEFINE w == Within(d, {"loop"})
  <2>1. w \in DOMAIN source /\ Tag(w) = "loop" /\ store[d].jumpTo = <<store[w].cont>>
    BY <1>3, <1>7 DEF SettledOk, ContinueOk
  <2>2. Within(d, {"loop"})' = w BY WithinKept
  <2>3. store'[w].cont = store[w].cont BY <2>1 DEF Kept
  <2>4. store'[d].jumpTo = store[d].jumpTo BY <1>7 DEF Kept
  <2>5. source'[w] = source[w] BY <2>1 DEF Grows
  <2>6. source'[w].what = "loop" BY <2>1, <2>5 DEF Tag
  <2>7. store'[d].jumpTo = <<store'[w].cont>> BY <2>1, <2>3, <2>4
  <2> HIDE DEF w
  <2> QED BY <1>2, <2>1, <2>2, <2>6, <2>7 DEF ContinueOk, Tag
<1>8. ASSUME Tag(d) \in {"case", "default"} PROVE Within(d, {"switch"})' \in DOMAIN source'
  BY <1>3, <1>8, WithinKept, <1>2 DEF SettledOk
<1> QED BY <1>1, <1>4, <1>6, <1>7, <1>8 DEF SettledOk

(* A step that only adds items, none of them a case, and stays in the      *)
(* function that is open.                                                  *)
LEMMA OldSettled ==
    ASSUME Good, Grows, \A d \in DOMAIN source : store'[d] = store[d],
           \A e \in DOMAIN source' \ DOMAIN source : source'[e].what \notin {"case", "default"},
           path = <<>> \/ (path' # <<>> /\ path'[1] = path[1])
    PROVE  \A d \in DOMAIN source : PlacedOk(d)' /\ SettledOk(d)'
BY SwitchKept, GotoKept, ItemKept DEF Kept, Grows, FunctionEnded, GotoOk

Labelled == {"loop", "switch", "case", "default", "label"}

LEMMA LabelsByTag ==
    ASSUME NEW tag, NEW note
    PROVE  /\ tag = "loop" => LabelsOf(tag, note) = {note.entry, note.cont, note.exit}
           /\ tag = "switch" => LabelsOf(tag, note) = {note.exit}
           /\ tag \in {"case", "default", "label"} => LabelsOf(tag, note) = {note.label}
           /\ tag \notin Labelled => LabelsOf(tag, note) = {}
BY DEF LabelsOf, Labelled

LEMMA SameLabels ==
    ASSUME NEW tag, NEW m, NEW n,
           tag \in LoopLike => m.exit = n.exit,
           tag = "loop" => m.cont = n.cont /\ m.entry = n.entry,
           tag \in {"case", "default", "label"} => m.label = n.label
    PROVE  LabelsOf(tag, m) = LabelsOf(tag, n)
BY DEF LabelsOf, LoopLike, Labelled

LEMMA LabelsKept ==
    ASSUME Good, Grows, \A c \in DOMAIN source : Kept(c),
           jumps'.nextLabel \in Nat, jumps.nextLabel <= jumps'.nextLabel,
           \A e \in DOMAIN source' \ DOMAIN source :
               /\ LabelsAt(e)' \subseteq jumps.nextLabel + 1 .. jumps'.nextLabel
               /\ \A d \in DOMAIN source' \ DOMAIN source :
                      d # e => LabelsAt(d)' \cap LabelsAt(e)' = {}
    PROVE  LabelsOk'
<1>1. ASSUME NEW d \in DOMAIN source
      PROVE  LabelsAt(d)' = LabelsAt(d) /\ LabelsAt(d) \subseteq 1 .. jumps.nextLabel
  <2>1. source'[d].what = source[d].what BY DEF Grows
  <2>2. Kept(d) OBVIOUS
  <2> DEFINE tag == source[d].what
  <2>3. /\ tag \in LoopLike => store'[d].exit = store[d].exit
        /\ tag = "loop" => store'[d].cont = store[d].cont /\ store'[d].entry = store[d].entry
        /\ tag \in {"case", "default", "label"} => store'[d].label = store[d].label
    BY <2>2 DEF Kept, Tag
  <2> HIDE DEF tag
  <2>4. LabelsOf(tag, store'[d]) = LabelsOf(tag, store[d]) BY <2>3, SameLabels
  <2>8. LabelsOf(source'[d].what, store'[d]) = LabelsOf(source[d].what, store[d])
    BY <2>1, <2>4 DEF tag
  <2> QED BY <2>1, <2>8 DEF Good, LabelsOk, LabelsAt, Tag
<1>2. jumps.nextLabel \in Nat BY DEF Good, TypesOk
<1>3. ASSUME NEW d \in DOMAIN source' PROVE LabelsAt(d)' \subseteq 1 .. jumps'.nextLabel
  BY <1>1, <1>2
<1>4. ASSUME NEW d \in DOMAIN source, NEW e \in DOMAIN source' \ DOMAIN source
      PROVE  LabelsAt(d)' \cap LabelsAt(e)' = {} BY <1>1, <1>2
<1>5. ASSUME NEW d \in DOMAIN source', NEW e \in DOMAIN source', d # e
      PROVE  LabelsAt(d)' \cap LabelsAt(e)' = {} BY <1>5, <1>1, <1>4 DEF Good, LabelsOk
<1> QED BY <1>3, <1>5 DEF LabelsOk

(* The open loops and switches, and their stacks, are the same.            *)
LEMMA StacksKept ==
    ASSUME Good, Grows, \A c \in DOMAIN source : Kept(c),
           OpenIn(LoopLike)' = OpenIn(LoopLike), OpenIn({"switch"})' = OpenIn({"switch"}),
           jumps'.loopStack = jumps.loopStack, jumps'.switchStack = jumps.switchStack
    PROVE  LoopsOpen' /\ SwitchesOpen'
<1>1. SwitchesOpen' BY DEF Good, SwitchesOpen
<1>2. PICK f : LoopsAt(f) BY DEF Good, LoopsOpen
<1>3. f \in Seq(Nat) /\ ToSet(f) = OpenIn(LoopLike) BY <1>2 DEF LoopsAt
<1>4. DOMAIN f = 1 .. Len(f) /\ Len(f) \in Nat BY <1>3
<1>5. ASSUME NEW i \in DOMAIN f
      PROVE  /\ f[i] \in DOMAIN source /\ Tag(f[i]) \in LoopLike
             /\ source'[f[i]].what = source[f[i]].what
             /\ store'[f[i]].exit = store[f[i]].exit
             /\ Tag(f[i]) = "loop" => store'[f[i]].cont = store[f[i]].cont
  BY <1>3 DEF ToSet, OpenIn, Good, PathOk, Grows, Kept
<1>6. ASSUME NEW k \in DOMAIN f PROVE LoopEntry(f, k)'
  <2>1. LoopEntry(f, k) BY <1>2 DEF LoopsAt
  <2>2. \A i \in 1 .. k : i \in DOMAIN f BY <1>4
  <2>3. \A i \in 1 .. k : source'[f[i]].what = source[f[i]].what BY <1>5, <2>2
  <2>4. jumps'.loopStack[k].exit = store'[f[k]].exit BY <1>5, <2>1 DEF LoopEntry
  <2>5. CASE jumps.loopStack[k].cont = None /\ \A i \in 1 .. k : Tag(f[i]) # "loop"
    BY <2>3, <2>4, <2>5 DEF LoopEntry, Tag
  <2>6. ASSUME NEW m \in 1 .. k, Tag(f[m]) = "loop",
               jumps.loopStack[k].cont = <<store[f[m]].cont>>,
               \A i \in 1 .. k : Tag(f[i]) = "loop" => i <= m
        PROVE  LoopEntry(f, k)' BY <1>5, <2>2, <2>6, <2>3, <2>4 DEF Tag, LoopEntry
  <2> QED BY <2>1, <2>5, <2>6 DEF LoopEntry
<1>7. LoopsAt(f)' BY <1>2, <1>6 DEF LoopsAt
<1> QED BY <1>1, <1>7 DEF LoopsOpen

(* No new label or goto, in the same function.                             *)
LEMMA GotosKept ==
    ASSUME Good, Grows, \A c \in DOMAIN source : Kept(c),
           \A e \in DOMAIN source' \ DOMAIN source : source'[e].what \notin {"goto", "label"},
           path # <<>> => path'[1] = path[1], path = <<>> => path' = <<>>,
           jumps'.pendingGotos = jumps.pendingGotos, jumps'.namedLabels = jumps.namedLabels
    PROVE  GotosWait'
<1> SUFFICES ASSUME path' # <<>>
             PROVE  /\ jumps'.pendingGotos
                          = {g \in DOMAIN source' : Tag(g)' = "goto" /\ InOpenFunction(g)'}
                    /\ jumps'.namedLabels =
                          {<<source'[l].name, store'[l].label>> :
                              l \in {e \in DOMAIN source' : Tag(e)' = "label" /\ InOpenFunction(e)'}}
  BY DEF GotosWait
<1>1. path # <<>> /\ path'[1] = path[1] OBVIOUS
<1>2. DOMAIN source \subseteq DOMAIN source' BY Domains
<1>3. ASSUME NEW tag \in {"goto", "label"}
      PROVE  {e \in DOMAIN source' : Tag(e)' = tag /\ InOpenFunction(e)'}
               = {e \in DOMAIN source : Tag(e) = tag /\ InOpenFunction(e)}
  BY <1>1, <1>2 DEF Grows, Tag, InOpenFunction
<1> DEFINE L == {e \in DOMAIN source : Tag(e) = "label" /\ InOpenFunction(e)}
<1>4. {<<source'[l].name, store'[l].label>> : l \in L} = {<<source[l].name, store[l].label>> : l \in L}
  <2>1. \A l \in L : source'[l] = source[l] /\ store'[l].label = store[l].label BY DEF Grows, Kept
  <2> HIDE DEF L
  <2> QED BY <2>1
<1>5. {e \in DOMAIN source' : Tag(e)' = "label" /\ InOpenFunction(e)'} = L BY <1>3
<1>6. {e \in DOMAIN source' : Tag(e)' = "goto" /\ InOpenFunction(e)'}
        = {e \in DOMAIN source : Tag(e) = "goto" /\ InOpenFunction(e)}
  BY <1>3
<1>7. /\ jumps.pendingGotos = {e \in DOMAIN source : Tag(e) = "goto" /\ InOpenFunction(e)}
      /\ jumps.namedLabels = {<<source[l].name, store[l].label>> : l \in L}
  BY <1>1 DEF Good, GotosWait
<1> QED BY <1>4, <1>5, <1>6, <1>7

(* Of an item where the path is, the innermost switch is on top of the     *)
(* stack.                                                                  *)
LEMMA TopSwitch ==
    ASSUME Good
    PROVE  /\ jumps.switchStack = <<>> => OpenIn({"switch"}) = {}
           /\ jumps.switchStack # <<>> =>
                  /\ Last(jumps.switchStack) \in DOMAIN source /\ Last(jumps.switchStack) \in Nat
                  /\ Tag(Last(jumps.switchStack)) = "switch"
                  /\ Max({0} \cup OpenIn({"switch"})) = Last(jumps.switchStack)
<1> DEFINE s == jumps.switchStack
<1>1. s \in Seq(Nat) /\ Rising(s) /\ ToSet(s) = OpenIn({"switch"})
  BY DEF Good, TypesOk, SwitchesOpen
<1>2. s = <<>> => ToSet(s) = {} BY <1>1 DEF ToSet
<1>3. ASSUME s # <<>>
      PROVE  /\ Last(s) \in DOMAIN source /\ Last(s) \in Nat /\ Tag(Last(s)) = "switch"
             /\ Max({0} \cup OpenIn({"switch"})) = Last(s)
  <2>1. Last(s) \in ToSet(s) /\ \A x \in ToSet(s) : x <= Last(s)
    <3> HIDE DEF s
    <3> QED BY <1>1, <1>3, Popped
  <2>2. ToSet(s) \subseteq Nat BY <1>1 DEF ToSet
  <2>3. Last(s) \in OpenIn({"switch"}) BY <1>1, <2>1
  <2>4. Last(s) \in DOMAIN source /\ Tag(Last(s)) = "switch" BY <2>3 DEF OpenIn, Good, PathOk
  <2> DEFINE S == {0} \cup OpenIn({"switch"})
  <2>5. S \subseteq Nat /\ Last(s) \in S /\ \A x \in S : x <= Last(s)
    BY <1>1, <2>1, <2>2
  <2> HIDE DEF s, S
  <2>6. Max(S) = Last(s) BY <2>5, MaxIs
  <2> QED BY <2>1, <2>2, <2>4, <2>6 DEF S
<1> QED BY <1>1, <1>2, <1>3

-----------------------------------------------------------------------------
(* Opening and closing constructs.                                         *)

LEMMA PathPushed ==
    ASSUME Good, Grows, path # <<>>, NEW h \in DOMAIN source' \ DOMAIN source,
           source'[h].what # "definition", path' = Append(path, h)
    PROVE  /\ PathOk' /\ path' # <<>> /\ path'[1] = path[1]
           /\ \A what : source'[h].what \in what => OpenIn(what)' = OpenIn(what) \cup {h}
           /\ \A what : source'[h].what \notin what => OpenIn(what)' = OpenIn(what)
<1>1. path \in Seq(Nat) /\ Rising(path) /\ ToSet(path) \subseteq DOMAIN source
  BY DEF Good, PathOk
<1>2. /\ Len(source) \in Nat /\ DOMAIN source = 1 .. Len(source)
      /\ Len(source') \in Nat /\ DOMAIN source' = 1 .. Len(source')
      /\ DOMAIN source \subseteq DOMAIN source'
  BY Domains
<1>3. h \in Nat /\ \A x \in DOMAIN source : x < h BY <1>2
<1>4. \A x \in ToSet(path) : x < h BY <1>1, <1>3
<1>5. /\ path' \in Seq(Nat) /\ Rising(path') /\ ToSet(path') = ToSet(path) \cup {h}
      /\ Len(path) \in Nat /\ DOMAIN path = 1 .. Len(path)
      /\ DOMAIN path' = 1 .. Len(path) + 1
      /\ \A i \in 1 .. Len(path) : path'[i] = path[i]
      /\ path'[Len(path) + 1] = h
  BY <1>1, <1>3, <1>4, Pushed
<1>6. Len(path) >= 1 BY <1>1
<1>7. \A c \in ToSet(path) : source'[c].what = source[c].what BY <1>1 DEF Grows
<1>8. ASSUME NEW k \in DOMAIN path' PROVE source'[path'[k]].what = "definition" <=> k = 1
  BY <1>5, <1>6, <1>7 DEF ToSet, Good, PathOk, Tag
<1>9. PathOk' BY <1>1, <1>2, <1>5, <1>8 DEF PathOk, Tag
<1>10. path' # <<>> /\ path'[1] = path[1] BY <1>5, <1>6
<1>11. ASSUME NEW what
       PROVE  /\ source'[h].what \in what => OpenIn(what)' = OpenIn(what) \cup {h}
              /\ source'[h].what \notin what => OpenIn(what)' = OpenIn(what)
  BY <1>5, <1>7 DEF OpenIn, Tag
<1> QED BY <1>9, <1>10, <1>11

LEMMA PathPopped ==
    ASSUME Good, path # <<>>, Tag(Last(path)) # "definition",
           source' = source, path' = Front(path)
    PROVE  /\ PathOk' /\ path' # <<>> /\ path'[1] = path[1]
           /\ \A what : OpenIn(what)' = OpenIn(what) \ {Last(path)}
           /\ Last(path) \in ToSet(path) /\ \A x \in ToSet(path) : x \in Nat /\ x <= Last(path)
<1>1. path \in Seq(Nat) /\ Rising(path) /\ ToSet(path) \subseteq DOMAIN source
  BY DEF Good, PathOk
<1>2. /\ path' \in Seq(Nat) /\ Rising(path')
      /\ Len(path) \in Nat /\ Len(path) >= 1 /\ DOMAIN path = 1 .. Len(path)
      /\ Len(path') = Len(path) - 1 /\ DOMAIN path' = 1 .. Len(path) - 1
      /\ \A i \in 1 .. Len(path) - 1 : path'[i] = path[i]
      /\ ToSet(path') = ToSet(path) \ {Last(path)}
      /\ Last(path) \in ToSet(path) /\ \A x \in ToSet(path) : x <= Last(path)
  BY <1>1, Popped
<1>3. \A k \in DOMAIN path : Tag(path[k]) = "definition" <=> k = 1 BY DEF Good, PathOk
<1>4. Len(path) # 1 BY <1>2, <1>3 DEF Last
<1>5. path' # <<>> /\ path'[1] = path[1] BY <1>2, <1>4
<1>6. \A k \in DOMAIN path' : k \in DOMAIN path /\ path'[k] = path[k] BY <1>2
<1>7. PathOk' BY <1>1, <1>2, <1>3, <1>6 DEF PathOk, Tag
<1>8. \A what : OpenIn(what)' = OpenIn(what) \ {Last(path)} BY <1>2 DEF OpenIn, Tag
<1>9. ToSet(path) \subseteq Nat BY <1>1 DEF ToSet
<1> QED BY <1>2, <1>5, <1>7, <1>8, <1>9

(* The innermost loop or switch is on top of the stack, with the innermost *)
(* loop if there is one.                                                   *)
LEMMA TopLoop ==
    ASSUME Good, jumps.loopStack # <<>>
    PROVE  LET top == Last(jumps.loopStack)
               w == Max({0} \cup OpenIn(LoopLike))
               l == Max({0} \cup OpenIn({"loop"}))
           IN  /\ top \in LoopFrames
               /\ w \in DOMAIN source /\ Tag(w) \in LoopLike /\ top.exit = store[w].exit
               /\ top.cont # None =>
                      l \in DOMAIN source /\ Tag(l) = "loop" /\ top.cont = <<store[l].cont>>
<1> DEFINE stack == jumps.loopStack
           top == Last(stack)
           n == Len(stack)
<1>1. PICK f : LoopsAt(f) BY DEF Good, LoopsOpen
<1>2. /\ f \in Seq(Nat) /\ Rising(f) /\ ToSet(f) = OpenIn(LoopLike)
      /\ Len(f) = n /\ \A k \in DOMAIN f : LoopEntry(f, k)
  BY <1>1 DEF LoopsAt
<1>3. stack \in Seq(LoopFrames) BY DEF Good, TypesOk
<1>4. n \in Nat /\ n >= 1 /\ DOMAIN stack = 1 .. n /\ top = stack[n] /\ top \in LoopFrames
  BY <1>3 DEF Last
<1>5. /\ f # <<>> /\ DOMAIN f = 1 .. n /\ Last(f) = f[n]
      /\ Last(f) \in ToSet(f) /\ \A x \in ToSet(f) : x <= Last(f)
  BY <1>2, <1>4, Popped DEF Last
<1>6. \A x \in ToSet(f) : x \in Nat /\ x \in DOMAIN source /\ Tag(x) \in LoopLike
  BY <1>2 DEF ToSet, OpenIn, Good, PathOk
<1>7. n \in DOMAIN f /\ LoopEntry(f, n) BY <1>2, <1>4, <1>5
<1>8. Max({0} \cup OpenIn(LoopLike)) = f[n]
  <2> DEFINE S == {0} \cup OpenIn(LoopLike)
  <2>1. S \subseteq Nat /\ f[n] \in S /\ \A x \in S : x <= f[n] BY <1>2, <1>5, <1>6
  <2> HIDE DEF S
  <2> QED BY <2>1, MaxIs DEF S
<1>9. top.exit = store[f[n]].exit BY <1>4, <1>7 DEF LoopEntry
<1>10. ASSUME top.cont # None
       PROVE  LET l == Max({0} \cup OpenIn({"loop"}))
              IN  l \in DOMAIN source /\ Tag(l) = "loop" /\ top.cont = <<store[l].cont>>
  <2>1. PICK m \in 1 .. n : /\ Tag(f[m]) = "loop" /\ stack[n].cont = <<store[f[m]].cont>>
                            /\ \A i \in 1 .. n : Tag(f[i]) = "loop" => i <= m
    BY <1>4, <1>7, <1>10 DEF LoopEntry
  <2> DEFINE S == {0} \cup OpenIn({"loop"})
  <2>2. f[m] \in ToSet(f) BY <1>5 DEF ToSet
  <2>3. f[m] \in S BY <1>2, <2>1, <2>2 DEF OpenIn
  <2>4. ASSUME NEW x \in S PROVE x \in Nat /\ x <= f[m]
    <3>1. CASE x = 0 BY <1>6, <2>2, <3>1
    <3>2. CASE x # 0
      <4>1. x \in OpenIn({"loop"}) BY <3>2
      <4>2. x \in ToSet(f) /\ Tag(x) = "loop" BY <1>2, <4>1 DEF OpenIn, LoopLike
      <4>3. PICK i \in 1 .. n : x = f[i] BY <1>5, <4>2 DEF ToSet
      <4>4. i <= m BY <2>1, <4>2, <4>3
      <4>5. CASE i = m BY <1>6, <2>2, <4>3, <4>5
      <4>6. CASE i # m
        <5>1. i \in DOMAIN f /\ m \in DOMAIN f /\ i < m BY <1>4, <1>5, <4>4, <4>6
        <5>2. f[i] < f[m] BY <1>2, <5>1 DEF Rising
        <5> QED BY <1>6, <2>2, <4>2, <4>3, <5>2
      <4> QED BY <4>5, <4>6
    <3> QED BY <3>1, <3>2
  <2>5. Max(S) = f[m]
    <3> HIDE DEF S
    <3> QED BY <2>3, <2>4, MaxIs
  <2> HIDE DEF S
  <2>6. f[m] \in DOMAIN source /\ Tag(f[m]) = "loop" /\ top.cont = <<store[f[m]].cont>>
    BY <1>4, <1>6, <2>1, <2>2
  <2> QED BY <2>5, <2>6 DEF S
<1>11. f[n] \in DOMAIN source /\ Tag(f[n]) \in LoopLike BY <1>5, <1>6
<1> QED BY <1>4, <1>8, <1>9, <1>10, <1>11

(* A frame on top of the stack of loops for what has just been opened.     *)
LEMMA LoopPushed ==
    ASSUME Good, Grows, \A c \in DOMAIN source : Kept(c), path # <<>>,
           NEW h \in DOMAIN source' \ DOMAIN source, path' = Append(path, h),
           source'[h].what \in LoopLike, NEW frame \in LoopFrames,
           jumps'.loopStack = Append(jumps.loopStack, frame), frame.exit = store'[h].exit,
           \/ source'[h].what = "loop" /\ frame.cont = <<store'[h].cont>>
           \/ /\ source'[h].what = "switch"
              /\ frame.cont = IF jumps.loopStack = <<>> THEN None ELSE Last(jumps.loopStack).cont
    PROVE  LoopsOpen'
<1> DEFINE stack == jumps.loopStack
           n == Len(stack)
<1>1. PICK f : LoopsAt(f) BY DEF Good, LoopsOpen
<1> DEFINE g == Append(f, h)
<1>2. /\ f \in Seq(Nat) /\ Rising(f) /\ ToSet(f) = OpenIn(LoopLike)
      /\ Len(f) = n /\ \A k \in DOMAIN f : LoopEntry(f, k)
  BY <1>1 DEF LoopsAt
<1>3. stack \in Seq(LoopFrames) /\ n \in Nat BY DEF Good, TypesOk
<1>4. /\ Len(source) \in Nat /\ DOMAIN source = 1 .. Len(source)
      /\ Len(source') \in Nat /\ DOMAIN source' = 1 .. Len(source')
  BY Domains
<1>5. h \in Nat /\ \A x \in DOMAIN source : x < h BY <1>4
<1>6. \A x \in ToSet(f) : x \in DOMAIN source /\ Tag(x) \in LoopLike
  BY <1>2 DEF OpenIn, Good, PathOk
<1>7. /\ g \in Seq(Nat) /\ Rising(g) /\ ToSet(g) = ToSet(f) \cup {h}
      /\ DOMAIN f = 1 .. n /\ Len(g) = n + 1 /\ DOMAIN g = 1 .. n + 1
      /\ \A i \in 1 .. n : g[i] = f[i]
      /\ g[n + 1] = h BY <1>5, <1>6, <1>2, Pushed
<1> HIDE DEF g
<1>8. source'[h].what # "definition" BY DEF LoopLike
<1>9. ToSet(g) = OpenIn(LoopLike)' BY <1>2, <1>7, <1>8, PathPushed
<1>10. /\ Len(jumps'.loopStack) = n + 1
       /\ \A k \in 1 .. n : jumps'.loopStack[k] = stack[k]
       /\ jumps'.loopStack[n + 1] = frame
  BY <1>3
<1>11. ASSUME NEW i \in 1 .. n
       PROVE  /\ source'[g[i]].what = source[f[i]].what
              /\ store'[g[i]].exit = store[f[i]].exit
              /\ Tag(f[i]) = "loop" => store'[g[i]].cont = store[f[i]].cont
  BY <1>7, <1>6 DEF ToSet, Grows, Kept
<1>12. ASSUME NEW k \in 1 .. n, NEW cont,
              \/ cont = None /\ \A i \in 1 .. k : Tag(f[i]) # "loop"
              \/ \E m \in 1 .. k : /\ Tag(f[m]) = "loop" /\ cont = <<store[f[m]].cont>>
                                   /\ \A i \in 1 .. k : Tag(f[i]) = "loop" => i <= m
       PROVE  \/ cont = None /\ \A i \in 1 .. k : source'[g[i]].what # "loop"
              \/ \E m \in 1 .. k : /\ source'[g[m]].what = "loop" /\ cont = <<store'[g[m]].cont>>
                                   /\ \A i \in 1 .. k : source'[g[i]].what = "loop" => i <= m
  <2>1. \A i \in 1 .. k : i \in 1 .. n BY <1>3
  <2>2. \A i \in 1 .. k : source'[g[i]].what = Tag(f[i]) BY <1>11, <2>1 DEF Tag
  <2>3. CASE cont = None /\ \A i \in 1 .. k : Tag(f[i]) # "loop" BY <2>2, <2>3
  <2>4. ASSUME NEW m \in 1 .. k, Tag(f[m]) = "loop", cont = <<store[f[m]].cont>>,
               \A i \in 1 .. k : Tag(f[i]) = "loop" => i <= m
        PROVE  \E p \in 1 .. k : /\ source'[g[p]].what = "loop" /\ cont = <<store'[g[p]].cont>>
                                 /\ \A i \in 1 .. k : source'[g[i]].what = "loop" => i <= p
    BY <1>11, <2>1, <2>4, <2>2
  <2> QED BY <1>12, <2>3, <2>4
<1>13. ASSUME NEW k \in DOMAIN g PROVE LoopEntry(g, k)'
  <2>1. CASE k # n + 1
    <3>1. k \in 1 .. n BY <1>3, <1>7, <2>1
    <3>2. LoopEntry(f, k) BY <1>2, <1>7, <3>1
    <3> DEFINE cont == stack[k].cont
    <3>3. \/ cont = None /\ \A i \in 1 .. k : Tag(f[i]) # "loop"
          \/ \E m \in 1 .. k : /\ Tag(f[m]) = "loop" /\ cont = <<store[f[m]].cont>>
                               /\ \A i \in 1 .. k : Tag(f[i]) = "loop" => i <= m
      BY <3>2 DEF LoopEntry
    <3>4. stack[k].exit = store[f[k]].exit BY <3>2 DEF LoopEntry
    <3> HIDE DEF cont
    <3>5. \/ cont = None /\ \A i \in 1 .. k : source'[g[i]].what # "loop"
          \/ \E m \in 1 .. k : /\ source'[g[m]].what = "loop" /\ cont = <<store'[g[m]].cont>>
                               /\ \A i \in 1 .. k : source'[g[i]].what = "loop" => i <= m
      BY <1>12, <3>1, <3>3
    <3>6. jumps'.loopStack[k].exit = store'[g[k]].exit /\ jumps'.loopStack[k].cont = cont
      BY <1>10, <1>11, <3>1, <3>4 DEF cont
    <3> QED BY <3>5, <3>6 DEF LoopEntry, Tag
  <2>2. CASE k = n + 1
    <3>1. jumps'.loopStack[k] = frame /\ g[k] = h /\ k \in Nat /\ k \in 1 .. k
      BY <1>3, <1>7, <1>10, <2>2
    <3>2. CASE source'[h].what = "loop" /\ frame.cont = <<store'[h].cont>>
      BY <3>1, <3>2 DEF LoopEntry, Tag
    <3>3. CASE source'[h].what = "switch"
               /\ frame.cont = IF stack = <<>> THEN None ELSE Last(stack).cont
      <4> DEFINE cont == frame.cont
      <4>1. CASE n = 0 BY <1>3, <4>1, <3>3, <2>2, <3>1 DEF LoopEntry, Tag
      <4>2. CASE n # 0
        <5>1. stack # <<>> /\ n \in 1 .. n /\ Last(stack) = stack[n] BY <1>3, <4>2 DEF Last
        <5>2. LoopEntry(f, n) BY <1>2, <1>7, <5>1
        <5>3. cont = stack[n].cont BY <3>3, <5>1
        <5>4. \/ cont = None /\ \A i \in 1 .. n : Tag(f[i]) # "loop"
              \/ \E m \in 1 .. n : /\ Tag(f[m]) = "loop" /\ cont = <<store[f[m]].cont>>
                                   /\ \A i \in 1 .. n : Tag(f[i]) = "loop" => i <= m
          BY <5>2, <5>3 DEF LoopEntry
        <5> HIDE DEF cont
        <5>5. \/ cont = None /\ \A i \in 1 .. n : source'[g[i]].what # "loop"
              \/ \E m \in 1 .. n : /\ source'[g[m]].what = "loop" /\ cont = <<store'[g[m]].cont>>
                                   /\ \A i \in 1 .. n : source'[g[i]].what = "loop" => i <= m
          BY <1>12, <5>1, <5>4
        <5>6. \A i \in 1 .. k : i \in 1 .. n \/ i = k BY <1>3, <2>2
        <5>7. \A i \in 1 .. n : i \in 1 .. k BY <1>3, <2>2
        <5>8. source'[g[k]].what # "loop" BY <3>1, <3>3
        <5>9. jumps'.loopStack[k].cont = cont BY <3>1 DEF cont
        <5>10. jumps'.loopStack[k].exit = store'[g[k]].exit BY <3>1
        <5>11. CASE cont = None /\ \A i \in 1 .. n : source'[g[i]].what # "loop"
          BY <5>6, <5>8, <5>9, <5>10, <5>11 DEF LoopEntry, Tag
        <5>12. ASSUME NEW m \in 1 .. n, source'[g[m]].what = "loop", cont = <<store'[g[m]].cont>>,
                      \A i \in 1 .. n : source'[g[i]].what = "loop" => i <= m
               PROVE  LoopEntry(g, k)'
          BY <5>7, <5>6, <5>8, <5>12, <5>9, <5>10 DEF LoopEntry, Tag
        <5> QED BY <5>5, <5>11, <5>12
      <4> QED BY <4>1, <4>2
    <3> QED BY <3>2, <3>3
  <2> QED BY <2>1, <2>2
<1>14. LoopsAt(g)' BY <1>7, <1>9, <1>10, <1>13 DEF LoopsAt
<1> QED BY <1>14 DEF LoopsOpen

LEMMA FrontOf ==
    ASSUME NEW S, NEW s \in Seq(S), s # <<>>
    PROVE  /\ Front(s) \in Seq(S) /\ Len(s) \in Nat /\ Len(s) >= 1
           /\ Len(Front(s)) = Len(s) - 1
           /\ \A i \in 1 .. Len(s) - 1 : Front(s)[i] = s[i]
<1> DEFINE t == Front(s)
<1>1. Len(s) \in Nat /\ Len(s) >= 1 /\ DOMAIN s = 1 .. Len(s) OBVIOUS
<1>2. t = [i \in 1 .. Len(s) - 1 |-> s[i]] BY <1>1 DEF Front
<1>3. t \in [1 .. Len(s) - 1 -> S] BY <1>1, <1>2
<1>4. Len(s) - 1 \in Nat BY <1>1
<1> HIDE DEF t
<1>5. t \in Seq(S) /\ Len(t) = Len(s) - 1 /\ \A i \in 1 .. Len(s) - 1 : t[i] = s[i]
  BY <1>2, <1>3, <1>4
<1> QED BY <1>1, <1>5 DEF t

(* The frame of what ends is taken from the stack of loops.                *)
LEMMA LoopPopped ==
    ASSUME Good, path # <<>>, Tag(Last(path)) \in LoopLike, source' = source, store' = store,
           path' = Front(path), jumps'.loopStack = Front(jumps.loopStack)
    PROVE  LoopsOpen' /\ Front(jumps.loopStack) \in Seq(LoopFrames)
<1> DEFINE stack == jumps.loopStack
           n == Len(stack)
<1>1. PICK f : LoopsAt(f) BY DEF Good, LoopsOpen
<1> DEFINE g == Front(f)
<1>2. /\ f \in Seq(Nat) /\ Rising(f) /\ ToSet(f) = OpenIn(LoopLike)
      /\ Len(f) = n /\ \A k \in DOMAIN f : LoopEntry(f, k)
  BY <1>1 DEF LoopsAt
<1>3. stack \in Seq(LoopFrames) BY DEF Good, TypesOk
<1>4. Tag(Last(path)) # "definition" BY DEF LoopLike
<1>5. /\ OpenIn(LoopLike)' = OpenIn(LoopLike) \ {Last(path)}
      /\ Last(path) \in ToSet(path) /\ \A x \in ToSet(path) : x \in Nat /\ x <= Last(path)
  BY <1>4, PathPopped
<1>6. Last(path) \in ToSet(f) BY <1>2, <1>5 DEF OpenIn
<1>7. f # <<>> BY <1>6 DEF ToSet
<1>8. /\ g \in Seq(Nat) /\ Rising(g)
      /\ n \in Nat /\ n >= 1 /\ DOMAIN f = 1 .. n
      /\ Len(g) = n - 1 /\ DOMAIN g = 1 .. n - 1
      /\ \A i \in 1 .. n - 1 : g[i] = f[i]
      /\ ToSet(g) = ToSet(f) \ {Last(f)}
      /\ Last(f) \in ToSet(f) /\ \A x \in ToSet(f) : x <= Last(f)
  BY <1>2, <1>7, Popped
<1> HIDE DEF g
<1>9. Last(f) = Last(path) BY <1>2, <1>8, <1>5, <1>6 DEF OpenIn
<1>10. ToSet(g) = OpenIn(LoopLike)' BY <1>2, <1>5, <1>8, <1>9
<1>11. /\ Front(stack) \in Seq(LoopFrames) /\ Len(Front(stack)) = n - 1
       /\ \A i \in 1 .. n - 1 : Front(stack)[i] = stack[i]
  <2>1. stack # <<>> BY <1>8
  <2> HIDE DEF stack
  <2> QED BY <1>3, <2>1, FrontOf
<1>12. ASSUME NEW k \in DOMAIN g PROVE LoopEntry(g, k)'
  <2>1. k \in 1 .. n - 1 BY <1>8
  <2>2. \A i \in 1 .. k : i \in 1 .. n - 1 BY <1>8, <2>1
  <2>3. LoopEntry(f, k) /\ k \in Nat BY <1>2, <1>8, <2>1
  <2>4. \A i \in 1 .. k : g[i] = f[i] BY <1>8, <2>2
  <2>5. g[k] = f[k] BY <1>8, <2>1
  <2>6. jumps'.loopStack[k] = stack[k] BY <1>11, <2>1
  <2> QED BY <2>3, <2>4, <2>5, <2>6 DEF LoopEntry, Tag
<1>13. LoopsAt(g)' BY <1>8, <1>10, <1>11, <1>12 DEF LoopsAt
<1> QED BY <1>11, <1>13 DEF LoopsOpen

LEMMA SwitchPushed ==
    ASSUME Good, Grows, NEW h \in DOMAIN source' \ DOMAIN source,
           OpenIn({"switch"})' = OpenIn({"switch"}) \cup {h},
           jumps'.switchStack = Append(jumps.switchStack, h)
    PROVE  SwitchesOpen' /\ jumps'.switchStack \in Seq(Nat)
<1> DEFINE s == jumps.switchStack
<1>1. s \in Seq(Nat) /\ Rising(s) /\ ToSet(s) = OpenIn({"switch"})
  BY DEF Good, TypesOk, SwitchesOpen
<1>2. /\ Len(source) \in Nat /\ DOMAIN source = 1 .. Len(source)
      /\ Len(source') \in Nat /\ DOMAIN source' = 1 .. Len(source')
  BY Domains
<1>3. h \in Nat /\ \A x \in DOMAIN source : x < h BY <1>2
<1>4. \A x \in ToSet(s) : x < h BY <1>1, <1>3 DEF OpenIn, Good, PathOk
<1> HIDE DEF s
<1>5. Append(s, h) \in Seq(Nat) /\ Rising(Append(s, h)) /\ ToSet(Append(s, h)) = ToSet(s) \cup {h}
  BY <1>1, <1>3, <1>4, Pushed
<1> QED BY <1>1, <1>5 DEF SwitchesOpen, s

LEMMA SwitchPopped ==
    ASSUME Good, path # <<>>, Tag(Last(path)) = "switch", source' = source, path' = Front(path),
           jumps'.switchStack = Front(jumps.switchStack)
    PROVE  SwitchesOpen' /\ Front(jumps.switchStack) \in Seq(Nat)
<1> DEFINE s == jumps.switchStack
<1>1. s \in Seq(Nat) /\ Rising(s) /\ ToSet(s) = OpenIn({"switch"})
  BY DEF Good, TypesOk, SwitchesOpen
<1>2. Tag(Last(path)) # "definition" OBVIOUS
<1>3. /\ OpenIn({"switch"})' = OpenIn({"switch"}) \ {Last(path)}
      /\ Last(path) \in ToSet(path) /\ \A x \in ToSet(path) : x \in Nat /\ x <= Last(path)
  BY <1>2, PathPopped
<1>4. Last(path) \in ToSet(s) BY <1>1, <1>3 DEF OpenIn
<1> HIDE DEF s
<1>5. s # <<>> BY <1>4 DEF ToSet
<1>6. /\ Front(s) \in Seq(Nat) /\ Rising(Front(s)) /\ ToSet(Front(s)) = ToSet(s) \ {Last(s)}
      /\ Last(s) \in ToSet(s) /\ \A x \in ToSet(s) : x <= Last(s)
  BY <1>1, <1>5, Popped
<1>7. Last(s) = Last(path) BY <1>1, <1>6, <1>3, <1>4 DEF OpenIn
<1> QED BY <1>1, <1>3, <1>6, <1>7 DEF SwitchesOpen, s

-----------------------------------------------------------------------------
(* Writing items.                                                          *)

Adds(items, notes) ==
    /\ Sequence(items) /\ Sequence(notes) /\ Len(items) = Len(notes)
    /\ source' = source \o items /\ store' = store \o notes

LEMMA Added ==
    ASSUME Good, NEW items, NEW notes, Adds(items, notes)
    PROVE  /\ Grows
           /\ Len(source) \in Nat /\ Len(items) \in Nat /\ Len(source') = Len(source) + Len(items)
           /\ \A d \in DOMAIN source : store'[d] = store[d] /\ Kept(d)
           /\ \A e \in DOMAIN source' \ DOMAIN source :
                  \E i \in 1 .. Len(items) : /\ e = Len(source) + i
                                             /\ source'[e] = items[i] /\ store'[e] = notes[i]
           /\ \A i \in 1 .. Len(items) : /\ Len(source) + i \in DOMAIN source' \ DOMAIN source
                                         /\ source'[Len(source) + i] = items[i]
                                         /\ store'[Len(source) + i] = notes[i]
<1>0. /\ Sequence(items) /\ Sequence(notes) /\ Len(items) = Len(notes)
      /\ source' = source \o items /\ store' = store \o notes
  BY DEF Adds
<1>1. Sequence(source) /\ Sequence(store) /\ Len(store) = Len(source) BY DEF Good, TypesOk
<1>2. /\ Sequence(source') /\ Len(source) \in Nat /\ Len(items) \in Nat
      /\ DOMAIN source = 1 .. Len(source)
      /\ Len(source') = Len(source) + Len(items)
      /\ DOMAIN source' = 1 .. Len(source) + Len(items)
      /\ \A i \in 1 .. Len(source) : source'[i] = source[i]
      /\ \A i \in 1 .. Len(items) : source'[Len(source) + i] = items[i]
  <2> DEFINE u == source \o items
  <2>1. /\ Sequence(u) /\ Len(source) \in Nat /\ Len(items) \in Nat
        /\ DOMAIN source = 1 .. Len(source)
        /\ Len(u) = Len(source) + Len(items)
        /\ DOMAIN u = 1 .. Len(source) + Len(items)
        /\ \A i \in 1 .. Len(source) : u[i] = source[i]
        /\ \A i \in 1 .. Len(items) : u[Len(source) + i] = items[i]
    BY ONLY <1>0, <1>1, Concatenation
  <2>2. source' = u BY <1>0
  <2> HIDE DEF u
  <2> QED BY <2>1, <2>2 DEF Sequence
<1>3. /\ Sequence(store') /\ Len(store') = Len(store) + Len(notes)
      /\ \A i \in 1 .. Len(store) : store'[i] = store[i]
      /\ \A i \in 1 .. Len(notes) : store'[Len(store) + i] = notes[i]
  <2> DEFINE u == store \o notes
  <2>1. /\ Sequence(u) /\ Len(u) = Len(store) + Len(notes)
        /\ \A i \in 1 .. Len(store) : u[i] = store[i]
        /\ \A i \in 1 .. Len(notes) : u[Len(store) + i] = notes[i]
    BY ONLY <1>0, <1>1, Concatenation
  <2>2. store' = u BY <1>0
  <2> HIDE DEF u
  <2> QED BY <2>1, <2>2 DEF Sequence
<1>4. Grows BY <1>0, <1>1, <1>2, <1>3 DEF Grows
<1>5. \A d \in DOMAIN source : store'[d] = store[d] BY <1>0, <1>1, <1>2, <1>3
<1>6. \A d \in DOMAIN source : Kept(d) BY <1>5 DEF Kept
<1>7. ASSUME NEW i \in 1 .. Len(items)
      PROVE  /\ Len(source) + i \in DOMAIN source' \ DOMAIN source
             /\ source'[Len(source) + i] = items[i]
             /\ store'[Len(source) + i] = notes[i]
  BY <1>0, <1>1, <1>2, <1>3
<1>8. ASSUME NEW e \in DOMAIN source' \ DOMAIN source
      PROVE  \E i \in 1 .. Len(items) : /\ e = Len(source) + i
                                        /\ source'[e] = items[i] /\ store'[e] = notes[i]
  <2>1. PICK i \in 1 .. Len(items) : e = Len(source) + i
    <3>1. e - Len(source) \in 1 .. Len(items) /\ e = Len(source) + (e - Len(source)) BY <1>2
    <3> QED BY <3>1
  <2> QED BY <1>7, <2>1
<1> QED BY <1>2, <1>4, <1>5, <1>6, <1>7, <1>8

LEMMA AddedOne ==
    ASSUME Good, NEW item, NEW note, source' = source \o <<item>>, store' = store \o <<note>>
    PROVE  /\ Grows
           /\ \A d \in DOMAIN source : store'[d] = store[d] /\ Kept(d)
           /\ Here \in DOMAIN source' \ DOMAIN source
           /\ DOMAIN source' \ DOMAIN source = {Here}
           /\ source'[Here] = item /\ store'[Here] = note
<1> DEFINE items == <<item>>
           notes == <<note>>
<1>1. /\ Sequence(items) /\ Sequence(notes) /\ Len(items) = 1 /\ Len(notes) = 1
      /\ items[1] = item /\ notes[1] = note
  BY Single
<1>2. source' = source \o items /\ store' = store \o notes OBVIOUS
<1> HIDE DEF items, notes
<1>7. Adds(items, notes) BY <1>1, <1>2 DEF Adds
<1>3. /\ Grows
      /\ \A d \in DOMAIN source : store'[d] = store[d] /\ Kept(d)
      /\ \A e \in DOMAIN source' \ DOMAIN source :
             \E i \in 1 .. Len(items) : /\ e = Len(source) + i
                                        /\ source'[e] = items[i] /\ store'[e] = notes[i]
      /\ \A i \in 1 .. Len(items) : /\ Len(source) + i \in DOMAIN source' \ DOMAIN source
                                    /\ source'[Len(source) + i] = items[i]
                                    /\ store'[Len(source) + i] = notes[i]
  BY ONLY Good, <1>7, Added
<1>4. 1 \in 1 .. Len(items) BY <1>1
<1>5. /\ Here \in DOMAIN source' \ DOMAIN source
      /\ source'[Here] = item /\ store'[Here] = note
  BY <1>1, <1>3, <1>4 DEF Here
<1>6. ASSUME NEW e \in DOMAIN source' \ DOMAIN source PROVE e = Here BY <1>3, <1>1 DEF Here
<1> QED BY <1>3, <1>5, <1>6

LEMMA WrittenIs ==
    ASSUME NEW rec
    PROVE  /\ Written(rec).path = path
           /\ "what" \in DOMAIN rec => Written(rec).what = rec.what
           /\ "name" \in DOMAIN rec => Written(rec).name = rec.name
           /\ "value" \in DOMAIN rec => Written(rec).value = rec.value
BY DEF Written

PlainTags == {"object", "prototype", "definition", "parameter", "enumerator", "block"}

LEMMA PlacedFresh ==
    ASSUME Good, Grows, PathOk', NEW e \in DOMAIN source', source'[e].path \in {path, path'},
           source'[e].what \in {"goto", "label"} => source'[e].path # <<>>
    PROVE  PlacedOk(e)'
BY Domains DEF Good, PathOk, PlacedOk, Tag

LEMMA PlainSettled ==
    ASSUME NEW e, source'[e].what \in PlainTags
    PROVE  SettledOk(e)' /\ LabelsAt(e)' = {}
<1>1. source'[e].what \notin {"break", "continue", "case", "default", "switch", "goto"}
  BY DEF PlainTags
<1>2. SettledOk(e)' BY <1>1 DEF SettledOk, Tag
<1> DEFINE tag == source'[e].what
<1>3. tag \notin Labelled BY DEF PlainTags, Labelled
<1>4. LabelsOf(tag, store'[e]) = {}
  <2> HIDE DEF tag
  <2> QED BY <1>3, LabelsByTag
<1> QED BY <1>2, <1>4 DEF LabelsAt, Tag

(* A step that only adds declarations or opens a block.                    *)
LEMMA PlainStep ==
    ASSUME Good, Grows, \A d \in DOMAIN source : store'[d] = store[d] /\ Kept(d), menu' = menu,
           \A e \in DOMAIN source' \ DOMAIN source :
               source'[e].what \in PlainTags /\ source'[e].path \in {path, path'},
           PathOk', path = <<>> => path' = <<>>, path # <<>> => path' # <<>> /\ path'[1] = path[1],
           OpenIn(LoopLike)' = OpenIn(LoopLike), OpenIn({"switch"})' = OpenIn({"switch"}),
           jumps' = jumps
    PROVE  Good'
<1>1. \A e \in DOMAIN source' \ DOMAIN source :
          source'[e].what \notin {"case", "default", "goto", "label"}
  BY DEF PlainTags
<1>2. \A d \in DOMAIN source : PlacedOk(d)' /\ SettledOk(d)' BY <1>1, OldSettled
<1>3. ASSUME NEW e \in DOMAIN source' \ DOMAIN source
      PROVE  PlacedOk(e)' /\ SettledOk(e)' /\ LabelsAt(e)' = {}
  BY <1>1, PlacedFresh, PlainSettled
<1>4. TypesOk' BY DEF Good, TypesOk, Grows
<1>5. jumps.nextLabel \in Nat BY DEF Good, TypesOk
<1>6. LabelsOk' BY <1>5, <1>3, LabelsKept
<1>7. LoopsOpen' /\ SwitchesOpen' BY StacksKept
<1>8. GotosWait' BY <1>1, GotosKept
<1> QED BY <1>2, <1>3, <1>4, <1>6, <1>7, <1>8 DEF Good

LEMMA PathKept ==
    ASSUME Good, Grows, path' = path
    PROVE  PathOk' /\ \A what : OpenIn(what)' = OpenIn(what)
BY Domains DEF Good, Grows, PathOk, ToSet, Tag, OpenIn

LEMMA OneDeclaration ==
    ASSUME Good, NEW item, NEW note, "what" \in DOMAIN item, item.what \in PlainTags,
           Write(<<Written(item)>>, <<note>>), path' = path, jumps' = jumps
    PROVE  Good'
<1>1. source' = source \o <<Written(item)>> /\ store' = store \o <<note>> /\ menu' = menu
  BY DEF Write
<1>2. PICK it : it = Written(item) OBVIOUS
<1>3. /\ Grows
      /\ \A d \in DOMAIN source : store'[d] = store[d] /\ Kept(d)
      /\ DOMAIN source' \ DOMAIN source = {Here}
      /\ source'[Here] = it
  BY ONLY Good, <1>1, <1>2, AddedOne
<1>4. it.what = item.what /\ it.path = path BY <1>2, WrittenIs
<1>5. \A e \in DOMAIN source' \ DOMAIN source :
          source'[e].what \in PlainTags /\ source'[e].path \in {path, path'}
  BY <1>3, <1>4
<1>6. PathOk' /\ \A what : OpenIn(what)' = OpenIn(what) BY <1>3, PathKept
<1>7. OpenIn(LoopLike)' = OpenIn(LoopLike) /\ OpenIn({"switch"})' = OpenIn({"switch"}) BY <1>6
<1> QED BY <1>1, <1>3, <1>5, <1>6, <1>7, PlainStep

LEMMA OfferedDeclarations ==
    ASSUME Good
    PROVE  /\ \A item \in Offered.objects : item.what = "object" /\ "what" \in DOMAIN item
           /\ \A item \in Offered.prototypes \cup Offered.definitions :
                  item.what = "prototype" /\ DOMAIN item = {"what", "name", "storage", "inline", "type"}
           /\ Offered.parameters \subseteq Seq(Names)
           /\ Offered.names \subseteq Names
BY MenusAssumption DEF Good, TypesOk, Offered, Objects, Functions

LEMMA DeclarationGood ==
    ASSUME Good, NEW item \in Offered.objects, Declaration(item)
    PROVE  Good'
BY OfferedDeclarations, OneDeclaration DEF Declaration, PlainTags

LEMMA PrototypeGood ==
    ASSUME Good, NEW item \in Offered.prototypes, Prototype(item)
    PROVE  Good'
BY OfferedDeclarations, OneDeclaration DEF Prototype, PlainTags

LEMMA EnumSpecifierGood ==
    ASSUME Good, NEW name, EnumSpecifier(name)
    PROVE  Good'
<1> DEFINE item == [what |-> "enumerator", name |-> name]
<1>1. Write(<<Written(item)>>, <<NoNote>>) /\ path' = path /\ jumps' = jumps BY DEF EnumSpecifier
<1>2. "what" \in DOMAIN item /\ item.what \in PlainTags BY DEF PlainTags
<1> HIDE DEF item
<1> QED BY <1>1, <1>2, OneDeclaration

LEMMA BlockGood ==
    ASSUME Good, Block
    PROVE  Good'
<1> DEFINE item == [what |-> "block"]
<1>1. "what" \in DOMAIN item /\ item.what = "block" OBVIOUS
<1>2. Write(<<Written(item)>>, <<NoNote>>) /\ path # <<>> /\ path' = Append(path, Here) /\ jumps' = jumps
  BY DEF Block
<1> HIDE DEF item
<1>3. source' = source \o <<Written(item)>> /\ store' = store \o <<NoNote>> /\ menu' = menu
  BY <1>2 DEF Write
<1>4. PICK it : it = Written(item) OBVIOUS
<1>5. it.what = "block" /\ it.path = path BY <1>1, <1>4, WrittenIs
<1>6. PICK h : h = Here OBVIOUS
<1>7. /\ Grows
      /\ \A d \in DOMAIN source : store'[d] = store[d] /\ Kept(d)
      /\ h \in DOMAIN source' \ DOMAIN source
      /\ DOMAIN source' \ DOMAIN source = {h}
      /\ source'[h] = it
  BY ONLY Good, <1>3, <1>4, <1>6, AddedOne
<1>8. /\ PathOk' /\ path' # <<>> /\ path'[1] = path[1]
      /\ OpenIn(LoopLike)' = OpenIn(LoopLike) /\ OpenIn({"switch"})' = OpenIn({"switch"})
  BY <1>2, <1>6, <1>5, <1>7, PathPushed DEF LoopLike
<1>9. \A e \in DOMAIN source' \ DOMAIN source :
          source'[e].what \in PlainTags /\ source'[e].path \in {path, path'}
  BY <1>5, <1>7 DEF PlainTags
<1> QED BY <1>2, <1>3, <1>7, <1>8, <1>9, PlainStep

LEMMA HeadAndTail ==
    ASSUME NEW x, NEW t, Sequence(t)
    PROVE  /\ Sequence(<<x>> \o t) /\ Len(t) \in Nat /\ Len(<<x>> \o t) = 1 + Len(t)
           /\ (<<x>> \o t)[1] = x
           /\ \A i \in 1 .. Len(t) : (<<x>> \o t)[1 + i] = t[i]
<1>1. PICK head : head = <<x>> OBVIOUS
<1>2. Sequence(head) /\ Len(head) = 1 /\ head[1] = x BY <1>1, Single
<1>3. Sequence(head \o t) BY <1>2, Concatenation
<1>4. Len(t) \in Nat /\ Len(head \o t) = Len(head) + Len(t) BY <1>2, Concatenation
<1>5. ASSUME NEW i \in 1 .. Len(head) PROVE (head \o t)[i] = head[i] BY <1>2, Concatenation
<1>6. ASSUME NEW i \in 1 .. Len(t) PROVE (head \o t)[1 + i] = t[i]
  <2> DEFINE S == ToSet(head) \cup ToSet(t)
  <2>1. head \in Seq(S) /\ t \in Seq(S) BY <1>2 DEF Sequence
  <2> HIDE DEF S
  <2>2. i \in 1 .. Len(t) OBVIOUS
  <2>3. (head \o t)[Len(head) + i] = t[i] BY ONLY <2>1, <2>2
  <2> QED BY <1>2, <2>3
<1>7. 1 \in 1 .. Len(head) BY <1>2
<1> QED BY <1>1, <1>2, <1>3, <1>4, <1>5, <1>6, <1>7

LEMMA FunctionDefinitionGood ==
    ASSUME Good, NEW item \in Offered.definitions, NEW parameters \in Offered.parameters,
           FunctionDefinition(item, parameters), ~hasErrors'
    PROVE  Good'
<1>1. path = <<>> /\ path' = <<Here>>
  BY DEF FunctionDefinition
<1>2. jumps' = [jumps EXCEPT !.namedLabels = {}, !.pendingGotos = {}]
  BY DEF FunctionDefinition
<1> DEFINE def == [item EXCEPT !.what = "definition"]
           ParameterOf(n) == [what |-> "parameter", name |-> n, path |-> <<Here>>]
           P == [k \in DOMAIN parameters |-> ParameterOf(parameters[k])]
<1>3. PICK N : /\ N = [k \in DOMAIN parameters |-> N[k]]
               /\ Write(<<Written(def)>> \o P, <<NoNote>> \o N)
  BY DEF FunctionDefinition
<1>4. def.what = "definition" /\ "what" \in DOMAIN def BY OfferedDeclarations
<1>5. DOMAIN parameters = 1 .. Len(parameters) /\ Len(parameters) \in Nat
  BY OfferedDeclarations
<1> DEFINE n == Len(parameters)
<1>6. /\ Sequence(P) /\ Len(P) = n /\ Sequence(N) /\ Len(N) = n
      /\ \A k \in 1 .. n : P[k].what = "parameter" /\ P[k].path = path'
  <2>1. P = [k \in 1 .. n |-> P[k]] BY <1>5
  <2>2. N = [k \in 1 .. n |-> N[k]] BY <1>3, <1>5
  <2>3. \A k \in 1 .. n : P[k].what = "parameter" /\ P[k].path = path' BY <1>1, <1>5
  <2>4. n \in Nat BY <1>5
  <2> HIDE DEF P, n
  <2> QED BY <2>1, <2>2, <2>3, <2>4, Tabulated
<1> HIDE DEF def, P, n
<1>7. PICK it : it = Written(def) OBVIOUS
<1>8. it.what = "definition" /\ it.path = path BY <1>4, <1>7, WrittenIs
<1> DEFINE items == <<it>> \o P
           notes == <<NoNote>> \o N
<1>9. /\ Sequence(items) /\ Sequence(notes) /\ Len(items) = 1 + n /\ Len(notes) = 1 + n
      /\ n \in Nat
      /\ items[1] = it /\ \A i \in 1 .. n : items[1 + i] = P[i]
  BY <1>6, HeadAndTail
<1>10. source' = source \o items /\ store' = store \o notes /\ menu' = menu
  BY <1>3, <1>7 DEF Write
<1> HIDE DEF items, notes
<1>11. Adds(items, notes) BY <1>9, <1>10 DEF Adds
<1>12. /\ Grows
       /\ Len(source) \in Nat
       /\ \A d \in DOMAIN source : store'[d] = store[d] /\ Kept(d)
       /\ \A e \in DOMAIN source' \ DOMAIN source :
              \E i \in 1 .. Len(items) : e = Len(source) + i /\ source'[e] = items[i]
       /\ \A i \in 1 .. Len(items) : /\ Len(source) + i \in DOMAIN source' \ DOMAIN source
                                     /\ source'[Len(source) + i] = items[i]
  BY ONLY Good, <1>11, Added
<1>13. PICK h : h = Here OBVIOUS
<1>14. h \in DOMAIN source' \ DOMAIN source /\ h \in Nat /\ source'[h] = it
  BY <1>9, <1>13, <1>12 DEF Here
<1>15. \A e \in DOMAIN source' \ DOMAIN source :
           source'[e].what \in PlainTags /\ source'[e].path \in {path, path'}
  <2> SUFFICES ASSUME NEW e \in DOMAIN source' \ DOMAIN source
               PROVE  source'[e].what \in PlainTags /\ source'[e].path \in {path, path'}
    OBVIOUS
  <2>1. PICK i \in 1 .. Len(items) : source'[e] = items[i] BY <1>12
  <2>2. CASE i = 1 BY <1>8, <1>9, <2>1, <2>2 DEF PlainTags
  <2>3. CASE i # 1
    <3>1. PICK j \in 1 .. n : i = 1 + j BY <1>9, <2>3
    <3> QED BY <1>6, <1>9, <2>1, <3>1 DEF PlainTags
  <2> QED BY <2>2, <2>3
<1>16. path' = <<h>> BY <1>1, <1>13
<1>17. PathOk' /\ OpenIn(LoopLike)' = {} /\ OpenIn({"switch"})' = {}
  BY <1>14, <1>16, <1>8 DEF ToSet, Rising, PathOk, Tag, OpenIn, LoopLike
<1>18. OpenIn(LoopLike) = {} /\ OpenIn({"switch"}) = {} BY <1>1 DEF OpenIn, ToSet
<1>19. \A e \in DOMAIN source' \ DOMAIN source :
           source'[e].what \notin {"case", "default", "goto", "label"}
  BY <1>15 DEF PlainTags
<1>20. \A d \in DOMAIN source : PlacedOk(d)' /\ SettledOk(d)' BY <1>1, <1>12, <1>19, OldSettled
<1>21. ASSUME NEW e \in DOMAIN source' \ DOMAIN source
       PROVE  PlacedOk(e)' /\ SettledOk(e)' /\ LabelsAt(e)' = {}
  BY <1>19, <1>12, <1>15, <1>17, PlacedFresh, PlainSettled
<1>22. jumps \in [loopStack : Seq(LoopFrames), switchStack : Seq(Nat),
                  namedLabels : SUBSET (Names \X Nat), pendingGotos : SUBSET Nat, nextLabel : Nat]
  BY DEF Good, TypesOk
<1>23. /\ jumps'.loopStack = jumps.loopStack /\ jumps'.switchStack = jumps.switchStack
       /\ jumps'.nextLabel = jumps.nextLabel /\ jumps.nextLabel \in Nat
       /\ jumps'.namedLabels = {} /\ jumps'.pendingGotos = {}
       /\ jumps' \in [loopStack : Seq(LoopFrames), switchStack : Seq(Nat),
                      namedLabels : SUBSET (Names \X Nat), pendingGotos : SUBSET Nat,
                      nextLabel : Nat]
  BY <1>2, <1>22
<1>24. TypesOk' BY <1>10, <1>12, <1>23 DEF Good, TypesOk, Grows
<1>25. LabelsOk' BY <1>23, <1>21, <1>12, LabelsKept
<1>26. LoopsOpen' /\ SwitchesOpen' BY <1>12, <1>17, <1>18, <1>23, StacksKept
<1>27. GotosWait'
  <2>1. ASSUME NEW e \in DOMAIN source', source'[e].what \in {"goto", "label"}
        PROVE  source'[e].path = <<>> \/ source'[e].path[1] # path'[1]
    BY <1>19, <2>1, <1>12, <1>14, <1>16 DEF Grows, Good, PlacedOk, ToSet
  <2>2. {g \in DOMAIN source' : Tag(g)' = "goto" /\ InOpenFunction(g)'} = {}
    BY <2>1 DEF Tag, InOpenFunction
  <2>3. {g \in DOMAIN source' : Tag(g)' = "label" /\ InOpenFunction(g)'} = {}
    BY <2>1 DEF Tag, InOpenFunction
  <2>4. {<<source'[l].name, store'[l].label>> :
            l \in {e \in DOMAIN source' : Tag(e)' = "label" /\ InOpenFunction(e)'}} = {}
    BY <2>3
  <2> QED BY <1>23, <2>2, <2>4 DEF GotosWait
<1> QED BY <1>17, <1>20, <1>21, <1>24, <1>25, <1>26, <1>27 DEF Good

(* What a statement writes and the labels it gives out, where the path     *)
(* stays what it is.                                                       *)
Wrote(h, from, to) ==
    /\ Grows /\ \A d \in DOMAIN source : Kept(d)
    /\ DOMAIN source' \ DOMAIN source = {h}
    /\ source'[h].path = path /\ path # <<>> /\ path' = path /\ menu' = menu
    /\ LabelsAt(h)' \subseteq from + 1 .. to

LEMMA GotosGrow ==
    ASSUME Good, NEW h, Wrote(h, jumps.nextLabel, jumps'.nextLabel),
           jumps'.pendingGotos = jumps.pendingGotos
               \cup (IF source'[h].what = "goto" THEN {h} ELSE {}),
           jumps'.namedLabels = jumps.namedLabels
               \cup (IF source'[h].what = "label" THEN {<<source'[h].name, store'[h].label>>} ELSE {})
    PROVE  GotosWait'
<1>1. /\ Grows /\ \A d \in DOMAIN source : Kept(d)
      /\ DOMAIN source' \ DOMAIN source = {h}
      /\ source'[h].path = path /\ path # <<>> /\ path' = path
  BY DEF Wrote
<1>2. DOMAIN source' = DOMAIN source \cup {h} /\ h \notin DOMAIN source BY <1>1, Domains
<1>3. \A d \in DOMAIN source : source'[d] = source[d] BY <1>1 DEF Grows
<1>4. ASSUME NEW tag
      PROVE  {e \in DOMAIN source' : Tag(e)' = tag /\ InOpenFunction(e)'}
               = {e \in DOMAIN source : Tag(e) = tag /\ InOpenFunction(e)}
                     \cup (IF source'[h].what = tag THEN {h} ELSE {})
  BY <1>1, <1>2, <1>3 DEF Tag, InOpenFunction
<1> DEFINE L == {e \in DOMAIN source : Tag(e) = "label" /\ InOpenFunction(e)}
           M == {e \in DOMAIN source' : Tag(e)' = "label" /\ InOpenFunction(e)'}
<1>5. /\ jumps.pendingGotos = {e \in DOMAIN source : Tag(e) = "goto" /\ InOpenFunction(e)}
      /\ jumps.namedLabels = {<<source[l].name, store[l].label>> : l \in L}
  BY <1>1 DEF Good, GotosWait
<1>6. \A l \in L : source'[l] = source[l] /\ store'[l].label = store[l].label
  BY <1>1, <1>3 DEF Kept
<1>7. M = L \cup (IF source'[h].what = "label" THEN {h} ELSE {}) BY <1>4
<1>8. jumps'.pendingGotos = {e \in DOMAIN source' : Tag(e)' = "goto" /\ InOpenFunction(e)'}
  BY <1>4, <1>5
<1>9. jumps'.namedLabels = {<<source'[l].name, store'[l].label>> : l \in M}
  <2> HIDE DEF L, M
  <2>1. {<<source'[l].name, store'[l].label>> : l \in L} = {<<source[l].name, store[l].label>> : l \in L}
    BY <1>6
  <2>2. CASE source'[h].what = "label" BY <1>7, <2>2, <1>5, <2>1
  <2>3. CASE source'[h].what # "label" BY <1>7, <2>3, <1>5, <2>1
  <2> QED BY <2>2, <2>3
<1> QED BY <1>8, <1>9 DEF GotosWait

LEMMA StatementStep ==
    ASSUME Good, NEW h, Wrote(h, jumps.nextLabel, jumps'.nextLabel),
           \A d \in DOMAIN source : PlacedOk(d)' /\ SettledOk(d)',
           SettledOk(h)', GotosWait',
           jumps' \in [loopStack : Seq(LoopFrames), switchStack : Seq(Nat),
                       namedLabels : SUBSET (Names \X Nat), pendingGotos : SUBSET Nat,
                       nextLabel : Nat],
           jumps.nextLabel <= jumps'.nextLabel,
           jumps'.loopStack = jumps.loopStack, jumps'.switchStack = jumps.switchStack
    PROVE  Good'
BY PathKept, StacksKept, PlacedFresh, LabelsKept DEF Wrote, Good, TypesOk, Grows

(* One item without a case label in it.                                    *)
LEMMA OneStatement ==
    ASSUME Good, NEW item, NEW note, NEW h, h = Here,
           "what" \in DOMAIN item, item.what \notin {"case", "default"},
           Write(<<Written(item)>>, <<note>>), path # <<>>, path' = path,
           LabelsOf(item.what, note) \subseteq jumps.nextLabel + 1 .. jumps'.nextLabel
    PROVE  /\ Wrote(h, jumps.nextLabel, jumps'.nextLabel)
           /\ source'[h].what = item.what /\ store'[h] = note
           /\ "name" \in DOMAIN item => source'[h].name = item.name
           /\ \A d \in DOMAIN source : PlacedOk(d)' /\ SettledOk(d)' /\ store'[d] = store[d]
<1>1. source' = source \o <<Written(item)>> /\ store' = store \o <<note>> /\ menu' = menu
  BY DEF Write
<1>2. PICK it : it = Written(item) OBVIOUS
<1>3. /\ it.what = item.what /\ it.path = path
      /\ "name" \in DOMAIN item => it.name = item.name
  BY <1>2, WrittenIs
<1>4. /\ Grows
      /\ \A d \in DOMAIN source : store'[d] = store[d] /\ Kept(d)
      /\ DOMAIN source' \ DOMAIN source = {Here}
      /\ source'[Here] = it /\ store'[Here] = note
  BY ONLY Good, <1>1, <1>2, AddedOne
<1>5. DOMAIN source' \ DOMAIN source = {h} /\ source'[h] = it /\ store'[h] = note BY <1>4
<1>6. LabelsAt(h)' = LabelsOf(item.what, note) BY <1>3, <1>5 DEF LabelsAt, Tag
<1>7. Wrote(h, jumps.nextLabel, jumps'.nextLabel) BY <1>1, <1>3, <1>4, <1>5, <1>6 DEF Wrote
<1>8. \A d \in DOMAIN source : PlacedOk(d)' /\ SettledOk(d)' BY <1>3, <1>5, <1>4, OldSettled
<1> QED BY <1>3, <1>4, <1>5, <1>7, <1>8

LEMMA JumpsType ==
    ASSUME Good
    PROVE  /\ jumps \in [loopStack : Seq(LoopFrames), switchStack : Seq(Nat),
                         namedLabels : SUBSET (Names \X Nat), pendingGotos : SUBSET Nat,
                         nextLabel : Nat]
           /\ jumps.nextLabel \in Nat /\ Here \in Nat /\ Len(source) \in Nat
           /\ DOMAIN source = 1 .. Len(source) /\ Here \notin DOMAIN source
BY DEF Good, TypesOk, Sequence, Here

LEMMA LabeledStatementGood ==
    ASSUME Good, NEW name \in Names, LabeledStatement(name), ~hasErrors'
    PROVE  Good'
<1> DEFINE item == [what |-> "label", name |-> name]
           label == jumps.nextLabel + 1
           note == [label |-> label]
<1>1. /\ Write(<<Written(item)>>, <<note>>) /\ path # <<>> /\ path' = path
      /\ jumps' = [jumps EXCEPT !.nextLabel = label, !.namedLabels = @ \cup {<<name, label>>}]
  <2> DEFINE duplicate == \E l \in jumps.namedLabels : l[1] = name
             kept == IF duplicate THEN jumps.namedLabels
                     ELSE jumps.namedLabels \cup {<<name, label>>}
  <2>1. Write(<<Written(item)>>, <<note>>) /\ path # <<>> /\ path' = path BY DEF LabeledStatement
  <2>2. ~duplicate BY DEF LabeledStatement
  <2>3. jumps' = [jumps EXCEPT !.nextLabel = label, !.namedLabels = kept] BY DEF LabeledStatement
  <2>4. kept = jumps.namedLabels \cup {<<name, label>>} BY <2>2
  <2> HIDE DEF kept, duplicate
  <2> QED BY <2>1, <2>3, <2>4
<1>2. "what" \in DOMAIN item /\ item.what = "label" /\ "name" \in DOMAIN item /\ item.name = name
  OBVIOUS
<1>3. label \in Nat /\ jumps.nextLabel \in Nat /\ label > jumps.nextLabel BY JumpsType
<1>4. /\ jumps' \in [loopStack : Seq(LoopFrames), switchStack : Seq(Nat),
                     namedLabels : SUBSET (Names \X Nat), pendingGotos : SUBSET Nat, nextLabel : Nat]
      /\ jumps'.nextLabel = label /\ jumps'.loopStack = jumps.loopStack
      /\ jumps'.switchStack = jumps.switchStack /\ jumps'.pendingGotos = jumps.pendingGotos
      /\ jumps'.namedLabels = jumps.namedLabels \cup {<<name, label>>}
  <2> DEFINE more == jumps.namedLabels \cup {<<name, label>>}
  <2>1. jumps.namedLabels \subseteq Names \X Nat BY JumpsType
  <2>2. more \subseteq Names \X Nat BY <1>3, <2>1
  <2>3. jumps' = [jumps EXCEPT !.nextLabel = label, !.namedLabels = more] BY <1>1
  <2> HIDE DEF more, label
  <2> QED BY <1>3, <2>2, <2>3, JumpsType DEF more
<1>5. note.label = label OBVIOUS
<1>6. LabelsOf(item.what, note) = {label}
  <2> DEFINE tag == item.what
  <2>1. tag \in {"case", "default", "label"} BY <1>2
  <2> HIDE DEF tag, note
  <2>2. LabelsOf(tag, note) = {note.label} BY <2>1, LabelsByTag
  <2> QED BY <1>5, <2>2 DEF tag
<1> HIDE DEF item, note, label
<1>7. LabelsOf(item.what, note) \subseteq jumps.nextLabel + 1 .. jumps'.nextLabel
  BY <1>3, <1>4, <1>6 DEF label
<1>8. PICK h : h = Here OBVIOUS
<1>9. /\ Wrote(h, jumps.nextLabel, jumps'.nextLabel)
      /\ source'[h].what = "label" /\ store'[h] = note /\ source'[h].name = name
      /\ \A d \in DOMAIN source : PlacedOk(d)' /\ SettledOk(d)'
  BY <1>2, <1>1, <1>7, <1>8, OneStatement
<1>10. GotosWait' BY <1>9, <1>4, <1>5, GotosGrow
<1>11. SettledOk(h)' BY <1>9 DEF SettledOk, Tag
<1> QED BY <1>3, <1>4, <1>9, <1>10, <1>11, StatementStep

LEMMA GotoStatementGood ==
    ASSUME Good, NEW name, GotoStatement(name)
    PROVE  Good'
<1> DEFINE item == [what |-> "goto", name |-> name]
           note == [jumpTo |-> None]
<1>1. /\ Write(<<Written(item)>>, <<note>>) /\ path # <<>> /\ path' = path
      /\ jumps' = [jumps EXCEPT !.pendingGotos = @ \cup {Here}]
  BY DEF GotoStatement
<1>2. "what" \in DOMAIN item /\ item.what = "goto" OBVIOUS
<1>3. jumps.nextLabel \in Nat BY JumpsType
<1>4. /\ jumps' \in [loopStack : Seq(LoopFrames), switchStack : Seq(Nat),
                     namedLabels : SUBSET (Names \X Nat), pendingGotos : SUBSET Nat, nextLabel : Nat]
      /\ jumps'.nextLabel = jumps.nextLabel /\ jumps'.loopStack = jumps.loopStack
      /\ jumps'.switchStack = jumps.switchStack
      /\ jumps'.pendingGotos = jumps.pendingGotos \cup {Here}
      /\ jumps'.namedLabels = jumps.namedLabels
  BY <1>1, JumpsType
<1>6. LabelsOf(item.what, note) = {}
  <2> DEFINE tag == item.what
  <2>1. tag \notin Labelled BY <1>2 DEF Labelled
  <2> HIDE DEF tag, note
  <2>2. LabelsOf(tag, note) = {} BY <2>1, LabelsByTag
  <2> QED BY <2>2 DEF tag
<1> HIDE DEF item, note
<1>7. LabelsOf(item.what, note) \subseteq jumps.nextLabel + 1 .. jumps'.nextLabel
  BY <1>6
<1>8. PICK h : h = Here OBVIOUS
<1>9. /\ Wrote(h, jumps.nextLabel, jumps'.nextLabel)
      /\ source'[h].what = "goto"
      /\ \A d \in DOMAIN source : PlacedOk(d)' /\ SettledOk(d)'
  BY <1>2, <1>1, <1>7, <1>8, OneStatement
<1>10. GotosWait' BY <1>9, <1>4, <1>8, GotosGrow
<1>11. SettledOk(h)' BY <1>9 DEF Wrote, GotoOk, FunctionEnded, SettledOk, Tag
<1> QED BY <1>3, <1>4, <1>9, <1>10, <1>11, StatementStep

LEMMA JumpStatementGood ==
    ASSUME Good, NEW kind \in {"break", "continue"}, JumpStatement(kind), ~hasErrors'
    PROVE  Good'
<1> DEFINE item == [what |-> kind]
           top == Last(jumps.loopStack)
           target == IF kind = "break" THEN <<top.exit>> ELSE top.cont
           note == [jumpTo |-> target]
<1>1. /\ jumps.loopStack # <<>> /\ target # None
      /\ Write(<<Written(item)>>, <<note>>) /\ path # <<>> /\ path' = path /\ jumps' = jumps
  BY DEF JumpStatement
<1>2. "what" \in DOMAIN item /\ item.what = kind /\ note.jumpTo = target OBVIOUS
<1>3. jumps.nextLabel \in Nat BY JumpsType
<1>6. LabelsOf(item.what, note) = {}
  <2> DEFINE tag == item.what
  <2>1. tag \notin Labelled BY <1>2 DEF Labelled
  <2> HIDE DEF tag, note
  <2>2. LabelsOf(tag, note) = {} BY <2>1, LabelsByTag
  <2> QED BY <2>2 DEF tag
<1> HIDE DEF item, note
<1>7. LabelsOf(item.what, note) \subseteq jumps.nextLabel + 1 .. jumps'.nextLabel
  BY <1>6
<1>8. PICK h : h = Here OBVIOUS
<1>9. /\ Wrote(h, jumps.nextLabel, jumps'.nextLabel)
      /\ source'[h].what = kind /\ store'[h] = note
      /\ \A d \in DOMAIN source : PlacedOk(d)' /\ SettledOk(d)' /\ store'[d] = store[d]
  BY <1>2, <1>1, <1>7, <1>8, OneStatement
<1>10. GotosWait' BY <1>9, <1>1, GotosGrow
<1>11. Grows /\ source'[h].path = path BY <1>9 DEF Wrote
<1>12. DOMAIN source \subseteq DOMAIN source' BY <1>11, Domains
<1>13. /\ top \in LoopFrames
       /\ LET w == Max({0} \cup OpenIn(LoopLike))
          IN  w \in DOMAIN source /\ Tag(w) \in LoopLike /\ top.exit = store[w].exit
       /\ LET l == Max({0} \cup OpenIn({"loop"}))
          IN  top.cont # None => l \in DOMAIN source /\ Tag(l) = "loop" /\ top.cont = <<store[l].cont>>
  BY <1>1, TopLoop
<1>14. ASSUME kind = "break" PROVE BreakOk(h)'
  <2> DEFINE w == Max({0} \cup OpenIn(LoopLike))
  <2>1. w \in DOMAIN source /\ Tag(w) \in LoopLike /\ top.exit = store[w].exit BY <1>13
  <2>2. Within(h, LoopLike)' = w BY <1>11, WithinFresh
  <2> HIDE DEF w, top
  <2>3. source'[w] = source[w] /\ store'[w] = store[w] BY <1>9, <1>11, <2>1 DEF Grows
  <2>4. store'[h].jumpTo = <<store'[w].exit>> BY <1>2, <1>9, <1>14, <2>1, <2>3
  <2>5. source'[w].what \in LoopLike BY <2>1, <2>3 DEF Tag
  <2> QED BY <1>12, <2>1, <2>2, <2>4, <2>5 DEF BreakOk, Tag, LoopLike
<1>15. ASSUME kind = "continue" PROVE ContinueOk(h)'
  <2> DEFINE l == Max({0} \cup OpenIn({"loop"}))
  <2>1. top.cont # None BY <1>1, <1>15
  <2>2. l \in DOMAIN source /\ Tag(l) = "loop" /\ top.cont = <<store[l].cont>> BY <1>13, <2>1
  <2>3. Within(h, {"loop"})' = l BY <1>11, WithinFresh
  <2> HIDE DEF l, top
  <2>4. source'[l] = source[l] /\ store'[l] = store[l] BY <1>9, <1>11, <2>2 DEF Grows
  <2>5. store'[h].jumpTo = <<store'[l].cont>> BY <1>2, <1>9, <1>15, <2>2, <2>4
  <2>6. source'[l].what = "loop" BY <2>2, <2>4 DEF Tag
  <2> QED BY <1>12, <2>2, <2>3, <2>5, <2>6 DEF ContinueOk, Tag
<1>16. SettledOk(h)' BY <1>9, <1>14, <1>15 DEF SettledOk, Tag
<1>17. jumps'.loopStack = jumps.loopStack /\ jumps'.switchStack = jumps.switchStack
       /\ jumps.nextLabel <= jumps'.nextLabel
  BY <1>1, <1>3
<1> QED BY <1>1, <1>9, <1>10, <1>16, <1>17, JumpsType, StatementStep

LEMMA AppendIs ==
    ASSUME NEW s, NEW x, Sequence(s)
    PROVE  /\ Sequence(Append(s, x)) /\ Len(s) \in Nat /\ DOMAIN s = 1 .. Len(s)
           /\ Len(Append(s, x)) = Len(s) + 1 /\ DOMAIN Append(s, x) = 1 .. Len(s) + 1
           /\ \A i \in 1 .. Len(s) : Append(s, x)[i] = s[i]
           /\ Append(s, x)[Len(s) + 1] = x
<1> DEFINE S == ToSet(s) \cup {x}
           t == Append(s, x)
<1>1. s \in Seq(S) /\ x \in S BY DEF Sequence
<1> HIDE DEF S
<1>2. /\ t \in Seq(S) /\ Len(s) \in Nat /\ DOMAIN s = 1 .. Len(s)
      /\ Len(t) = Len(s) + 1 /\ DOMAIN t = 1 .. Len(s) + 1
      /\ \A i \in 1 .. Len(s) : t[i] = s[i]
      /\ t[Len(s) + 1] = x
  BY <1>1
<1>3. t \in Seq(ToSet(t))
  <2> HIDE DEF t
  <2> QED BY <1>2 DEF ToSet
<1> QED BY <1>2, <1>3 DEF Sequence

(* A case label changes what is kept of the innermost switch, but not the  *)
(* label behind it.                                                        *)
LEMMA LabelWritten ==
    ASSUME Good, NEW item, NEW on, NEW h, h = Here, NEW sw, sw = Last(jumps.switchStack),
           jumps.switchStack # <<>>, path # <<>>, "what" \in DOMAIN item,
           item.what \in {"case", "default"}, WriteLabel(item, on), on.exit = store[sw].exit,
           jumps' = [jumps EXCEPT !.nextLabel = @ + 1]
    PROVE  /\ Wrote(h, jumps.nextLabel, jumps'.nextLabel)
           /\ source'[h].what = item.what
           /\ "value" \in DOMAIN item => source'[h].value = item.value
           /\ sw \in DOMAIN source /\ sw # 0 /\ Tag(sw) = "switch" /\ store'[sw] = on
           /\ \A d \in DOMAIN source : d # sw => store'[d] = store[d]
           /\ Within(h, {"switch"})' = sw
<1>1. sw \in DOMAIN source /\ Tag(sw) = "switch" /\ Max({0} \cup OpenIn({"switch"})) = sw
  BY TopSwitch
<1>2. PICK it : it = Written(item) OBVIOUS
<1>3. /\ it.what = item.what /\ it.path = path
      /\ "value" \in DOMAIN item => it.value = item.value
  BY <1>2, WrittenIs
<1>4. PICK noted : noted = [store EXCEPT ![sw] = on] OBVIOUS
<1>5. PICK note : note = [label |-> jumps.nextLabel + 1] OBVIOUS
<1>6. /\ source' = Append(source, it) /\ store' = Append(noted, note)
      /\ menu' = menu /\ path' = path
  BY <1>2, <1>4, <1>5 DEF WriteLabel
<1>7. Sequence(source) /\ Sequence(store) /\ Len(store) = Len(source) BY DEF Good, TypesOk
<1>8. Len(source) \in Nat /\ DOMAIN source = 1 .. Len(source) /\ h = Len(source) + 1
  BY JumpsType DEF Here
<1>9. DOMAIN store = 1 .. Len(source) BY <1>7, <1>8 DEF Sequence
<1>10. /\ DOMAIN noted = 1 .. Len(source) /\ noted[sw] = on
       /\ \A d \in DOMAIN source : d # sw => noted[d] = store[d]
       /\ noted = [i \in 1 .. Len(source) |-> noted[i]]
  BY <1>1, <1>4, <1>8, <1>9
<1>11. Sequence(noted) /\ Len(noted) = Len(source) BY <1>8, <1>10, Tabulated
<1>12. /\ Sequence(source') /\ Len(source') = Len(source) + 1 /\ DOMAIN source' = 1 .. Len(source) + 1
       /\ \A i \in 1 .. Len(source) : source'[i] = source[i]
       /\ source'[Len(source) + 1] = it
  BY <1>6, <1>7, AppendIs
<1>13. /\ Sequence(store') /\ Len(store') = Len(source) + 1
       /\ \A i \in 1 .. Len(source) : store'[i] = noted[i]
       /\ store'[Len(source) + 1] = note
  BY <1>6, <1>11, AppendIs
<1>14. Grows BY <1>8, <1>12, <1>13 DEF Grows
<1>15. store'[sw] = on /\ \A d \in DOMAIN source : d # sw => store'[d] = store[d]
  BY <1>1, <1>8, <1>10, <1>13
<1>16. \A d \in DOMAIN source : Kept(d) BY <1>1, <1>15 DEF Kept
<1>17. DOMAIN source' \ DOMAIN source = {h} /\ source'[h] = it /\ store'[h] = note
  BY <1>8, <1>12, <1>13
<1>18. LabelsAt(h)' = {jumps.nextLabel + 1}
  <2> DEFINE tag == source'[h].what
  <2>1. tag \in {"case", "default", "label"} BY <1>3, <1>17
  <2>2. note.label = jumps.nextLabel + 1 BY <1>5
  <2> HIDE DEF tag
  <2>3. LabelsOf(tag, note) = {note.label} BY <2>1, LabelsByTag
  <2> QED BY <1>17, <2>2, <2>3 DEF tag, LabelsAt, Tag
<1>19. jumps'.nextLabel = jumps.nextLabel + 1 /\ jumps.nextLabel \in Nat BY JumpsType
<1>20. LabelsAt(h)' \subseteq jumps.nextLabel + 1 .. jumps'.nextLabel BY <1>18, <1>19
<1>21. source'[h].path = path BY <1>3, <1>17
<1>22. Within(h, {"switch"})' = sw BY <1>1, <1>14, <1>21, WithinFresh
<1>23. Wrote(h, jumps.nextLabel, jumps'.nextLabel)
  BY <1>6, <1>14, <1>16, <1>17, <1>20, <1>21 DEF Wrote
<1> QED BY <1>1, <1>3, <1>8, <1>15, <1>17, <1>22, <1>23

LEMMA LabelGood ==
    ASSUME Good, NEW h, NEW sw, Wrote(h, jumps.nextLabel, jumps'.nextLabel),
           source'[h].what \in {"case", "default"}, sw \in DOMAIN source, Tag(sw) = "switch",
           \A d \in DOMAIN source : d # sw => store'[d] = store[d],
           Within(h, {"switch"})' = sw, jumps' = [jumps EXCEPT !.nextLabel = @ + 1], SwitchOk(sw)'
    PROVE  Good'
<1>1. /\ Grows /\ \A d \in DOMAIN source : Kept(d)
      /\ DOMAIN source' \ DOMAIN source = {h} /\ path # <<>> /\ path' = path
  BY DEF Wrote
<1>2. DOMAIN source \subseteq DOMAIN source' BY <1>1, Domains
<1>3. ASSUME NEW d \in DOMAIN source PROVE PlacedOk(d)' /\ SettledOk(d)'
  BY <1>1, SwitchKept, GotoKept, ItemKept DEF Grows, GotoOk, FunctionEnded
<1>4. SettledOk(h)' BY <1>2 DEF SettledOk, Tag
<1>5. /\ jumps' \in [loopStack : Seq(LoopFrames), switchStack : Seq(Nat),
                     namedLabels : SUBSET (Names \X Nat), pendingGotos : SUBSET Nat, nextLabel : Nat]
      /\ jumps.nextLabel <= jumps'.nextLabel
      /\ jumps'.loopStack = jumps.loopStack /\ jumps'.switchStack = jumps.switchStack
      /\ jumps'.pendingGotos = jumps.pendingGotos /\ jumps'.namedLabels = jumps.namedLabels
  <2>1. PICK n : n = jumps.nextLabel + 1 OBVIOUS
  <2>2. n \in Nat /\ jumps.nextLabel \in Nat /\ jumps.nextLabel <= n BY <2>1, JumpsType
  <2>3. jumps' = [jumps EXCEPT !.nextLabel = n] BY <2>1
  <2> QED BY ONLY <2>2, <2>3, Good, JumpsType
<1>6. GotosWait' BY <1>5, GotosGrow
<1> QED BY <1>3, <1>4, <1>5, <1>6, StatementStep

LEMMA CasesGrow ==
    ASSUME Good, NEW h, NEW sw, Wrote(h, jumps.nextLabel, jumps'.nextLabel), sw \in DOMAIN source,
           Within(h, {"switch"})' = sw
    PROVE  /\ source'[h].what = "case" =>
                  /\ OfSwitch(sw, "case")' = OfSwitch(sw, "case") \cup {h}
                  /\ OfSwitch(sw, "default")' = OfSwitch(sw, "default")
           /\ source'[h].what = "default" =>
                  /\ OfSwitch(sw, "default")' = OfSwitch(sw, "default") \cup {h}
                  /\ OfSwitch(sw, "case")' = OfSwitch(sw, "case")
BY Domains, WithinKept DEF Wrote, Grows, OfSwitch, Tag

LEMMA CaseLabelGood ==
    ASSUME Good, NEW value \in CaseValues, CaseLabel(value), ~hasErrors'
    PROVE  Good'
<1> DEFINE item == [what |-> "case", value |-> value]
<1>1. PICK h : h = Here OBVIOUS
<1>2. PICK sw : sw = Last(jumps.switchStack) OBVIOUS
<1>3. PICK on : on = [store[sw] EXCEPT !.cases = @ \cup {<<value, h>>}] OBVIOUS
<1>4. /\ jumps.switchStack # <<>> /\ path # <<>>
      /\ jumps' = [jumps EXCEPT !.nextLabel = @ + 1]
  BY DEF CaseLabel
<1>5. WriteLabel(item, on) BY <1>4, <1>1, <1>2, <1>3 DEF CaseLabel, CurrentSwitch
<1>6. "what" \in DOMAIN item /\ item.what = "case" /\ "value" \in DOMAIN item /\ item.value = value
  OBVIOUS
<1>7. sw \in DOMAIN source /\ Tag(sw) = "switch" BY <1>2, <1>4, TopSwitch
<1>8. SwitchOk(sw) BY <1>7 DEF Good, SettledOk
<1>9. /\ store[sw].exit = on.exit /\ on.cases = store[sw].cases \cup {<<value, h>>}
      /\ on.defaultLabel = store[sw].defaultLabel /\ on \in SwitchNotes
  <2>1. store[sw] \in SwitchNotes BY <1>8 DEF SwitchOk
  <2>2. h \in Nat BY <1>1, JumpsType
  <2> DEFINE more == store[sw].cases \cup {<<value, h>>}
  <2>3. store[sw].cases \subseteq CaseValues \X Nat BY <2>1 DEF SwitchNotes
  <2>4. more \in SUBSET (CaseValues \X Nat) BY <2>2, <2>3
  <2>5. on = [store[sw] EXCEPT !.cases = more] BY <1>3
  <2> HIDE DEF more
  <2>6. /\ store[sw].exit = on.exit /\ on.cases = more
        /\ on.defaultLabel = store[sw].defaultLabel /\ on \in SwitchNotes
    BY <2>1, <2>4, <2>5 DEF SwitchNotes
  <2> QED BY <2>6 DEF more
<1> HIDE DEF item
<1>10. /\ Wrote(h, jumps.nextLabel, jumps'.nextLabel)
       /\ source'[h].what = "case" /\ source'[h].value = value
       /\ store'[sw] = on
       /\ \A d \in DOMAIN source : d # sw => store'[d] = store[d]
       /\ Within(h, {"switch"})' = sw
  BY <1>1, <1>2, <1>4, <1>5, <1>6, <1>9, LabelWritten
<1>11. /\ OfSwitch(sw, "case")' = OfSwitch(sw, "case") \cup {h}
       /\ OfSwitch(sw, "default")' = OfSwitch(sw, "default")
  BY <1>7, <1>10, CasesGrow
<1>12. SwitchOk(sw)' BY <1>8, <1>10, <1>9, <1>11 DEF SwitchOk, OfSwitch, Wrote, Grows
<1> QED BY <1>4, <1>7, <1>10, <1>12, LabelGood

LEMMA DefaultLabelGood ==
    ASSUME Good, DefaultLabel, ~hasErrors'
    PROVE  Good'
<1> DEFINE item == [what |-> "default"]
<1>1. PICK h : h = Here OBVIOUS
<1>2. PICK sw : sw = Last(jumps.switchStack) OBVIOUS
<1>3. PICK on : on = [store[sw] EXCEPT !.defaultLabel = <<h>>] OBVIOUS
<1>4. /\ jumps.switchStack # <<>> /\ path # <<>>
      /\ jumps' = [jumps EXCEPT !.nextLabel = @ + 1]
  BY DEF DefaultLabel
<1>20. CurrentSwitch.defaultLabel = None BY <1>4 DEF DefaultLabel
<1>5. WriteLabel(item, on) BY <1>1, <1>2, <1>3, <1>4, <1>20 DEF CurrentSwitch, DefaultLabel
<1>6. "what" \in DOMAIN item /\ item.what = "default" /\ "value" \notin DOMAIN item
  OBVIOUS
<1>7. sw \in DOMAIN source /\ Tag(sw) = "switch" BY <1>2, <1>4, TopSwitch
<1>8. SwitchOk(sw) BY <1>7 DEF Good, SettledOk
<1>9. /\ store[sw].exit = on.exit /\ on.cases = store[sw].cases
      /\ on.defaultLabel = <<h>> /\ on \in SwitchNotes
  BY <1>8, <1>1, JumpsType, <1>3 DEF SwitchOk, SwitchNotes
<1> HIDE DEF item
<1>10. /\ Wrote(h, jumps.nextLabel, jumps'.nextLabel)
       /\ source'[h].what = "default"
       /\ store'[sw] = on
       /\ \A d \in DOMAIN source : d # sw => store'[d] = store[d]
       /\ Within(h, {"switch"})' = sw
  BY <1>1, <1>2, <1>4, <1>5, <1>6, <1>9, LabelWritten
<1>11. /\ OfSwitch(sw, "case")' = OfSwitch(sw, "case")
       /\ OfSwitch(sw, "default")' = OfSwitch(sw, "default") \cup {h}
  BY <1>7, <1>10, CasesGrow
<1>12. SwitchOk(sw)'
  BY <1>8, <1>10, <1>9, <1>2, <1>20, Single, <1>11 DEF SwitchOk, OfSwitch, Wrote, Grows,
     CurrentSwitch, None, ToSet
<1> QED BY <1>4, <1>7, <1>10, <1>12, LabelGood

(* A loop or a switch is opened at h.                                      *)
LEMMA OpenedStep ==
    ASSUME Good, Grows, \A d \in DOMAIN source : store'[d] = store[d] /\ Kept(d), menu' = menu,
           NEW h \in DOMAIN source' \ DOMAIN source, path # <<>>, path' = Append(path, h),
           source'[h].what \in LoopLike, source'[h].path = path,
           \A e \in DOMAIN source' \ DOMAIN source :
               e # h => source'[e].what \in PlainTags /\ source'[e].path \in {path, path'},
           jumps' \in [loopStack : Seq(LoopFrames), switchStack : Seq(Nat),
                       namedLabels : SUBSET (Names \X Nat), pendingGotos : SUBSET Nat,
                       nextLabel : Nat],
           jumps.nextLabel <= jumps'.nextLabel,
           LabelsAt(h)' \subseteq jumps.nextLabel + 1 .. jumps'.nextLabel,
           jumps'.pendingGotos = jumps.pendingGotos, jumps'.namedLabels = jumps.namedLabels,
           LoopsOpen', SwitchesOpen', SettledOk(h)'
    PROVE  Good'
<1>1. source'[h].what \notin {"definition", "case", "default", "goto", "label"} BY DEF LoopLike
<1>2. PathOk' /\ path' # <<>> /\ path'[1] = path[1] BY <1>1, PathPushed
<1>3. ASSUME NEW e \in DOMAIN source' \ DOMAIN source
      PROVE  /\ source'[e].what \notin {"case", "default", "goto", "label"}
             /\ source'[e].path \in {path, path'}
  BY <1>1 DEF PlainTags
<1>4. \A d \in DOMAIN source : PlacedOk(d)' /\ SettledOk(d)' BY <1>2, <1>3, OldSettled
<1>5. ASSUME NEW e \in DOMAIN source' \ DOMAIN source PROVE PlacedOk(e)' /\ SettledOk(e)'
  BY <1>3, <1>2, PlacedFresh, PlainSettled
<1>6. ASSUME NEW e \in DOMAIN source' \ DOMAIN source, e # h PROVE LabelsAt(e)' = {}
  BY <1>6, PlainSettled
<1>7. LabelsOk' BY <1>6, LabelsKept
<1>8. TypesOk' BY DEF Good, TypesOk, Grows
<1>9. GotosWait' BY <1>3, <1>2, GotosKept
<1> QED BY <1>2, <1>4, <1>5, <1>7, <1>8, <1>9 DEF Good

LEMMA SwitchGood ==
    ASSUME Good, Switch
    PROVE  Good'
<1> DEFINE item == [what |-> "switch"]
           exit == jumps.nextLabel + 1
           note == [exit |-> exit, cases |-> {}, defaultLabel |-> None]
           frame == [exit |-> exit, cont |-> IF jumps.loopStack = <<>> THEN None
                                             ELSE Last(jumps.loopStack).cont]
<1>1. PICK h : h = Here OBVIOUS
<1>2. /\ Write(<<Written(item)>>, <<note>>) /\ path # <<>> /\ path' = Append(path, h)
      /\ jumps' = [jumps EXCEPT !.nextLabel = exit, !.loopStack = Append(@, frame),
                                !.switchStack = Append(@, h)]
  BY <1>1 DEF Switch
<1>3. "what" \in DOMAIN item /\ item.what = "switch" OBVIOUS
<1>4. exit \in Nat /\ jumps.nextLabel \in Nat /\ jumps.nextLabel < exit BY JumpsType
<1>5. note.exit = exit /\ note.cases = {} /\ note.defaultLabel = <<>> /\ note \in SwitchNotes
  BY <1>4 DEF SwitchNotes, None
<1>6. /\ frame.exit = exit
      /\ frame.cont = IF jumps.loopStack = <<>> THEN None ELSE Last(jumps.loopStack).cont
      /\ frame \in LoopFrames BY TopLoop, <1>4 DEF None, LoopFrames
<1> HIDE DEF item, note, frame, exit
<1>7. source' = source \o <<Written(item)>> /\ store' = store \o <<note>> /\ menu' = menu
  BY <1>2 DEF Write
<1>8. PICK it : it = Written(item) OBVIOUS
<1>9. it.what = "switch" /\ it.path = path BY <1>3, <1>8, WrittenIs
<1>10. /\ Grows
       /\ \A d \in DOMAIN source : store'[d] = store[d] /\ Kept(d)
       /\ h \in DOMAIN source' \ DOMAIN source
       /\ DOMAIN source' \ DOMAIN source = {h}
       /\ source'[h] = it /\ store'[h] = note
  BY ONLY Good, <1>1, <1>7, <1>8, AddedOne
<1>11. /\ OpenIn({"switch"})' = OpenIn({"switch"}) \cup {h} BY <1>9, <1>10, <1>2, PathPushed
<1>12. jumps'.switchStack = Append(jumps.switchStack, h) /\ jumps'.nextLabel = exit
       /\ jumps'.loopStack = Append(jumps.loopStack, frame)
       /\ jumps'.pendingGotos = jumps.pendingGotos /\ jumps'.namedLabels = jumps.namedLabels
  BY <1>2, JumpsType
<1>13. SwitchesOpen' /\ jumps'.switchStack \in Seq(Nat) BY <1>10, <1>11, <1>12, SwitchPushed
<1>14. jumps' \in [loopStack : Seq(LoopFrames), switchStack : Seq(Nat),
                   namedLabels : SUBSET (Names \X Nat), pendingGotos : SUBSET Nat, nextLabel : Nat]
  <2> DEFINE loops == Append(jumps.loopStack, frame)
             switches == Append(jumps.switchStack, h)
  <2>1. loops \in Seq(LoopFrames) BY <1>6, JumpsType
  <2>2. switches \in Seq(Nat) BY <1>12, <1>13
  <2>3. jumps' = [jumps EXCEPT !.nextLabel = exit, !.loopStack = loops, !.switchStack = switches]
    BY <1>2
  <2> HIDE DEF loops, switches
  <2> QED BY <1>4, <2>1, <2>2, <2>3, JumpsType
<1>15. LoopsOpen' BY <1>5, <1>6, <1>9, <1>10, <1>2, <1>12, LoopPushed DEF LoopLike
<1>16. SettledOk(h)'
  BY <1>9, <1>10, WithinKept, <1>5 DEF Grows, Good, SettledOk, Tag, OfSwitch, ToSet, SwitchOk
<1>17. LabelsAt(h)' \subseteq jumps.nextLabel + 1 .. jumps'.nextLabel
  BY LabelsByTag, <1>5, <1>9, <1>10, <1>4, <1>12 DEF LabelsAt, Tag, exit
<1>18. source'[h].what \in LoopLike /\ source'[h].path = path BY <1>9, <1>10 DEF LoopLike
<1>19. \A e \in DOMAIN source' \ DOMAIN source :
           e # h => source'[e].what \in PlainTags /\ source'[e].path \in {path, path'}
  BY <1>10
<1>20. jumps.nextLabel <= jumps'.nextLabel BY <1>4, <1>12
<1> QED BY <1>2, <1>7, <1>10, <1>12, <1>13, <1>14, <1>15, <1>16, <1>17, <1>18, <1>19, <1>20, OpenedStep

LEMMA LoopGood ==
    ASSUME Good, NEW kind, NEW declared, Loop(kind, declared)
    PROVE  Good'
<1> DEFINE item == [what |-> "loop", kind |-> kind]
           entry == jumps.nextLabel + 1
           own == kind \in {"forIncrement", "do"}
           cont == IF ~own THEN entry ELSE IF kind = "do" THEN entry + 1 ELSE entry + 2
           exit == IF kind = "do" THEN entry + 2 ELSE entry + 1
           next == IF own THEN entry + 2 ELSE entry + 1
           note == [entry |-> entry, cont |-> cont, exit |-> exit]
           frame == [exit |-> exit, cont |-> <<cont>>]
<1>1. PICK h : h = Here OBVIOUS
<1>2. path # <<>> /\ path' = Append(path, h) /\ path' = Append(path, Here)
  BY <1>1 DEF Loop
<1>3. jumps' = [jumps EXCEPT !.nextLabel = next, !.loopStack = Append(@, frame)]
  BY DEF Loop
<1> DEFINE Variable(n) == [what |-> "object", name |-> n, storage |-> "", type |-> "int",
                           init |-> <<None>>, path |-> Append(path, Here)]
           tail == IF declared = None THEN <<>> ELSE <<Variable(declared[1])>>
<1>4. PICK tailNote : Write(<<Written(item)>> \o tail,
                            <<note>> \o IF declared = None THEN <<>> ELSE <<tailNote>>)
  BY DEF Loop
<1> DEFINE tailNotes == IF declared = None THEN <<>> ELSE <<tailNote>>
<1>5. /\ Sequence(tail) /\ Sequence(tailNotes) /\ Len(tail) = Len(tailNotes) /\ Len(tail) \in Nat
      /\ \A i \in 1 .. Len(tail) : tail[i].what = "object" /\ tail[i].path = path'
  <2>1. CASE declared = None
    <3>1. tail = <<>> /\ tailNotes = <<>> BY <2>1
    <3> HIDE DEF tail, tailNotes
    <3> QED BY <3>1 DEF Sequence
  <2>2. CASE declared # None
    <3>1. PICK v : v = Variable(declared[1]) OBVIOUS
    <3>2. v.what = "object" /\ v.path = path' BY <1>2, <3>1
    <3>3. tail = <<v>> /\ tailNotes = <<tailNote>> BY <2>2, <3>1
    <3> HIDE DEF tail, tailNotes
    <3>4. /\ Sequence(<<v>>) /\ Len(<<v>>) = 1 /\ <<v>>[1] = v
          /\ Sequence(<<tailNote>>) /\ Len(<<tailNote>>) = 1
      BY Single
    <3>5. Sequence(tail) /\ Len(tail) = 1 /\ tail[1] = v /\ Sequence(tailNotes) /\ Len(tailNotes) = 1
      BY <3>3, <3>4
    <3> QED BY <3>2, <3>5
  <2> QED BY <2>1, <2>2
<1>6. "what" \in DOMAIN item /\ item.what = "loop" OBVIOUS
<1>7. /\ jumps.nextLabel \in Nat /\ next \in Nat /\ jumps.nextLabel <= next
      /\ {entry, cont, exit} \subseteq jumps.nextLabel + 1 .. next
      /\ entry \in Nat /\ cont \in Nat /\ exit \in Nat BY JumpsType
<1>8. note.entry = entry /\ note.cont = cont /\ note.exit = exit OBVIOUS
<1>9. frame.exit = exit /\ frame.cont = <<cont>> /\ frame \in LoopFrames
  BY <1>7 DEF LoopFrames
<1> DEFINE noteTail == <<note>> \o tailNotes
<1>10. Write(<<Written(item)>> \o tail, noteTail) BY <1>4
<1> HIDE DEF item, tail, tailNotes, note, frame, next, own, cont, exit, entry
<1>11. PICK it : it = Written(item) OBVIOUS
<1>12. it.what = "loop" /\ it.path = path BY <1>6, <1>11, WrittenIs
<1> DEFINE items == <<it>> \o tail
<1>13. /\ Sequence(items) /\ Len(items) = 1 + Len(tail)
       /\ items[1] = it /\ \A i \in 1 .. Len(tail) : items[1 + i] = tail[i]
  BY <1>5, HeadAndTail
<1>14. Sequence(noteTail) /\ Len(noteTail) = 1 + Len(tailNotes) /\ noteTail[1] = note
  BY <1>5, HeadAndTail
<1>15. source' = source \o items /\ store' = store \o noteTail /\ menu' = menu
  BY <1>10, <1>11 DEF Write
<1> HIDE DEF items, noteTail
<1>16. Adds(items, noteTail) BY <1>5, <1>13, <1>14, <1>15 DEF Adds
<1>17. /\ Grows /\ Len(source) \in Nat
       /\ \A d \in DOMAIN source : store'[d] = store[d] /\ Kept(d)
       /\ \A e \in DOMAIN source' \ DOMAIN source :
              \E i \in 1 .. Len(items) : e = Len(source) + i /\ source'[e] = items[i]
       /\ \A i \in 1 .. Len(items) : /\ Len(source) + i \in DOMAIN source' \ DOMAIN source
                                     /\ source'[Len(source) + i] = items[i]
                                     /\ store'[Len(source) + i] = noteTail[i]
  BY ONLY Good, <1>16, Added
<1>18. /\ h \in DOMAIN source' \ DOMAIN source /\ source'[h] = it /\ store'[h] = note
       /\ h = Len(source) + 1 BY <1>5, <1>13, <1>1, <1>14, <1>17 DEF Here
<1>19. ASSUME NEW e \in DOMAIN source' \ DOMAIN source, e # h
       PROVE  source'[e].what \in PlainTags /\ source'[e].path \in {path, path'}
  <2>1. PICK i \in 1 .. Len(items) : e = Len(source) + i /\ source'[e] = items[i] BY <1>17
  <2>2. i # 1 BY <1>18, <1>19, <2>1
  <2>3. i - 1 \in 1 .. Len(tail) /\ i = 1 + (i - 1) BY <1>5, <1>13, <2>2
  <2>4. items[i] = tail[i - 1] BY <1>13, <2>3
  <2> QED BY <1>5, <2>1, <2>3, <2>4 DEF PlainTags
<1>20. /\ source'[h].what = "loop" /\ source'[h].path = path
       /\ source'[h].what \in LoopLike /\ source'[h].what # "definition"
       /\ source'[h].what \notin {"switch"}
  BY <1>12, <1>18 DEF LoopLike
<1>21. jumps'.nextLabel = next /\ jumps'.loopStack = Append(jumps.loopStack, frame)
       /\ jumps'.switchStack = jumps.switchStack
       /\ jumps'.pendingGotos = jumps.pendingGotos /\ jumps'.namedLabels = jumps.namedLabels
  BY <1>3, JumpsType
<1>22. jumps' \in [loopStack : Seq(LoopFrames), switchStack : Seq(Nat),
                   namedLabels : SUBSET (Names \X Nat), pendingGotos : SUBSET Nat, nextLabel : Nat]
  <2> DEFINE loops == Append(jumps.loopStack, frame)
  <2>1. loops \in Seq(LoopFrames) BY <1>9, JumpsType
  <2>2. jumps' = [jumps EXCEPT !.nextLabel = next, !.loopStack = loops] BY <1>3
  <2> HIDE DEF loops
  <2> QED BY <1>7, <2>1, <2>2, JumpsType
<1>23. SwitchesOpen' BY <1>2, <1>17, <1>18, <1>20, PathPushed, <1>21 DEF Good, SwitchesOpen
<1>24. LoopsOpen' BY <1>8, <1>9, <1>18, <1>2, <1>17, <1>20, <1>21, LoopPushed
<1>25. SettledOk(h)' BY <1>20 DEF SettledOk, Tag
<1>26. LabelsAt(h)' \subseteq jumps.nextLabel + 1 .. jumps'.nextLabel
  BY LabelsByTag, <1>8, <1>18, <1>20, <1>7, <1>21 DEF LabelsAt, Tag
<1>27. jumps.nextLabel <= jumps'.nextLabel BY <1>7, <1>21
<1> QED BY <1>2, <1>15, <1>17, <1>18, <1>19, <1>20, <1>21, <1>22, <1>23, <1>24, <1>25, <1>26, <1>27, OpenedStep

-----------------------------------------------------------------------------
(* Ending what is open.                                                    *)

LEMMA Unwritten ==
    ASSUME Good, source' = source, store' = store
    PROVE  Grows /\ DOMAIN source' \ DOMAIN source = {} /\ \A d \in DOMAIN source : Kept(d)
BY JumpsType DEF Good, TypesOk, Grows, Kept

LEMMA ClosedStep ==
    ASSUME Good, path # <<>>, Tag(Last(path)) # "definition", path' = Front(path),
           source' = source, store' = store, menu' = menu, LoopsOpen', SwitchesOpen',
           jumps' \in [loopStack : Seq(LoopFrames), switchStack : Seq(Nat),
                       namedLabels : SUBSET (Names \X Nat), pendingGotos : SUBSET Nat,
                       nextLabel : Nat],
           jumps'.nextLabel = jumps.nextLabel,
           jumps'.pendingGotos = jumps.pendingGotos, jumps'.namedLabels = jumps.namedLabels
    PROVE  Good'
BY Unwritten, PathPopped, OldSettled, JumpsType, LabelsKept, GotosKept DEF Good, TypesOk

LEMMA EndInnerGood ==
    ASSUME Good, EndInner
    PROVE  Good'
<1>1. source' = source /\ store' = store /\ menu' = menu /\ path' = Front(path) BY DEF EndInner
<1>2. Grows /\ \A d \in DOMAIN source : Kept(d) BY <1>1, Unwritten
<1>3. CASE EndBlock
  <2>1. path # <<>> /\ Tag(Last(path)) = "block" /\ jumps' = jumps BY <1>3 DEF EndBlock, Open
  <2>2. Tag(Last(path)) # "definition" BY <2>1
  <2>3. \A what : OpenIn(what)' = OpenIn(what) \ {Last(path)} BY <1>1, <2>1, <2>2, PathPopped
  <2>4. OpenIn(LoopLike)' = OpenIn(LoopLike) /\ OpenIn({"switch"})' = OpenIn({"switch"})
    BY <2>1, <2>3 DEF OpenIn, LoopLike
  <2>5. LoopsOpen' /\ SwitchesOpen' BY <1>2, <2>1, <2>4, StacksKept
  <2> QED BY <1>1, <2>1, <2>2, <2>5, JumpsType, ClosedStep
<1>4. CASE EndLoop
  BY <1>4, JumpsType, <1>1, LoopPopped, PathPopped, ClosedStep DEF EndLoop, Open, LoopLike,
     OpenIn, Good, SwitchesOpen
<1>5. CASE EndSwitch
  BY <1>5, JumpsType, <1>1, LoopPopped, SwitchPopped, ClosedStep DEF EndSwitch, Open, LoopLike
<1> QED BY <1>3, <1>4, <1>5 DEF EndInner

(* At the end of a function each of its gotos has found its label.         *)
LEMMA EndFunctionGood ==
    ASSUME Good, EndFunctionDefinition, ~hasErrors'
    PROVE  Good'
<1> DEFINE Named(g) == {l \in jumps.namedLabels : l[1] = source[g].name}
           found == {g \in jumps.pendingGotos : Named(g) # {}}
<1>1. /\ path # <<>> /\ Tag(Last(path)) = "definition" /\ path' = <<>>
      /\ source' = source /\ menu' = menu
      /\ jumps' = [jumps EXCEPT !.namedLabels = {}, !.pendingGotos = {}]
  BY DEF EndFunctionDefinition, Open
<1>2. store' = [d \in DOMAIN store |->
                   IF d \in found THEN [jumpTo |-> <<(CHOOSE l \in Named(d) : TRUE)[2]>>]
                   ELSE store[d]]
  BY DEF EndFunctionDefinition
<1>3. found = jumps.pendingGotos BY DEF EndFunctionDefinition
<1>4. Sequence(source) /\ Sequence(store) /\ Len(store) = Len(source) BY DEF Good, TypesOk
<1>5. Len(source) \in Nat /\ DOMAIN source = 1 .. Len(source) BY JumpsType
<1>6. DOMAIN store = 1 .. Len(source) BY <1>4 DEF Sequence
<1>7. /\ jumps.pendingGotos = {g \in DOMAIN source : Tag(g) = "goto" /\ InOpenFunction(g)}
      /\ jumps.namedLabels =
             {<<source[l].name, store[l].label>> :
                 l \in {e \in DOMAIN source : Tag(e) = "label" /\ InOpenFunction(e)}}
  BY <1>1 DEF Good, GotosWait
<1>8. /\ DOMAIN store' = 1 .. Len(source)
      /\ \A d \in DOMAIN source : d \notin jumps.pendingGotos => store'[d] = store[d]
  <2> HIDE DEF found
  <2> QED BY <1>2, <1>3, <1>5, <1>6
<1>9. \A g \in jumps.pendingGotos :
          Named(g) # {} /\ store'[g].jumpTo = <<(CHOOSE l \in Named(g) : TRUE)[2]>>
  <2> SUFFICES ASSUME NEW g \in jumps.pendingGotos
               PROVE  Named(g) # {} /\ store'[g].jumpTo = <<(CHOOSE l \in Named(g) : TRUE)[2]>>
    OBVIOUS
  <2>1. g \in DOMAIN store /\ g \in found BY <1>3, <1>5, <1>6, <1>7
  <2>2. Named(g) # {} BY <2>1
  <2> HIDE DEF found
  <2>3. store'[g] = [jumpTo |-> <<(CHOOSE l \in Named(g) : TRUE)[2]>>] BY <1>2, <2>1
  <2> QED BY <2>2, <2>3
<1> HIDE DEF found
<1>10. Sequence(store') /\ Len(store') = Len(source)
  <2> DEFINE n == Len(source)
             f == store'
  <2>1. n \in Nat BY <1>5
  <2>2. f = [i \in 1 .. n |-> f[i]] BY <1>2, <1>8
  <2> HIDE DEF f, n
  <2>3. Sequence(f) /\ Len(f) = n BY <2>1, <2>2, Tabulated
  <2> QED BY <2>3 DEF f, n
<1>11. Grows BY <1>1, <1>4, <1>5, <1>10 DEF Grows
<1>12. \A d \in DOMAIN source : Tag(d) # "goto" => store'[d] = store[d] BY <1>7, <1>8
<1>13. \A d \in DOMAIN source : Kept(d) BY <1>12 DEF Kept, LoopLike
<1>14. DOMAIN source' \ DOMAIN source = {} BY <1>1
<1>15. ASSUME NEW d \in DOMAIN source PROVE PlacedOk(d)' /\ SettledOk(d)'
  <2>1. ASSUME Tag(d) = "switch" PROVE SwitchOk(d)' BY <1>12, <2>1, <1>11, <1>14, SwitchKept
  <2>2. ASSUME Tag(d) = "goto" PROVE GotoOk(d)'
    <3>1. source[d].path # <<>> BY <2>2 DEF Good, PlacedOk
    <3>2. CASE d \in jumps.pendingGotos
      BY <1>9, <3>2, <1>7, <1>1, <1>13 DEF InOpenFunction, TargetsOf, Tag, Kept, GotoOk
    <3>3. CASE d \notin jumps.pendingGotos
      BY <1>8, <3>3, <1>7, <2>2, <3>1, <1>11, <1>13, GotoKept DEF FunctionEnded, InOpenFunction
    <3> QED BY <3>2, <3>3
  <2> QED BY <1>11, <1>13, <2>1, <2>2, ItemKept
<1>16. PathOk' BY <1>1 DEF ToSet, PathOk, Rising
<1>17. /\ OpenIn(LoopLike) = {} /\ OpenIn({"switch"}) = {}
       /\ OpenIn(LoopLike)' = {} /\ OpenIn({"switch"})' = {}
  BY <1>1 DEF Good, PathOk, Last, ToSet, OpenIn, LoopLike
<1>18. /\ jumps' \in [loopStack : Seq(LoopFrames), switchStack : Seq(Nat),
                      namedLabels : SUBSET (Names \X Nat), pendingGotos : SUBSET Nat,
                      nextLabel : Nat]
       /\ jumps'.loopStack = jumps.loopStack /\ jumps'.switchStack = jumps.switchStack
       /\ jumps'.nextLabel = jumps.nextLabel
  BY <1>1, JumpsType
<1>19. LoopsOpen' /\ SwitchesOpen' BY <1>11, <1>13, <1>17, <1>18, StacksKept
<1>20. LabelsOk' BY <1>18, JumpsType, <1>11, <1>13, <1>14, LabelsKept
<1>21. TypesOk' BY <1>1, <1>4, <1>10, <1>18 DEF Good, TypesOk
<1>22. GotosWait' BY <1>1 DEF GotosWait
<1> QED BY <1>1, <1>15, <1>16, <1>19, <1>20, <1>21, <1>22 DEF Good

-----------------------------------------------------------------------------
LEMMA GoodAtFirst ==
    ASSUME Init
    PROVE  Good
<1>1. source = <<>> /\ path = <<>> /\ store = <<>> /\ menu \in DOMAIN Menus /\ jumps = NoJumps
  BY DEF Init
<1>2. /\ DOMAIN source = {} /\ ToSet(path) = {} /\ DOMAIN path = {} /\ path \in Seq(Nat)
      /\ Sequence(source) /\ Sequence(store) /\ Len(store) = Len(source)
  BY <1>1 DEF ToSet, Sequence
<1>3. /\ jumps.loopStack = <<>> /\ jumps.switchStack = <<>>
      /\ jumps \in [loopStack : Seq(LoopFrames), switchStack : Seq(Nat),
                    namedLabels : SUBSET (Names \X Nat), pendingGotos : SUBSET Nat,
                    nextLabel : Nat]
  BY <1>1 DEF NoJumps
<1>4. TypesOk BY <1>1, <1>2, <1>3 DEF TypesOk
<1>5. PathOk BY <1>2 DEF PathOk, Rising
<1>6. LabelsOk BY <1>2 DEF LabelsOk
<1>7. LoopsOpen
  <2> DEFINE none == <<>>
  <2>1. none \in Seq(Nat) /\ Rising(none) /\ ToSet(none) = {} /\ DOMAIN none = {} /\ Len(none) = 0
    BY DEF Rising, ToSet
  <2>2. OpenIn(LoopLike) = {} BY <1>2 DEF OpenIn
  <2>3. Len(jumps.loopStack) = 0 BY <1>3
  <2> HIDE DEF none
  <2>4. LoopsAt(none) BY <2>1, <2>2, <2>3 DEF LoopsAt
  <2> QED BY <2>4 DEF LoopsOpen
<1>8. SwitchesOpen BY <1>2, <1>3 DEF SwitchesOpen, Rising, ToSet, OpenIn
<1>9. GotosWait BY <1>1 DEF GotosWait
<1> QED BY <1>2, <1>4, <1>5, <1>6, <1>7, <1>8, <1>9 DEF Good

LEMMA GoodNext ==
    ASSUME Good, Next, ~hasErrors'
    PROVE  Good'
<1>1. CASE \E item \in Offered.objects : Declaration(item) BY <1>1, DeclarationGood
<1>2. CASE \E item \in Offered.prototypes : Prototype(item) BY <1>2, PrototypeGood
<1>3. CASE \E item \in Offered.definitions, ps \in Offered.parameters : FunctionDefinition(item, ps)
  BY <1>3, FunctionDefinitionGood
<1>4. CASE \E n \in Offered.names : EnumSpecifier(n) \/ LabeledStatement(n) \/ GotoStatement(n)
  BY <1>4, OfferedDeclarations, EnumSpecifierGood, LabeledStatementGood, GotoStatementGood
<1>5. CASE Block BY <1>5, BlockGood
<1>6. CASE \E l \in Offered.loops : Loop(l[1], l[2]) BY <1>6, LoopGood
<1>7. CASE Switch BY <1>7, SwitchGood
<1>8. CASE \E value \in CaseValues : CaseLabel(value) BY <1>8, CaseLabelGood
<1>9. CASE DefaultLabel BY <1>9, DefaultLabelGood
<1>10. CASE \E kind \in {"break", "continue"} : JumpStatement(kind) BY <1>10, JumpStatementGood
<1>11. CASE EndInner BY <1>11, EndInnerGood
<1>12. CASE EndFunctionDefinition BY <1>12, EndFunctionGood
<1> QED BY <1>1, <1>2, <1>3, <1>4, <1>5, <1>6, <1>7, <1>8, <1>9, <1>10, <1>11, <1>12 DEF Next

(* Nothing is written behind an error.                                     *)
LEMMA NothingBehindErrors ==
    ASSUME Next
    PROVE  ~hasErrors
BY DEF Next, Declaration, Prototype, FunctionDefinition, EnumSpecifier, LabeledStatement,
       GotoStatement, Block, Loop, Switch, CaseLabel, DefaultLabel, JumpStatement, EndInner,
       EndFunctionDefinition, May

(* A unit that has not been refused is well formed for the analyser: its   *)
(* stacks and tables of jumps are those of what is open (the visitor of    *)
(* SemanticAnalysisVisitor_Statements).                                    *)
THEOREM InvHolds == Spec => []Inv
<1>1. Init => Inv BY GoodAtFirst DEF Inv
<1>2. Inv /\ [Next]_vars => Inv'
  BY GoodNext, NothingBehindErrors, Unwritten, PathKept, PlainStep DEF Inv, vars
<1> QED BY <1>1, <1>2, PTL DEF Spec

LEMMA GoodJumps ==
    ASSUME Good
    PROVE  JumpsAsWritten
<1>1. ASSUME NEW d \in DOMAIN source
      PROVE  /\ Tag(d) = "break" => store[d].jumpTo = <<store[Within(d, {"loop", "switch"})].exit>>
             /\ Tag(d) = "continue" => store[d].jumpTo = <<store[Within(d, {"loop"})].cont>>
             /\ Tag(d) = "switch" =>
                    /\ store[d].cases = {<<source[c].value, c>> : c \in OfSwitch(d, "case")}
                    /\ ToSet(store[d].defaultLabel) = OfSwitch(d, "default")
             /\ Tag(d) = "goto" =>
                    (FunctionEnded(d) => \E l \in TargetsOf(d) : store[d].jumpTo = <<store[l].label>>)
  BY DEF Good, SettledOk, BreakOk, LoopLike, ContinueOk, SwitchOk, GotoOk
<1>2. \A d, e \in DOMAIN source : d # e => LabelsAt(d) \cap LabelsAt(e) = {} BY DEF Good, LabelsOk
<1> QED BY <1>1, <1>2 DEF JumpsAsWritten, OfSwitch

(* In a unit that is not refused every break, continue, goto and case goes *)
(* where C says, and no two constructs share a label, whatever the unit.   *)
THEOREM JumpsGoAsWritten == Spec => []JumpsAsWritten
<1>1. Inv => JumpsAsWritten BY GoodJumps DEF JumpsAsWritten, Inv
<1> QED BY <1>1, InvHolds, PTL

=============================================================================
