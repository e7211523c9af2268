------------------------ MODULE CompilerDriverProofs ------------------------
(***************************************************************************)
(* Proofs about CompilerDriver, for any processes and command lines: that  *)
(* the runs of all processes together implement Build, that an input that  *)
(* fails harms no other, and that nothing temporary is left.               *)
(***************************************************************************)
EXTENDS CompilerDriver, SequenceTheorems, TLAPS

----------------------------------------------------------------------------
(* The inductive invariant: for each process, what its state says of the   *)
(* files it uses.                                                          *)

Inside == {"preprocess", "analyse", "open", "generate", "assemble"}

\* The fields no value of which matters here may have any.
StateType(s) ==
    [at : Place, run : Nat \ {0}, input : Nat \ {0}, exitCode : {0, 1},
     outputs : Seq(Seq(Names)), temps : {s.temps}, preprocessed : {s.preprocessed},
     assembly : {s.assembly}, tree : {s.tree}, cache : {s.cache}, frontEnd : {s.frontEnd},
     failed : Seq([input : Nat, at : Place]), killed : BOOLEAN, results : Seq({0, 1})]

\* A run has a result when it has ended, and not before.
ResultsOK(s) ==
    /\ Len(s.results) = IF s.at = "ended" THEN s.run ELSE s.run - 1
    /\ s.killed => s.at = "ended"

\* The temporary files that are there are owned by the input being compiled.
TempsOK(d, s, files) ==
    /\ s.temps \subseteq {TempName(d, "i"), TempName(d, "s")}
    /\ \A x \in {"i", "s"} :
           TempName(d, x) \in DOMAIN files => TempName(d, x) \in s.temps \/ s.killed
    /\ s.at \notin Inside => s.temps = {} \/ s.killed

\* Nobody writes an input.
InputsOK(list, files) ==
    \A n \in DOMAIN list : \A p \in Inputs(list[n]) : p \in DOMAIN files => files[p] = Input(p)

ProgramsOK(list, files) ==
    \A n \in DOMAIN list :
        (list[n].stop = "link" /\ ~Rejected(list[n]) /\ Executable(list[n]) \in DOMAIN files) =>
            files[Executable(list[n])] \in {Old} \cup ProgramOf(list[n])

FailedOf(s) == {s.failed[j].input : j \in DOMAIN s.failed}

\* What the place in Driver::run says of the counters.
PlacesOK(job, s) ==
    /\ s.at \in {"start", "preprocessAll", "load"} =>
           s.input = 1 /\ s.failed = <<>> /\ s.exitCode = 0 /\ s.outputs = <<>>
    /\ s.at \notin {"start", "ended"} => ~Rejected(job)
    /\ s.at = "preprocessAll" => job.stop = "preprocess"
    /\ s.at \in Inside \cup {"load", "next", "link"} => job.stop # "preprocess"
    /\ s.failed # <<>> => job.stop # "preprocess" /\ ~Rejected(job)
    /\ s.at \in Inside => s.input \in DOMAIN job.inputs /\ Compiled(job.inputs[s.input])
    /\ s.input <= Len(job.inputs) + 1
    /\ s.at # "ended" => (s.exitCode = 0 <=> s.failed = <<>>)
    /\ s.at = "link" => s.failed = <<>> /\ job.stop = "link" /\ s.input = Len(job.inputs) + 1
    /\ s.at = "ended" /\ ~s.killed /\ s.failed # <<>> => s.input = Len(job.inputs) + 1
    /\ \A j \in DOMAIN s.failed : s.failed[j].input \in 1 .. s.input - 1

\* What a run without a failure gives to the linker.
ResultOf(job, path) == IF Kind(path) = "object" THEN path ELSE Product(job, path)

OutputsOK(job, s) ==
    s.at # "ended" /\ s.failed = <<>> =>
        /\ Len(s.outputs) = s.input - 1
        /\ \A k \in 1 .. s.input - 1 : s.outputs[k] = ResultOf(job, job.inputs[k])

\* The files of the input being compiled, each where the plan put it.
Preprocessed(d, job, path) ==
    IF PlannedPreprocessed(job, path) = NoPath THEN TempName(d, "i") ELSE PlannedPreprocessed(job, path)

Assembly(d, job, path) ==
    IF PlannedAssembly(job, path) = NoPath THEN TempName(d, "s") ELSE PlannedAssembly(job, path)

\* What they hold, if nobody has removed them.
StageOK(d, job, path, s, files) ==
    /\ s.at \in {"preprocess", "analyse"} =>
           /\ s.preprocessed = Preprocessed(d, job, path)
           /\ PlannedPreprocessed(job, path) = NoPath => TempName(d, "i") \in s.temps
    /\ s.at = "preprocess" => ~SkipPreprocess(job, path)
    /\ s.at = "analyse" /\ s.preprocessed \in DOMAIN files =>
           files[s.preprocessed] = SourceText(job, path)
    /\ s.at \in {"open", "generate"} => s.tree = SourceText(job, path)
    /\ s.at \in {"generate", "assemble"} =>
           /\ s.assembly = Assembly(d, job, path)
           /\ PlannedAssembly(job, path) = NoPath => TempName(d, "s") \in s.temps
    /\ s.at = "assemble" =>
           /\ job.stop # "assembly"
           /\ s.assembly \in DOMAIN files => files[s.assembly] \in AssemblyOf(job, path)

\* A run is past its inputs when it has linked, or has nothing to do with them.
Over(job, s) == job.stop = "preprocess" \/ (s.at = "ended" /\ s.failed = <<>>)

\* The inputs behind it that have not failed have their products.
ProductsOK(job, s, files) ==
    ~Over(job, s) =>
        \A k \in 1 .. s.input - 1 :
            (k \notin FailedOf(s) /\ Kind(job.inputs[k]) # "object") =>
                /\ Product(job, job.inputs[k]) \in DOMAIN files
                /\ files[Product(job, job.inputs[k])] \in ContentOf(job, job.inputs[k])

\* The inputs whose assembly file has not been opened.
Unopened(s, k) ==
    \/ k > s.input
    \/ k = s.input /\ s.at \notin {"generate", "assemble", "ended"}
    \/ \E j \in DOMAIN s.failed : s.failed[j].input = k /\ s.failed[j].at \notin {"generate", "assemble"}

\* Their assembly files are those of an earlier build.
OldOK(job, s, files) ==
    s.run = 1 /\ ~Over(job, s) /\ ~Rejected(job) =>
        \A k \in DOMAIN job.inputs :
            LET path == PlannedAssembly(job, job.inputs[k])
            IN  Unopened(s, k) /\ Compiled(job.inputs[k]) /\ path # NoPath =>
                    path \in DOMAIN files /\ files[path] = Old

RunOK(d, job, s, files) ==
    /\ PlacesOK(job, s) /\ OutputsOK(job, s)
    /\ s.at \in Inside => StageOK(d, job, job.inputs[s.input], s, files)
    /\ ProductsOK(job, s, files) /\ OldOK(job, s, files)

ProcessOK(d, list, s, files) ==
    /\ s \in StateType(s) /\ ResultsOK(s) /\ TempsOK(d, s, files)
    /\ InputsOK(list, files) /\ ProgramsOK(list, files)
    /\ s.run \notin DOMAIN list =>
           list = <<>> /\ s.at = "start" /\ s.run = 1 /\ s.failed = <<>>
    /\ s.run \in DOMAIN list => RunOK(d, list[s.run], s, files)

Inv ==
    /\ jobs \in JobLists /\ DOMAIN driver = Process /\ NoPath \notin DOMAIN file
    /\ \A d \in Process : ProcessOK(d, jobs[d], driver[d], file)

----------------------------------------------------------------------------
(* Files.                                                                  *)

\* Outside W the files are the same before and after.
OnlyChanged(files, after, W) ==
    \A p \in (DOMAIN files \cup DOMAIN after) \ W :
        p \in DOMAIN files /\ p \in DOMAIN after /\ after[p] = files[p]

\* What changed inside a small set changed inside a larger one.
LEMMA ChangedMore ==
    ASSUME NEW files, NEW after, NEW V, NEW W, OnlyChanged(files, after, V), V \subseteq W
    PROVE  OnlyChanged(files, after, W)
BY DEF OnlyChanged

\* Two changes after one another.
LEMMA ChangedTwice ==
    ASSUME NEW files, NEW middle, NEW after, NEW W,
           OnlyChanged(files, middle, W), OnlyChanged(middle, after, W)
    PROVE  OnlyChanged(files, after, W)
BY DEF OnlyChanged

----------------------------------------------------------------------------
(* Paths.                                                                  *)

\* The beginning of a sequence.
LEMMA Beginning ==
    ASSUME NEW S, NEW seq \in Seq(S), NEW n \in Nat, n <= Len(seq)
    PROVE  \E stem \in Seq(S) : /\ stem = SubSeq(seq, 1, n) /\ Len(stem) = n
                                /\ \A i \in 1 .. n : stem[i] = seq[i]
<1>1. PICK one \in Int : one = 1
  OBVIOUS
<1>2. n \in Int /\ \A i \in one .. n : seq[i] \in S
  BY <1>1
<1>3. /\ SubSeq(seq, one, n) \in Seq(S)
      /\ Len(SubSeq(seq, one, n)) = IF one <= n THEN n - one + 1 ELSE 0
      /\ \A i \in 1 .. n - one + 1 : SubSeq(seq, one, n)[i] = seq[one + i - 1]
  BY <1>2, SubSeqProperties
<1>4. PICK stem \in Seq(S) :
          /\ stem = SubSeq(seq, one, n)
          /\ Len(stem) = IF one <= n THEN n - one + 1 ELSE 0
          /\ \A i \in 1 .. n - one + 1 : stem[i] = seq[one + i - 1]
  BY <1>3
<1>5. Len(stem) = n /\ \A i \in 1 .. n : stem[i] = seq[i]
  BY <1>1, <1>4
<1> QED  BY <1>1, <1>4, <1>5

\* One more element.
LEMMA OneMore ==
    ASSUME NEW S, NEW seq \in Seq(S), NEW elt \in S
    PROVE  \E longer \in Seq(S) :
               /\ longer = seq \o <<elt>> /\ longer # <<>> /\ Len(longer) = Len(seq) + 1
               /\ \A i \in 1 .. Len(seq) : longer[i] = seq[i]
               /\ longer[Len(seq) + 1] = elt
<1>1. PICK longer : longer = Append(seq, elt)
  OBVIOUS
<1>2. /\ longer \in Seq(S) /\ longer # <<>> /\ Len(longer) = Len(seq) + 1
      /\ \A i \in 1 .. Len(seq) : longer[i] = seq[i]
      /\ longer[Len(seq) + 1] = elt
  BY <1>1, AppendProperties
<1>3. longer = seq \o <<elt>>
  BY <1>1, AppendIsConcat
<1> QED  BY <1>2, <1>3

\* Another extension.
LEMMA OtherEnd ==
    ASSUME NEW S, NEW seq \in Seq(S), seq # <<>>, NEW elt \in S
    PROVE  \E other \in Seq(S) :
               /\ other = WithExtension(seq, elt) /\ other # <<>> /\ Len(other) = Len(seq)
               /\ \A i \in 1 .. Len(seq) - 1 : other[i] = seq[i]
               /\ other[Len(seq)] = elt
<1>1. PICK n \in Nat : n = Len(seq) - 1
  OBVIOUS
<1>2. n <= Len(seq)
  BY <1>1
<1>7. n + 1 = Len(seq)
  BY <1>1
<1>3. PICK stem \in Seq(S) : /\ stem = SubSeq(seq, 1, n) /\ Len(stem) = n
                             /\ \A i \in 1 .. n : stem[i] = seq[i]
  BY <1>2, Beginning
<1>8. stem \in Seq(S)
  BY <1>3
<1>4. PICK longer \in Seq(S) :
         /\ longer = stem \o <<elt>> /\ longer # <<>> /\ Len(longer) = Len(stem) + 1
         /\ \A i \in 1 .. Len(stem) : longer[i] = stem[i]
         /\ longer[Len(stem) + 1] = elt
  BY <1>8, OneMore
<1>5. longer = WithExtension(seq, elt)
  BY <1>1, <1>3, <1>4 DEF WithExtension
<1>6. /\ Len(longer) = Len(seq) /\ longer[Len(seq)] = elt
      /\ \A i \in 1 .. Len(seq) - 1 : longer[i] = seq[i]
  BY <1>1, <1>7, <1>3, <1>4
<1> QED  BY <1>4, <1>5, <1>6

\* Replacing the extension of a path leaves a path, not a temporary one.
LEMMA ExtensionPath ==
    ASSUME NEW path, IsPath(path), NEW ext \in Names, ext # "tmp"
    PROVE  IsPath(WithExtension(path, ext)) /\ WithExtension(path, ext) # NoPath
<1>1. path \in Seq(Names) /\ path # <<>>
  BY DEF IsPath, NoPath
<1>2. \E other \in Seq(Names) :
         /\ other = WithExtension(path, ext) /\ other # <<>> /\ Len(other) = Len(path)
         /\ \A i \in 1 .. Len(path) - 1 : other[i] = path[i]
         /\ other[Len(path)] = ext
  BY ZenonT(30), <1>1, OtherEnd
<1>3. PICK other \in Seq(Names) :
         /\ other = WithExtension(path, ext) /\ other # <<>> /\ Len(other) = Len(path)
         /\ \A i \in 1 .. Len(path) - 1 : other[i] = path[i]
         /\ other[Len(path)] = ext
  BY <1>2
<1>4. path[1] # "tmp"
  BY DEF IsPath, IsTemp, NoPath
<1>5. other[1] # "tmp" BY <1>3, <1>1, <1>4
<1> QED  BY <1>3, <1>5 DEF IsPath, IsTemp, NoPath

\* So does adding one.
LEMMA AddedPath ==
    ASSUME NEW path, IsPath(path), NEW ext \in Names
    PROVE  IsPath(path \o <<ext>>) /\ path \o <<ext>> # NoPath
BY OneMore DEF IsPath, NoPath, IsTemp

\* gcc names the list of dependencies of a temporary file another temporary one.
LEMMA TempDependencies ==
    ASSUME NEW d PROVE Dependencies(TempName(d, "i")) = TempName(d, "d")
<1>1. ASSUME NEW tmp, NEW i, NEW e PROVE WithExtension(<<tmp, d, i>>, e) = <<tmp, d, e>>
  <2>1. PICK name, new, S : name = <<tmp, d, i>> /\ new = <<tmp, d, e>> /\ S = {tmp, d, i, e}
    OBVIOUS
  <2>2. /\ name \in Seq(S) /\ Len(name) = 3 /\ name[1] = tmp /\ name[2] = d /\ name # <<>>
        /\ new \in Seq(S) /\ Len(new) = 3 /\ new[1] = tmp /\ new[2] = d /\ new[3] = e
        /\ e \in S
    BY <2>1
  <2>7. name \in Seq(S) /\ name # <<>> /\ e \in S
    BY <2>2
  <2>3. PICK other \in Seq(S) :
           /\ other = WithExtension(name, e) /\ other # <<>> /\ Len(other) = Len(name)
           /\ \A k \in 1 .. Len(name) - 1 : other[k] = name[k]
           /\ other[Len(name)] = e
    BY <2>7, OtherEnd
  <2>4. other[1] = tmp /\ other[2] = d /\ other[3] = e /\ Len(other) = Len(new)
    BY <2>2, <2>3
  <2>5. \A k \in 1 .. Len(other) : other[k] = new[k]
    BY <2>2, <2>4
  <2>6. other = new
    BY <2>2, <2>3, <2>4, <2>5, SeqEqual
  <2> QED  BY <2>1, <2>3, <2>6
<1> QED  BY <1>1 DEF TempName, Dependencies

\* No temporary name is the path of a command line, and no two are the same.
LEMMA TempNames ==
    ASSUME NEW d, NEW x \in {"i", "s", "d"}
    PROVE  /\ TempName(d, x) # NoPath /\ ~IsPath(TempName(d, x)) /\ IsTemp(TempName(d, x))
           /\ \A e, y : TempName(d, x) = TempName(e, y) => d = e /\ x = y
BY DEF TempName, NoPath, IsTemp, IsPath

\* What is known of a command line.
LEMMA JobFacts ==
    ASSUME NEW job, JobType(job)
    PROVE  /\ job.inputs \in Seq(Seq(Names)) /\ Len(job.inputs) \in Nat \ {0}
           /\ \A p \in Inputs(job) : IsPath(p)
           /\ \A k \in DOMAIN job.inputs : job.inputs[k] \in Inputs(job)
           /\ DOMAIN job.inputs = 1 .. Len(job.inputs)
           /\ job.output = NoPath \/ IsPath(job.output)
           /\ job.stop \in {"link", "object", "assembly", "preprocess"}
           /\ job.deps \in BOOLEAN /\ job.saveTemps \in BOOLEAN
BY DEF JobType, Inputs, ToSet, StopAfter

----------------------------------------------------------------------------
(* Command lines.                                                          *)

\* The paths the driver plans are paths of a command line, not temporary ones.
LEMMA ObjectIsPath ==
    ASSUME NEW job, JobType(job), NEW path, IsPath(path)
    PROVE  IsPath(ObjectPath(job, path)) /\ ObjectPath(job, path) # NoPath
BY AddedPath, KnownNames, JobFacts DEF ObjectPath

\* So is the program.
LEMMA ExecutableIsPath ==
    ASSUME NEW job, JobType(job) PROVE IsPath(Executable(job)) /\ Executable(job) # NoPath
<1>1. IsPath(job.inputs[1]) BY JobFacts
<1>2. IsPath(job.inputs[1] \o <<"out">>) /\ job.inputs[1] \o <<"out">> # NoPath
  BY <1>1, AddedPath, KnownNames
<1>3. job.output = NoPath \/ IsPath(job.output)
  BY JobFacts
<1> QED  BY <1>2, <1>3, Zenon DEF Executable

\* So are the paths with another extension.
LEMMA ExtensionsArePaths ==
    ASSUME NEW path, IsPath(path)
    PROVE  /\ IsPath(WithExtension(path, "i")) /\ WithExtension(path, "i") # NoPath
           /\ IsPath(WithExtension(path, "s")) /\ WithExtension(path, "s") # NoPath
           /\ IsPath(WithExtension(path, "d")) /\ WithExtension(path, "d") # NoPath
BY KnownNames, ExtensionPath

\* So is what planCompile plans, unless it plans a temporary file.
LEMMA PlannedArePaths ==
    ASSUME NEW job, JobType(job), NEW path, IsPath(path)
    PROVE  /\ PlannedAssembly(job, path) = NoPath \/ IsPath(PlannedAssembly(job, path))
           /\ PlannedPreprocessed(job, path) = NoPath \/ IsPath(PlannedPreprocessed(job, path))
BY JobFacts, ExtensionsArePaths DEF PlannedAssembly, PlannedPreprocessed

\* So is everything a run writes for an input.
LEMMA WrittenForPaths ==
    ASSUME NEW job, JobType(job), NEW path, IsPath(path), NEW q \in WrittenFor(job, path)
    PROVE  q = NoPath \/ IsPath(q)
BY ObjectIsPath, PlannedArePaths, ExtensionsArePaths, Zenon DEF WrittenFor

\* What a run writes are paths of its own, no temporary files.
LEMMA WrittenPaths ==
    ASSUME NEW job, JobType(job), NEW q \in Written(job) PROVE IsPath(q)
BY JobFacts, ExtensionsArePaths, ExecutableIsPath, WrittenForPaths DEF Written, Dependencies

\* A run writes what it writes for its inputs, and the program.
LEMMA WrittenMembers ==
    ASSUME NEW job, job.stop # "preprocess"
    PROVE  /\ \A p \in Inputs(job) : WrittenFor(job, p) \ {NoPath} \subseteq Written(job)
           /\ job.stop = "link" /\ Executable(job) # NoPath => Executable(job) \in Written(job)
BY DEF Written

\* What is made of an input.
LEMMA WrittenForMembers ==
    ASSUME NEW job, NEW path
    PROVE  /\ (job.stop \in {"link", "object"} /\ Kind(path) # "object") =>
                  ObjectPath(job, path) \in WrittenFor(job, path)
           /\ Compiled(path) => PlannedAssembly(job, path) \in WrittenFor(job, path)
           /\ (Compiled(path) /\ ~SkipPreprocess(job, path) /\ job.saveTemps) =>
                  /\ WithExtension(path, "i") \in WrittenFor(job, path)
                  /\ WithExtension(path, "d") \in WrittenFor(job, path)
BY DEF WrittenFor

\* The list of dependencies of path.i goes to path.d.
LEMMA DependenciesOf ==
    ASSUME NEW path, IsPath(path)
    PROVE  Dependencies(WithExtension(path, "i")) = WithExtension(path, "d")
<1>1. ASSUME NEW i \in Names, NEW e \in Names
      PROVE  WithExtension(WithExtension(path, i), e) = WithExtension(path, e)
  <2>1. path \in Seq(Names) /\ path # <<>>
    BY DEF IsPath, NoPath
  <2>2. PICK one \in Seq(Names) :
           /\ one = WithExtension(path, i) /\ one # <<>> /\ Len(one) = Len(path)
           /\ \A k \in 1 .. Len(path) - 1 : one[k] = path[k]
           /\ one[Len(path)] = i
    BY <2>1, OtherEnd
  <2>3. one \in Seq(Names) /\ one # <<>>
    BY <2>2
  <2>4. PICK two \in Seq(Names) :
           /\ two = WithExtension(one, e) /\ two # <<>> /\ Len(two) = Len(one)
           /\ \A k \in 1 .. Len(one) - 1 : two[k] = one[k]
           /\ two[Len(one)] = e
    BY <2>3, OtherEnd
  <2>5. PICK direct \in Seq(Names) :
           /\ direct = WithExtension(path, e) /\ direct # <<>> /\ Len(direct) = Len(path)
           /\ \A k \in 1 .. Len(path) - 1 : direct[k] = path[k]
           /\ direct[Len(path)] = e
    BY <2>1, OtherEnd
  <2>6. Len(two) = Len(direct)
    BY <2>2, <2>4, <2>5
  <2>7. \A k \in 1 .. Len(two) : two[k] = direct[k] BY <2>2, <2>4, <2>5, <2>1
  <2>8. two = direct
    BY <2>4, <2>5, <2>6, <2>7, SeqEqual
  <2> QED  BY <2>2, <2>4, <2>5, <2>8
<1>2. "i" \in Names /\ "d" \in Names
  BY KnownNames
<1> QED  BY <1>1, <1>2 DEF Dependencies

\* An input has one of four kinds, and two of them are compiled.
LEMMA FourKinds ==
    ASSUME NEW path
    PROVE  /\ Kind(path) \in {"object", "assembly", "preprocessed", "source"}
           /\ Compiled(path) <=> Kind(path) \notin {"object", "assembly"}
BY DEF Kind, Compiled

\* The product of an input is a file the run writes for that input.
LEMMA ProductWritten ==
    ASSUME NEW job, JobType(job), ~Rejected(job), job.stop # "preprocess",
           NEW path \in Inputs(job), Kind(path) # "object"
    PROVE  Product(job, path) \in WrittenFor(job, path) /\ Product(job, path) # NoPath
BY JobFacts, FourKinds, ExtensionsArePaths, WrittenForMembers, ObjectIsPath DEF Rejected,
   AnyKind, PlannedAssembly, Product

\* The file the preprocessor writes is a temporary one or one of the run.
LEMMA PreprocessedWritten ==
    ASSUME NEW job, JobType(job), NEW path \in Inputs(job), Compiled(path),
           PlannedPreprocessed(job, path) # NoPath
    PROVE  IF SkipPreprocess(job, path) THEN PlannedPreprocessed(job, path) = path
           ELSE /\ PlannedPreprocessed(job, path) = WithExtension(path, "i")
                /\ PlannedPreprocessed(job, path) \in WrittenFor(job, path)
                /\ Dependencies(PlannedPreprocessed(job, path)) \in WrittenFor(job, path)
BY JobFacts, WrittenForMembers, DependenciesOf DEF PlannedPreprocessed

----------------------------------------------------------------------------
(* What a step does not touch.                                             *)

Temps(d) == {TempName(d, "i"), TempName(d, "s"), TempName(d, "d")}

Agree(files, after, path) ==
    /\ path \in DOMAIN files <=> path \in DOMAIN after
    /\ path \in DOMAIN files => after[path] = files[path]

\* A path outside the ones that changed has not changed.
LEMMA Outside ==
    ASSUME NEW files, NEW after, NEW W, OnlyChanged(files, after, W), NEW path, path \notin W
    PROVE  Agree(files, after, path)
BY DEF OnlyChanged, Agree

\* The state of a run is about its inputs, what it writes and the temporary files.
LEMMA RunUntouched ==
    ASSUME NEW d, NEW job, JobType(job), NEW s, NEW files, NEW after, s.at \in Place,
           RunOK(d, job, s, files), s.input \in Nat \ {0},
           \A q \in Inputs(job) \cup Written(job) \cup Temps(d) : Agree(files, after, q)
    PROVE  RunOK(d, job, s, after)
<1>1. PlacesOK(job, s) /\ OutputsOK(job, s)
  BY DEF RunOK
<1>2. ASSUME s.at \in Inside PROVE StageOK(d, job, job.inputs[s.input], s, after)
  BY <1>1, <1>2, JobFacts, PreprocessedWritten, WrittenMembers, WrittenForMembers DEF RunOK,
     PlacesOK, Preprocessed, Temps, Assembly, StageOK, Agree
<1>3. ProductsOK(job, s, after)
  BY <1>1, JobFacts, ProductWritten, WrittenMembers DEF ProductsOK, PlacesOK, Over, RunOK,
     Agree
<1>4. OldOK(job, s, after)
  BY JobFacts, WrittenForMembers, WrittenMembers DEF OldOK, Over, RunOK, Agree
<1> QED  BY <1>1, <1>2, <1>3, <1>4 DEF RunOK

\* What is known of a list of command lines.
LEMMA ListFacts ==
    ASSUME NEW lists \in JobLists, NEW d \in Process
    PROVE  /\ lists[d] \in Seq(ToSet(lists[d])) /\ Len(lists[d]) \in Nat
           /\ Len(lists[d]) <= MaxRuns /\ DOMAIN lists[d] = 1 .. Len(lists[d])
           /\ \A n \in DOMAIN lists[d] : JobType(lists[d][n])
BY Jobs

\* A step of one process is nothing to another.
LEMMA OthersUntouched ==
    ASSUME NEW lists \in JobLists, NEW d \in Process, NEW e \in Process, d # e,
           NEW m \in DOMAIN lists[d], NEW s, NEW files, NEW after,
           OnlyChanged(files, after, Written(lists[d][m]) \cup Temps(d)),
           ProcessOK(e, lists[e], s, files)
    PROVE  ProcessOK(e, lists[e], s, after)
<1>1. \A n \in DOMAIN lists[e] : JobType(lists[e][n])
  BY ListFacts
<1>2. JobType(lists[d][m])
  BY ListFacts
<1>3. ASSUME NEW n \in DOMAIN lists[e], NEW q \in Inputs(lists[e][n]) \cup Written(lists[e][n])
      PROVE  Agree(files, after, q)
  <2>1. q \notin Written(lists[d][m])
    BY <1>3, FilesApart
  <2>2. IsPath(q)
    BY <1>1, <1>3, JobFacts, WrittenPaths
  <2>3. q \notin Temps(d)
    BY <2>2, TempNames DEF Temps
  <2> QED  BY <2>1, <2>3, Outside
<1>4. ASSUME NEW q \in Temps(e) PROVE Agree(files, after, q)
  BY TempNames, <1>2, WrittenPaths, Outside DEF Temps
<1>5. InputsOK(lists[e], after)
  BY <1>3 DEF ProcessOK, InputsOK, Agree
<1>6. ProgramsOK(lists[e], after)
  BY <1>1, <1>3, ExecutableIsPath, WrittenMembers DEF ProcessOK, ProgramsOK, Agree
<1>7. TempsOK(e, s, after)
  BY <1>4 DEF ProcessOK, TempsOK, Agree, Temps
<1>8. ASSUME s.run \in DOMAIN lists[e] PROVE RunOK(e, lists[e][s.run], s, after)
  BY <1>8, <1>1, <1>3, <1>4, RunUntouched DEF ProcessOK, StateType
<1> QED  BY <1>5, <1>6, <1>7, <1>8 DEF ProcessOK

----------------------------------------------------------------------------
(* What a step leaves as it was in the process that makes it.              *)

\* A step on one input of a run touches no input, no program that is there,
\* and nothing of another input.
LEMMA InputStep ==
    ASSUME NEW lists \in JobLists, NEW d \in Process, NEW n \in DOMAIN lists[d],
           NEW job, job = lists[d][n], ~Rejected(job), job.stop # "preprocess",
           NEW k \in DOMAIN job.inputs, NEW files, NEW after,
           OnlyChanged(files, after, (WrittenFor(job, job.inputs[k]) \ {NoPath}) \cup Temps(d))
    PROVE  /\ OnlyChanged(files, after, Written(job) \cup Temps(d))
           /\ InputsOK(lists[d], files) => InputsOK(lists[d], after)
           /\ ProgramsOK(lists[d], files) => ProgramsOK(lists[d], after)
           /\ \A j \in DOMAIN job.inputs : Agree(files, after, job.inputs[j])
           /\ \A j \in DOMAIN job.inputs \ {k} :
                 /\ Kind(job.inputs[j]) # "object" => Agree(files, after, Product(job, job.inputs[j]))
                 /\ Compiled(job.inputs[j]) /\ PlannedAssembly(job, job.inputs[j]) # NoPath =>
                        Agree(files, after, PlannedAssembly(job, job.inputs[j]))
<1> DEFINE own == WrittenFor(job, job.inputs[k]) \ {NoPath}
<1>1. /\ JobType(job) /\ \A m \in DOMAIN lists[d] : JobType(lists[d][m])
      /\ job.inputs[k] \in Inputs(job)
  BY ListFacts, JobFacts
<1>2. own \subseteq Written(job)
  BY <1>1, WrittenMembers
<1>3. OnlyChanged(files, after, Written(job) \cup Temps(d))
  BY <1>2, ChangedMore
<1>4. ASSUME NEW q, IsPath(q), q \notin own PROVE Agree(files, after, q)
  BY <1>4, TempNames, Outside DEF Temps
<1>5. ASSUME NEW m \in DOMAIN lists[d], NEW p \in Inputs(lists[d][m]) PROVE Agree(files, after, p)
  BY <1>1, <1>5, JobFacts, FilesApart, <1>2, <1>4
<1>6. InputsOK(lists[d], files) => InputsOK(lists[d], after)
  BY <1>5 DEF InputsOK, Agree
<1>7. ASSUME NEW m \in DOMAIN lists[d], lists[d][m].stop = "link", ~Rejected(lists[d][m])
      PROVE  Agree(files, after, Executable(lists[d][m]))
  BY <1>1, ExecutableIsPath, <1>2, <1>7, ProgramsApart, <1>4
<1>8. ProgramsOK(lists[d], files) => ProgramsOK(lists[d], after)
  BY <1>7 DEF ProgramsOK, Agree
<1>9. \A j \in DOMAIN job.inputs : Agree(files, after, job.inputs[j])
  BY <1>1, <1>5, JobFacts
<1>10. ASSUME NEW j \in DOMAIN job.inputs \ {k}, NEW q \in WrittenFor(job, job.inputs[j]), q # NoPath
       PROVE  Agree(files, after, q)
  BY <1>1, JobFacts, <1>10, WrittenForPaths, InputsApart, <1>4 DEF Separate
<1>11. ASSUME NEW j \in DOMAIN job.inputs \ {k}
       PROVE  /\ Kind(job.inputs[j]) # "object" => Agree(files, after, Product(job, job.inputs[j]))
              /\ Compiled(job.inputs[j]) /\ PlannedAssembly(job, job.inputs[j]) # NoPath =>
                        Agree(files, after, PlannedAssembly(job, job.inputs[j]))
  BY <1>1, JobFacts, ProductWritten, WrittenForMembers, <1>10
<1> QED  BY <1>3, <1>6, <1>8, <1>9, <1>11

\* A step that makes a program keeps what is said of the programs that are there.
LEMMA ProgramStep ==
    ASSUME NEW lists \in JobLists, NEW d \in Process, NEW n \in DOMAIN lists[d],
           NEW job, job = lists[d][n], ~Rejected(job), job.stop = "link", NEW files, NEW after,
           OnlyChanged(files, after, {Executable(job)}),
           Executable(job) \in DOMAIN after => after[Executable(job)] \in {Old} \cup ProgramOf(job)
    PROVE  /\ OnlyChanged(files, after, Written(job) \cup Temps(d))
           /\ InputsOK(lists[d], files) => InputsOK(lists[d], after)
           /\ ProgramsOK(lists[d], files) => ProgramsOK(lists[d], after)
           /\ \A q \in Temps(d) : Agree(files, after, q)
<1>1. JobType(job) /\ \A m \in DOMAIN lists[d] : JobType(lists[d][m])
  BY ListFacts
<1>2. Executable(job) \in Written(job) /\ IsPath(Executable(job))
  BY <1>1, ExecutableIsPath, WrittenMembers
<1>3. OnlyChanged(files, after, Written(job) \cup Temps(d))
  BY <1>2, ChangedMore
<1>4. InputsOK(lists[d], files) => InputsOK(lists[d], after)
  BY <1>2, FilesApart, Outside DEF InputsOK, Agree
<1>5. ASSUME NEW m \in DOMAIN lists[d], lists[d][m].stop = "link", ~Rejected(lists[d][m]),
             ProgramsOK(lists[d], files), Executable(lists[d][m]) \in DOMAIN after
      PROVE  after[Executable(lists[d][m])] \in {Old} \cup ProgramOf(lists[d][m])
  BY <1>2, <1>5, ProgramsApart, Outside DEF ProgramsOK, Agree
<1>6. ASSUME NEW q \in Temps(d) PROVE Agree(files, after, q)
  BY <1>2, TempNames, Outside DEF Temps
<1> QED  BY <1>3, <1>4, <1>5, <1>6 DEF ProgramsOK

\* So does one that only preprocesses.
LEMMA PreprocessStep ==
    ASSUME NEW lists \in JobLists, NEW d \in Process, NEW n \in DOMAIN lists[d],
           NEW job, job = lists[d][n], ~Rejected(job), job.stop = "preprocess",
           NEW files, NEW after, OnlyChanged(files, after, Written(job))
    PROVE  /\ InputsOK(lists[d], files) => InputsOK(lists[d], after)
           /\ ProgramsOK(lists[d], files) => ProgramsOK(lists[d], after)
           /\ \A q \in Temps(d) : Agree(files, after, q)
<1>1. JobType(job)
  BY ListFacts
<1>2. InputsOK(lists[d], files) => InputsOK(lists[d], after)
  BY FilesApart, Outside DEF InputsOK, Agree
<1>3. ProgramsOK(lists[d], files) => ProgramsOK(lists[d], after)
  BY ProgramsApart, Outside DEF ProgramsOK, Agree
<1>4. ASSUME NEW q \in Temps(d) PROVE Agree(files, after, q)
  BY <1>1, WrittenPaths, TempNames, Outside DEF Temps
<1> QED  BY <1>2, <1>3, <1>4

----------------------------------------------------------------------------
(* How the state of a process changes.                                     *)

\* The state after an input that has its product.
LEMMA DoneState ==
    ASSUME NEW s, s \in StateType(s), NEW path \in Seq(Names)
    PROVE  \E t : /\ t = InputDone(s, path) /\ t \in StateType(t)
                  /\ t.at = "next" /\ t.input = s.input + 1 /\ t.temps = {}
                  /\ t.outputs = Append(s.outputs, path)
                  /\ t.run = s.run /\ t.exitCode = s.exitCode /\ t.failed = s.failed
                  /\ t.killed = s.killed /\ t.results = s.results
<1>1. PICK more \in Seq(Seq(Names)), place \in Place, next \in Nat \ {0} :
          more = Append(s.outputs, path) /\ place = "next" /\ next = s.input + 1
  <2>1. s.outputs \in Seq(Seq(Names)) /\ s.input \in Nat
    BY DEF StateType
  <2>2. Append(s.outputs, path) \in Seq(Seq(Names))
    BY <2>1, AppendProperties
  <2>3. "next" \in Place
    BY DEF Place
  <2>4. s.input + 1 \in Nat \ {0}
    BY <2>1
  <2> QED  BY <2>2, <2>3, <2>4
<1>2. PICK u : u = LeftCompile(s)
  OBVIOUS
<1>3. /\ u \in StateType(u) /\ u.at = "next" /\ u.input = s.input + 1 /\ u.temps = {}
      /\ u.outputs = s.outputs
      /\ u.run = s.run /\ u.exitCode = s.exitCode /\ u.failed = s.failed
      /\ u.killed = s.killed /\ u.results = s.results
  BY <1>1, <1>2 DEF LeftCompile, StateType
<1>4. PICK t : t = [u EXCEPT !.outputs = more]
  OBVIOUS
<1>5. /\ t \in StateType(t) /\ t.at = "next" /\ t.input = s.input + 1 /\ t.temps = {}
      /\ t.outputs = more
      /\ t.run = s.run /\ t.exitCode = s.exitCode /\ t.failed = s.failed
      /\ t.killed = s.killed /\ t.results = s.results
  BY <1>3, <1>4 DEF StateType
<1>6. t = InputDone(s, path)
  BY <1>1, <1>2, <1>3, <1>4, Zenon DEF InputDone
<1> QED  BY <1>1, <1>5, <1>6

\* The state after an input that has failed.
LEMMA FailedState ==
    ASSUME NEW s, s \in StateType(s)
    PROVE  \E t : /\ t = InputFailed(s) /\ t \in StateType(t)
                  /\ t.at = "next" /\ t.input = s.input + 1 /\ t.temps = {}
                  /\ t.outputs = s.outputs
                  /\ t.run = s.run /\ t.exitCode = 1
                  /\ t.failed = Append(s.failed, [input |-> s.input, at |-> s.at])
                  /\ t.killed = s.killed /\ t.results = s.results
<1>1. PICK place \in Place, next \in Nat \ {0} : place = "next" /\ next = s.input + 1
  BY DEF StateType, Place
<1>2. PICK more \in Seq([input : Nat, at : Place]) :
          more = Append(s.failed, [input |-> s.input, at |-> s.at])
  BY AppendProperties DEF StateType
<1>3. PICK u : u = LeftCompile(s)
  OBVIOUS
<1>4. /\ u \in StateType(u) /\ u.at = "next" /\ u.input = s.input + 1 /\ u.temps = {}
      /\ u.outputs = s.outputs
      /\ u.run = s.run /\ u.exitCode = s.exitCode /\ u.failed = s.failed
      /\ u.killed = s.killed /\ u.results = s.results
  BY <1>1, <1>3 DEF LeftCompile, StateType
<1>5. PICK code \in {0, 1} : code = 1
  OBVIOUS
<1>6. PICK t : t = [u EXCEPT !.exitCode = code, !.failed = more]
  OBVIOUS
<1>7. /\ t \in StateType(t) /\ t.at = "next" /\ t.input = s.input + 1 /\ t.temps = {}
      /\ t.outputs = s.outputs
      /\ t.run = s.run /\ t.exitCode = 1 /\ t.failed = more
      /\ t.killed = s.killed /\ t.results = s.results
  BY <1>4, <1>5, <1>6 DEF StateType
<1>8. t = InputFailed(s)
  BY <1>2, <1>3, <1>5, <1>6, Zenon DEF InputFailed, Failure
<1> QED  BY <1>2, <1>7, <1>8

\* The state after a run.
LEMMA EndState ==
    ASSUME NEW s, s \in StateType(s), NEW code \in {0, 1}
    PROVE  \E t : /\ t = Ends(s, code) /\ t \in StateType(t)
                  /\ t.at = "ended" /\ t.input = s.input /\ t.temps = s.temps
                  /\ t.outputs = s.outputs
                  /\ t.run = s.run /\ t.exitCode = code /\ t.failed = s.failed
                  /\ t.killed = s.killed /\ t.results = Append(s.results, code)
<1>1. PICK more \in Seq({0, 1}), place \in Place : more = Append(s.results, code) /\ place = "ended"
  BY AppendProperties DEF StateType, Place
<1>2. PICK t : t = [s EXCEPT !.at = place, !.exitCode = code, !.results = more]
  OBVIOUS
<1>3. /\ t \in StateType(t) /\ t.at = place /\ t.input = s.input /\ t.temps = s.temps
      /\ t.outputs = s.outputs
      /\ t.run = s.run /\ t.exitCode = code /\ t.failed = s.failed
      /\ t.killed = s.killed /\ t.results = more
  BY <1>2 DEF StateType
<1>4. t = Ends(s, code)
  BY <1>1, <1>2, Zenon DEF Ends
<1> QED  BY <1>1, <1>3, <1>4

----------------------------------------------------------------------------
(* What is said of a process, after a step on an input.                    *)

\* The process makes a step on input k of its run, which writes the files of
\* that input only.
OnInput(lists, d, s, files, after, job, k) ==
    /\ lists \in JobLists /\ d \in Process
    /\ s.run \in DOMAIN lists[d] /\ job = lists[d][s.run]
    /\ s.at \in Inside \cup {"next"} /\ k = s.input /\ k \in DOMAIN job.inputs
    /\ ProcessOK(d, lists[d], s, files)
    /\ OnlyChanged(files, after, (WrittenFor(job, job.inputs[k]) \ {NoPath}) \cup Temps(d))

\* What holds before a step on an input.
LEMMA OnInputFacts ==
    ASSUME NEW lists, NEW d, NEW s, NEW files, NEW after, NEW job, NEW k,
           OnInput(lists, d, s, files, after, job, k)
    PROVE  /\ JobType(job) /\ ~Rejected(job) /\ job.stop # "preprocess"
           /\ job.inputs[k] \in Inputs(job) /\ IsPath(job.inputs[k])
           /\ DOMAIN job.inputs = 1 .. Len(job.inputs) /\ Len(job.inputs) \in Nat
           /\ s \in StateType(s) /\ s.input \in Nat /\ s.run \in Nat
           /\ PlacesOK(job, s) /\ OutputsOK(job, s)
           /\ ProductsOK(job, s, files) /\ OldOK(job, s, files)
           /\ ResultsOK(s) /\ s.at # "ended" /\ ~s.killed /\ TempsOK(d, s, files)
           /\ s.at \in Inside => StageOK(d, job, job.inputs[k], s, files)
BY ListFacts, JobFacts DEF OnInput, ProcessOK, RunOK, PlacesOK, Inside, ResultsOK, StateType

\* A step on an input harms no other input of its run.
LEMMA OnInputStep ==
    ASSUME NEW lists, NEW d, NEW s, NEW files, NEW after, NEW job, NEW k,
           OnInput(lists, d, s, files, after, job, k)
    PROVE  /\ OnlyChanged(files, after, Written(job) \cup Temps(d))
           /\ InputsOK(lists[d], after) /\ ProgramsOK(lists[d], after)
           /\ \A j \in DOMAIN job.inputs : Agree(files, after, job.inputs[j])
           /\ \A j \in DOMAIN job.inputs \ {k} :
                 /\ Kind(job.inputs[j]) # "object" => Agree(files, after, Product(job, job.inputs[j]))
                 /\ Compiled(job.inputs[j]) /\ PlannedAssembly(job, job.inputs[j]) # NoPath =>
                        Agree(files, after, PlannedAssembly(job, job.inputs[j]))
<1>1. PICK n \in DOMAIN lists[d] : n = s.run
  BY DEF OnInput
<1>4. /\ lists \in JobLists /\ d \in Process /\ n \in DOMAIN lists[d] /\ job = lists[d][n]
      /\ k \in DOMAIN job.inputs
      /\ OnlyChanged(files, after, (WrittenFor(job, job.inputs[k]) \ {NoPath}) \cup Temps(d))
  BY <1>1 DEF OnInput
<1>2. InputsOK(lists[d], files) /\ ProgramsOK(lists[d], files)
  BY DEF OnInput, ProcessOK
<1>3. ~Rejected(job) /\ job.stop # "preprocess"
  BY OnInputFacts
<1> QED  BY <1>2, <1>3, <1>4, InputStep

\* The input has its product, and its temporary files are gone.
LEMMA InputDoneKeeps ==
    ASSUME NEW lists, NEW d, NEW s, NEW files, NEW after, NEW job, NEW k,
           OnInput(lists, d, s, files, after, job, k),
           NEW path \in Seq(Names), path = ResultOf(job, job.inputs[k]),
           Kind(job.inputs[k]) # "object" =>
               path \in DOMAIN after /\ after[path] \in ContentOf(job, job.inputs[k]),
           TempName(d, "i") \notin DOMAIN after, TempName(d, "s") \notin DOMAIN after
    PROVE  ProcessOK(d, lists[d], InputDone(s, path), after)
<1>0. k = s.input /\ k \in 1 .. Len(job.inputs) /\ k \in Nat
  BY OnInputFacts DEF OnInput
<1>1. /\ JobType(job) /\ ~Rejected(job) /\ job.stop # "preprocess"
      /\ DOMAIN job.inputs = 1 .. Len(job.inputs) /\ Len(job.inputs) \in Nat
      /\ s \in StateType(s) /\ s.input \in Nat /\ s.run \in Nat
      /\ PlacesOK(job, s) /\ OutputsOK(job, s)
      /\ ProductsOK(job, s, files) /\ OldOK(job, s, files)
      /\ ResultsOK(s) /\ s.at # "ended" /\ ~s.killed
  BY OnInputFacts
<1>2. PICK t : /\ t = InputDone(s, path) /\ t \in StateType(t)
               /\ t.at = "next" /\ t.input = s.input + 1 /\ t.temps = {}
               /\ t.outputs = Append(s.outputs, path)
               /\ t.run = s.run /\ t.exitCode = s.exitCode /\ t.failed = s.failed
               /\ t.killed = s.killed /\ t.results = s.results
  BY <1>1, DoneState
<1>3. /\ InputsOK(lists[d], after) /\ ProgramsOK(lists[d], after)
      /\ \A j \in DOMAIN job.inputs \ {k} :
            /\ Kind(job.inputs[j]) # "object" => Agree(files, after, Product(job, job.inputs[j]))
            /\ Compiled(job.inputs[j]) /\ PlannedAssembly(job, job.inputs[j]) # NoPath =>
                   Agree(files, after, PlannedAssembly(job, job.inputs[j]))
  BY OnInputStep
<1>4. ResultsOK(t) /\ TempsOK(d, t, after)
  BY <1>1, <1>2 DEF ResultsOK, TempsOK
<1>5. PlacesOK(job, t)
  BY <1>0, <1>1, <1>2 DEF PlacesOK, Inside
<1>6. OutputsOK(job, t)
  <2>1. SUFFICES ASSUME t.failed = <<>>
                 PROVE  /\ Len(t.outputs) = t.input - 1
                        /\ \A j \in 1 .. t.input - 1 : t.outputs[j] = ResultOf(job, job.inputs[j])
    BY DEF OutputsOK
  <2>2. /\ Len(s.outputs) = k - 1
        /\ \A j \in 1 .. k - 1 : s.outputs[j] = ResultOf(job, job.inputs[j])
    BY <1>0, <1>1, <1>2, <2>1 DEF OutputsOK
  <2>3. s.outputs \in Seq(Seq(Names))
    BY <1>1 DEF StateType
  <2>4. /\ Len(t.outputs) = Len(s.outputs) + 1
        /\ \A j \in 1 .. Len(s.outputs) : t.outputs[j] = s.outputs[j]
        /\ t.outputs[Len(s.outputs) + 1] = path
    BY <1>2, <2>3, AppendProperties
  <2>5. /\ Len(t.outputs) = k /\ t.input = k + 1 /\ k \in Nat /\ t.outputs[k] = path
        /\ \A j \in 1 .. k - 1 : t.outputs[j] = ResultOf(job, job.inputs[j])
    BY <1>0, <1>1, <1>2, <2>2, <2>4
  <2>6. ASSUME NEW j \in 1 .. k PROVE t.outputs[j] = ResultOf(job, job.inputs[j]) BY <2>5
  <2> QED  BY <2>5, <2>6
<1>7. ProductsOK(job, t, after)
  <2>1. SUFFICES ASSUME NEW j \in 1 .. t.input - 1, j \notin FailedOf(t), Kind(job.inputs[j]) # "object"
                 PROVE  /\ Product(job, job.inputs[j]) \in DOMAIN after
                        /\ after[Product(job, job.inputs[j])] \in ContentOf(job, job.inputs[j])
    BY DEF ProductsOK
  <2>2. CASE j = k
    BY <2>1, <2>2 DEF ResultOf
  <2>3. CASE j # k
    <3>1. j \in 1 .. s.input - 1 /\ j \in DOMAIN job.inputs \ {k}
      BY <1>0, <1>1, <1>2, <2>3
    <3>2. /\ Product(job, job.inputs[j]) \in DOMAIN files
          /\ files[Product(job, job.inputs[j])] \in ContentOf(job, job.inputs[j])
      BY <1>0, <1>1, <1>2, <2>1, <3>1 DEF ProductsOK, Over, FailedOf
    <3> QED  BY <1>3, <2>1, <3>1, <3>2 DEF Agree
  <2> QED  BY <2>2, <2>3
<1>8. OldOK(job, t, after) BY <1>0, <1>1, <1>2, <1>3 DEF OldOK, Unopened, PlacesOK, Over, Agree
<1>9. RunOK(d, job, t, after)
  BY <1>2, <1>5, <1>6, <1>7, <1>8 DEF RunOK, Inside
<1> QED
  BY <1>2, <1>3, <1>4, <1>9 DEF ProcessOK, OnInput

\* The input has failed; its temporary files are gone, and the assembly file
\* of an earlier build is there, if it was not opened.
LEMMA InputFailedKeeps ==
    ASSUME NEW lists, NEW d, NEW s, NEW files, NEW after, NEW job, NEW k,
           OnInput(lists, d, s, files, after, job, k),
           (s.at \notin {"generate", "assemble"} /\ Compiled(job.inputs[k])
            /\ PlannedAssembly(job, job.inputs[k]) # NoPath) =>
               Agree(files, after, PlannedAssembly(job, job.inputs[k])),
           TempName(d, "i") \notin DOMAIN after, TempName(d, "s") \notin DOMAIN after
    PROVE  ProcessOK(d, lists[d], InputFailed(s), after)
<1>0. k = s.input /\ k \in 1 .. Len(job.inputs) /\ k \in Nat
  BY OnInputFacts DEF OnInput
<1>1. /\ JobType(job) /\ ~Rejected(job) /\ job.stop # "preprocess"
      /\ DOMAIN job.inputs = 1 .. Len(job.inputs) /\ Len(job.inputs) \in Nat
      /\ s \in StateType(s) /\ s.input \in Nat /\ s.run \in Nat
      /\ PlacesOK(job, s) /\ OutputsOK(job, s)
      /\ ProductsOK(job, s, files) /\ OldOK(job, s, files)
      /\ ResultsOK(s) /\ s.at # "ended" /\ ~s.killed
  BY OnInputFacts
<1>2. PICK t : /\ t = InputFailed(s) /\ t \in StateType(t)
               /\ t.at = "next" /\ t.input = s.input + 1 /\ t.temps = {}
               /\ t.outputs = s.outputs
               /\ t.run = s.run /\ t.exitCode = 1
               /\ t.failed = Append(s.failed, [input |-> s.input, at |-> s.at])
               /\ t.killed = s.killed /\ t.results = s.results
  BY <1>1, FailedState
<1>3. /\ InputsOK(lists[d], after) /\ ProgramsOK(lists[d], after)
      /\ \A j \in DOMAIN job.inputs \ {k} :
            /\ Kind(job.inputs[j]) # "object" => Agree(files, after, Product(job, job.inputs[j]))
            /\ Compiled(job.inputs[j]) /\ PlannedAssembly(job, job.inputs[j]) # NoPath =>
                   Agree(files, after, PlannedAssembly(job, job.inputs[j]))
  BY OnInputStep
<1>4. ResultsOK(t) /\ TempsOK(d, t, after)
  BY <1>1, <1>2 DEF ResultsOK, TempsOK
<1>5. PICK n \in Nat :
        /\ n = Len(s.failed) /\ DOMAIN s.failed = 1 .. n /\ DOMAIN t.failed = 1 .. n + 1
        /\ t.failed # <<>>
        /\ \A j \in 1 .. n : t.failed[j] = s.failed[j]
        /\ t.failed[n + 1] = [input |-> s.input, at |-> s.at]
  <2>1. s.failed \in Seq([input : Nat, at : Place])
    BY <1>1 DEF StateType
  <2>2. [input |-> s.input, at |-> s.at] \in [input : Nat, at : Place]
    BY <1>1 DEF StateType
  <2>3. PICK new \in [input : Nat, at : Place] : new = [input |-> s.input, at |-> s.at]
    BY <2>2
  <2>4. /\ t.failed # <<>> /\ Len(t.failed) = Len(s.failed) + 1
        /\ t.failed \in Seq([input : Nat, at : Place])
        /\ \A j \in 1 .. Len(s.failed) : t.failed[j] = s.failed[j]
        /\ t.failed[Len(s.failed) + 1] = new
    BY <1>2, <2>1, <2>3, AppendProperties
  <2> QED  BY <2>1, <2>3, <2>4
<1>6. ASSUME NEW j \in DOMAIN t.failed
      PROVE  \/ j \in DOMAIN s.failed /\ t.failed[j] = s.failed[j]
             \/ t.failed[j].input = s.input /\ t.failed[j].at = s.at
  BY <1>5
<1>7. PlacesOK(job, t)
  <2>1. \A j \in DOMAIN t.failed : t.failed[j].input \in 1 .. t.input - 1
    <3>1. TAKE j \in DOMAIN t.failed
    <3>2. CASE j \in DOMAIN s.failed /\ t.failed[j] = s.failed[j]
      <4>1. s.failed[j].input \in 1 .. s.input - 1
        BY <1>1, <3>2 DEF PlacesOK
      <4> QED  BY <1>0, <1>1, <1>2, <3>2, <4>1
    <3>3. CASE t.failed[j].input = s.input /\ t.failed[j].at = s.at
      BY <1>0, <1>1, <1>2, <3>3
    <3> QED  BY <1>6, <3>2, <3>3
  <2> QED  BY SMTT(30), <1>0, <1>1, <1>2, <1>5, <2>1 DEF PlacesOK, Inside
<1>8. OutputsOK(job, t)
  BY <1>5 DEF OutputsOK
<1>9. FailedOf(s) \cup {k} \subseteq FailedOf(t) BY <1>0, <1>5 DEF FailedOf
<1>10. ProductsOK(job, t, after) BY <1>9, <1>0, <1>1, <1>2, <1>3 DEF ProductsOK, Over, Agree
<1>11. OldOK(job, t, after)
  <2>1. SUFFICES ASSUME t.run = 1, NEW j \in DOMAIN job.inputs, Unopened(t, j),
                        Compiled(job.inputs[j]), PlannedAssembly(job, job.inputs[j]) # NoPath
                 PROVE  /\ PlannedAssembly(job, job.inputs[j]) \in DOMAIN after
                        /\ after[PlannedAssembly(job, job.inputs[j])] = Old
    BY DEF OldOK
  <2>2. /\ Unopened(s, j)
        /\ j = k => s.at \notin {"generate", "assemble"}
    BY SMTT(30), <1>0, <1>1, <1>2, <1>6, <2>1 DEF Unopened, PlacesOK
  <2>3. /\ PlannedAssembly(job, job.inputs[j]) \in DOMAIN files
        /\ files[PlannedAssembly(job, job.inputs[j])] = Old
    BY <1>0, <1>1, <1>2, <2>1, <2>2 DEF OldOK, Over
  <2>4. Agree(files, after, PlannedAssembly(job, job.inputs[j]))
    BY <1>3, <2>1, <2>2
  <2> QED  BY <2>3, <2>4 DEF Agree
<1>12. RunOK(d, job, t, after)
  BY <1>2, <1>7, <1>8, <1>10, <1>11 DEF RunOK, Inside
<1> QED
  BY <1>2, <1>3, <1>4, <1>12 DEF ProcessOK, OnInput

\* The process goes on with the input.
LEMMA InsideKeeps ==
    ASSUME NEW lists, NEW d, NEW s, NEW files, NEW after, NEW job, NEW k,
           OnInput(lists, d, s, files, after, job, k), Compiled(job.inputs[k]),
           NEW t, t \in StateType(t), t.at \in Inside,
           t.run = s.run, t.input = s.input, t.exitCode = s.exitCode, t.outputs = s.outputs,
           t.failed = s.failed, t.killed = s.killed, t.results = s.results,
           StageOK(d, job, job.inputs[k], t, after), TempsOK(d, t, after),
           t.at \in {"generate", "assemble"} \/
               /\ s.at \notin {"generate", "assemble"}
               /\ PlannedAssembly(job, job.inputs[k]) # NoPath =>
                      Agree(files, after, PlannedAssembly(job, job.inputs[k]))
    PROVE  ProcessOK(d, lists[d], t, after)
<1>0. k = s.input /\ k \in 1 .. Len(job.inputs) /\ k \in Nat
  BY OnInputFacts DEF OnInput
<1>1. /\ JobType(job) /\ ~Rejected(job) /\ job.stop # "preprocess"
      /\ DOMAIN job.inputs = 1 .. Len(job.inputs) /\ Len(job.inputs) \in Nat
      /\ s \in StateType(s) /\ s.input \in Nat /\ s.run \in Nat
      /\ PlacesOK(job, s) /\ OutputsOK(job, s)
      /\ ProductsOK(job, s, files) /\ OldOK(job, s, files)
      /\ ResultsOK(s) /\ s.at # "ended" /\ ~s.killed
  BY OnInputFacts
<1>2. t.at # "ended" /\ t.at # "link" /\ t.at \notin {"start", "preprocessAll", "load"}
  BY DEF Inside
<1>3. /\ InputsOK(lists[d], after) /\ ProgramsOK(lists[d], after)
      /\ \A j \in DOMAIN job.inputs \ {k} :
            /\ Kind(job.inputs[j]) # "object" => Agree(files, after, Product(job, job.inputs[j]))
            /\ Compiled(job.inputs[j]) /\ PlannedAssembly(job, job.inputs[j]) # NoPath =>
                   Agree(files, after, PlannedAssembly(job, job.inputs[j]))
  BY OnInputStep
<1>4. ResultsOK(t)
  BY <1>1, <1>2 DEF ResultsOK
<1>5. PlacesOK(job, t)
  BY <1>0, <1>1, <1>2 DEF PlacesOK
<1>6. OutputsOK(job, t)
  BY <1>1, <1>2 DEF OutputsOK
<1>7. ProductsOK(job, t, after) BY <1>0, <1>1, <1>3 DEF ProductsOK, FailedOf, Over, Agree
<1>8. OldOK(job, t, after) BY <1>0, <1>3, <1>1 DEF OldOK, Unopened, PlacesOK, Over, Agree
<1>9. RunOK(d, job, t, after)
  BY <1>0, <1>5, <1>6, <1>7, <1>8 DEF RunOK
<1> QED
  BY <1>3, <1>4, <1>9 DEF ProcessOK, OnInput

\* The run ends: with a failed input it has touched no file at its end.
LEMMA EndKeeps ==
    ASSUME NEW lists \in JobLists, NEW d \in Process, NEW s, NEW files, NEW after, NEW job,
           s.run \in DOMAIN lists[d], job = lists[d][s.run], s.at # "ended",
           ProcessOK(d, lists[d], s, files),
           NEW t, t \in StateType(t), NEW code \in {0, 1}, t.at = "ended",
           t.run = s.run, t.input = s.input, t.failed = s.failed,
           t.results = Append(s.results, code),
           (t.failed # <<>> /\ ~t.killed) => t.input = Len(job.inputs) + 1,
           InputsOK(lists[d], after), ProgramsOK(lists[d], after), TempsOK(d, t, after),
           after = files \/ t.failed = <<>>
    PROVE  ProcessOK(d, lists[d], t, after)
<1>1. /\ s \in StateType(s) /\ ResultsOK(s) /\ s.run \in Nat
      /\ PlacesOK(job, s) /\ ProductsOK(job, s, files) /\ OldOK(job, s, files)
  BY DEF ProcessOK, RunOK, StateType
<1>2. ResultsOK(t) BY <1>1, AppendProperties DEF StateType, ResultsOK
<1>3. PlacesOK(job, t)
  BY <1>1 DEF PlacesOK, Inside
<1>4. OutputsOK(job, t)
  BY DEF OutputsOK
<1>5. ProductsOK(job, t, after) BY <1>1 DEF ProductsOK, Over, FailedOf
<1>6. OldOK(job, t, after) BY <1>1 DEF OldOK, Over, Unopened
<1>7. RunOK(d, job, t, after)
  BY <1>3, <1>4, <1>5, <1>6 DEF RunOK, Inside
<1> QED  BY <1>2, <1>7 DEF ProcessOK

----------------------------------------------------------------------------
(* Another place, and what goes with it.                                   *)

\* What no step but the end of an input or a run changes.
SameRun(s, t) ==
    /\ t.run = s.run /\ t.input = s.input /\ t.exitCode = s.exitCode /\ t.outputs = s.outputs
    /\ t.failed = s.failed /\ t.killed = s.killed /\ t.results = s.results

\* The process goes to another place.
LEMMA Move ==
    ASSUME NEW s, s \in StateType(s), NEW place \in Place, NEW t, t = [s EXCEPT !.at = place]
    PROVE  /\ t \in StateType(t) /\ t.at = place /\ SameRun(s, t)
           /\ t.temps = s.temps /\ t.preprocessed = s.preprocessed
           /\ t.assembly = s.assembly /\ t.tree = s.tree
BY DEF StateType, SameRun

ToPreprocessed(s, place, path) == [s EXCEPT !.at = place, !.preprocessed = path]

\* It does with the path of the preprocessed file.
LEMMA MoveToPreprocessed ==
    ASSUME NEW s, s \in StateType(s), NEW place \in Place, NEW path
    PROVE  \E t : /\ t = ToPreprocessed(s, place, path) /\ t \in StateType(t) /\ t.at = place /\ SameRun(s, t)
                  /\ t.temps = s.temps /\ t.preprocessed = path
                  /\ t.assembly = s.assembly /\ t.tree = s.tree
<1>1. PICK t : t = [s EXCEPT !.at = place, !.preprocessed = path]
  OBVIOUS
<1>2. /\ t \in StateType(t) /\ t.at = place /\ SameRun(s, t)
      /\ t.temps = s.temps /\ t.preprocessed = path
      /\ t.assembly = s.assembly /\ t.tree = s.tree
  BY <1>1 DEF StateType, SameRun
<1>3. t = ToPreprocessed(s, place, path)
  BY <1>1, Zenon DEF ToPreprocessed
<1> QED  BY <1>2, <1>3

ToTemporary(s, place, path, temps) == [s EXCEPT !.at = place, !.preprocessed = path, !.temps = temps]

\* It does with a temporary file for the preprocessed one.
LEMMA MoveToTemporary ==
    ASSUME NEW s, s \in StateType(s), NEW place \in Place, NEW path, NEW temps
    PROVE  \E t : /\ t = ToTemporary(s, place, path, temps) /\ t \in StateType(t) /\ t.at = place /\ SameRun(s, t)
                  /\ t.temps = temps /\ t.preprocessed = path
                  /\ t.assembly = s.assembly /\ t.tree = s.tree
<1>1. PICK t : t = [s EXCEPT !.at = place, !.preprocessed = path, !.temps = temps]
  OBVIOUS
<1>2. /\ t \in StateType(t) /\ t.at = place /\ SameRun(s, t)
      /\ t.temps = temps /\ t.preprocessed = path
      /\ t.assembly = s.assembly /\ t.tree = s.tree
  BY <1>1 DEF StateType, SameRun
<1>3. t = ToTemporary(s, place, path, temps)
  BY <1>1, Zenon DEF ToTemporary
<1> QED  BY <1>2, <1>3

WithTree(s, place, tree) == [s EXCEPT !.at = place, !.tree = tree]

\* It does with what was parsed.
LEMMA MoveWithTree ==
    ASSUME NEW s, s \in StateType(s), NEW place \in Place, NEW tree
    PROVE  \E t : /\ t = WithTree(s, place, tree) /\ t \in StateType(t) /\ t.at = place /\ SameRun(s, t)
                  /\ t.temps = s.temps /\ t.preprocessed = s.preprocessed
                  /\ t.assembly = s.assembly /\ t.tree = tree
<1>1. PICK t : t = [s EXCEPT !.at = place, !.tree = tree]
  OBVIOUS
<1>2. /\ t \in StateType(t) /\ t.at = place /\ SameRun(s, t)
      /\ t.temps = s.temps /\ t.preprocessed = s.preprocessed
      /\ t.assembly = s.assembly /\ t.tree = tree
  BY <1>1 DEF StateType, SameRun
<1>3. t = WithTree(s, place, tree)
  BY <1>1, Zenon DEF WithTree
<1> QED  BY <1>2, <1>3

ToAssembly(s, place, path, temps) == [s EXCEPT !.at = place, !.assembly = path, !.temps = temps]

\* It does with the path of the assembly file.
LEMMA MoveToAssembly ==
    ASSUME NEW s, s \in StateType(s), NEW place \in Place, NEW path, NEW temps
    PROVE  \E t : /\ t = ToAssembly(s, place, path, temps) /\ t \in StateType(t) /\ t.at = place /\ SameRun(s, t)
                  /\ t.temps = temps /\ t.preprocessed = s.preprocessed
                  /\ t.assembly = path /\ t.tree = s.tree
<1>1. PICK t : t = [s EXCEPT !.at = place, !.assembly = path, !.temps = temps]
  OBVIOUS
<1>2. /\ t \in StateType(t) /\ t.at = place /\ SameRun(s, t)
      /\ t.temps = temps /\ t.preprocessed = s.preprocessed
      /\ t.assembly = path /\ t.tree = s.tree
  BY <1>1 DEF StateType, SameRun
<1>3. t = ToAssembly(s, place, path, temps)
  BY <1>1, Zenon DEF ToAssembly
<1> QED  BY <1>2, <1>3

\* The cache of the front end is of no consequence.
LEMMA Cached ==
    ASSUME NEW s, s \in StateType(s), NEW cache, NEW t, t = [s EXCEPT !.cache = cache]
    PROVE  /\ t \in StateType(t) /\ t.at = s.at /\ SameRun(s, t) /\ t.temps = s.temps
BY DEF StateType, SameRun

\* Nor is the grammar a run has been given.
LEMMA LoadedState ==
    ASSUME NEW s, s \in StateType(s), NEW grammar
    PROVE  \E t : /\ t = [s EXCEPT !.at = "next", !.frontEnd = grammar]
                  /\ t \in StateType(t) /\ t.at = "next" /\ SameRun(s, t) /\ t.temps = s.temps
<1>1. PICK place \in Place : place = "next"
  BY DEF Place
<1>2. PICK t : t = [s EXCEPT !.at = place, !.frontEnd = grammar]
  OBVIOUS
<1>3. t \in StateType(t) /\ t.at = place /\ SameRun(s, t) /\ t.temps = s.temps
  BY <1>2 DEF StateType, SameRun
<1> QED  BY <1>1, <1>2, <1>3, Zenon

\* A step between the inputs, or before or after all of them.
LEMMA MoveKeeps ==
    ASSUME NEW lists \in JobLists, NEW d \in Process, NEW s, NEW files, NEW job,
           s.run \in DOMAIN lists[d], job = lists[d][s.run],
           s.at \notin Inside \cup {"ended"}, ProcessOK(d, lists[d], s, files),
           NEW t, t \in StateType(t), t.at \notin Inside \cup {"ended"},
           SameRun(s, t), t.temps = s.temps, PlacesOK(job, t)
    PROVE  ProcessOK(d, lists[d], t, files)
<1>1. /\ s \in StateType(s) /\ ResultsOK(s) /\ TempsOK(d, s, files)
      /\ OutputsOK(job, s) /\ ProductsOK(job, s, files) /\ OldOK(job, s, files)
      /\ InputsOK(lists[d], files) /\ ProgramsOK(lists[d], files)
  BY DEF ProcessOK, RunOK
<1>2. ResultsOK(t) /\ TempsOK(d, t, files)
  BY <1>1 DEF ResultsOK, TempsOK, SameRun
<1>3. OutputsOK(job, t)
  BY <1>1 DEF OutputsOK, SameRun
<1>4. ProductsOK(job, t, files)
  BY <1>1 DEF ProductsOK, Over, FailedOf, SameRun
<1>5. OldOK(job, t, files) BY <1>1 DEF Unopened, SameRun, Inside, OldOK, Over
<1>6. RunOK(d, job, t, files)
  BY <1>3, <1>4, <1>5 DEF RunOK
<1>7. t.run \in DOMAIN lists[d] /\ job = lists[d][t.run]
  BY DEF SameRun
<1> QED  BY <1>1, <1>2, <1>6, <1>7 DEF ProcessOK

----------------------------------------------------------------------------
(* The steps.                                                              *)

\* Every file a run promises is there, made from its inputs.
Fulfilled(job, files) ==
    ~Rejected(job) /\ \A p \in DOMAIN Promised(job) : p \in DOMAIN files /\ files[p] \in Promised(job)[p]

\* A step of a run: it writes files of its own only, its process is afterwards
\* as the invariant says, and it ends with success only when it has kept its promises.
Advances(d, t) ==
    /\ jobs' = jobs /\ driver' = [driver EXCEPT ![d] = t]
    /\ driver[d].run \in DOMAIN jobs[d] /\ driver[d].at # "ended"
    /\ OnlyChanged(file, file', Written(Job(d)) \cup Temps(d))
    /\ ProcessOK(d, jobs[d], t, file')
    /\ t.run = driver[d].run
    /\ \/ t.results = driver[d].results
       \/ t.results = Append(driver[d].results, 1)
       \/ t.results = Append(driver[d].results, 0) /\ Fulfilled(Job(d), file')

\* What the invariant says of a process in a run.
LEMMA Busy ==
    ASSUME Inv, NEW d \in Process, Running(d)
    PROVE  /\ jobs \in JobLists /\ driver[d].run \in DOMAIN jobs[d] /\ Job(d) = jobs[d][driver[d].run]
           /\ JobType(Job(d)) /\ driver[d].at # "ended" /\ ~driver[d].killed
           /\ driver[d] \in StateType(driver[d])
           /\ driver[d].input \in Nat \ {0} /\ driver[d].at \in Place
           /\ ProcessOK(d, jobs[d], driver[d], file) /\ RunOK(d, Job(d), driver[d], file)
           /\ PlacesOK(Job(d), driver[d])
           /\ TempsOK(d, driver[d], file)
           /\ InputsOK(jobs[d], file) /\ ProgramsOK(jobs[d], file)
<1>1. ProcessOK(d, jobs[d], driver[d], file) /\ jobs \in JobLists
  BY DEF Inv
<1>2. /\ driver[d] \in StateType(driver[d]) /\ ResultsOK(driver[d]) /\ TempsOK(d, driver[d], file)
      /\ InputsOK(jobs[d], file) /\ ProgramsOK(jobs[d], file)
  BY <1>1 DEF ProcessOK
<1>3. driver[d].run \in Nat \ {0} /\ driver[d].input \in Nat \ {0} /\ driver[d].at \in Place
  BY <1>2 DEF StateType
<1>4. driver[d].run \in DOMAIN jobs[d] /\ driver[d].at # "ended"
  BY <1>1, <1>3, ListFacts DEF Running
<1>5. ~driver[d].killed
  BY <1>2, <1>4 DEF ResultsOK
<1>6. RunOK(d, Job(d), driver[d], file) /\ JobType(Job(d))
  BY <1>1, <1>4, ListFacts DEF ProcessOK, Job
<1>7. PlacesOK(Job(d), driver[d])
  BY <1>6 DEF RunOK
<1> QED  BY <1>1, <1>2, <1>3, <1>4, <1>5, <1>6, <1>7 DEF Job

\* The files of the input the process is at.
OwnFiles(d) == (WrittenFor(Job(d), Path(d)) \ {NoPath}) \cup Temps(d)

\* The process is at an input.
AtInput(d) ==
    /\ Running(d) /\ driver[d].at \in Inside \cup {"next"}
    /\ driver[d].input \in DOMAIN Job(d).inputs

\* Inside compile a process is at an input that is compiled.
LEMMA InsideAtInput ==
    ASSUME Inv, NEW d \in Process, Running(d), driver[d].at \in Inside
    PROVE  AtInput(d) /\ Compiled(Path(d))
BY Busy DEF PlacesOK, AtInput, Path

\* So it is before the next input.
LEMMA MoreAtInput ==
    ASSUME Inv, NEW d \in Process, More(d)
    PROVE  AtInput(d)
BY Busy, JobFacts DEF More, At, AtInput

\* A step that changes the files of the input only.
LEMMA StepOnInput ==
    ASSUME Inv, NEW d \in Process, AtInput(d), OnlyChanged(file, file', OwnFiles(d))
    PROVE  OnInput(jobs, d, driver[d], file, file', Job(d), driver[d].input)
BY Busy DEF OnInput, AtInput, OwnFiles, Path

\* An input that has its product.
LEMMA DoneAdvances ==
    ASSUME Inv, NEW d \in Process, AtInput(d), OnlyChanged(file, file', OwnFiles(d)),
           NEW path \in Seq(Names), path = ResultOf(Job(d), Path(d)),
           Kind(Path(d)) # "object" =>
               path \in DOMAIN file' /\ file'[path] \in ContentOf(Job(d), Path(d)),
           TempName(d, "i") \notin DOMAIN file', TempName(d, "s") \notin DOMAIN file',
           Becomes(d, InputDone(driver[d], path))
    PROVE  Advances(d, InputDone(driver[d], path))
<1>1. OnInput(jobs, d, driver[d], file, file', Job(d), driver[d].input)
  BY StepOnInput
<1>2. ProcessOK(d, jobs[d], InputDone(driver[d], path), file')
  BY <1>1, InputDoneKeeps DEF Path
<1>3. OnlyChanged(file, file', Written(Job(d)) \cup Temps(d))
  BY <1>1, OnInputStep
<1>4. driver[d] \in StateType(driver[d]) /\ driver[d].run \in DOMAIN jobs[d] /\ driver[d].at # "ended"
  BY Busy DEF AtInput
<1>5. PICK t : /\ t = InputDone(driver[d], path)
               /\ t.run = driver[d].run /\ t.results = driver[d].results
  BY <1>4, DoneState
<1> QED  BY <1>2, <1>3, <1>4, <1>5 DEF Advances, Becomes

\* An input that has failed.
LEMMA FailAdvances ==
    ASSUME Inv, NEW d \in Process, AtInput(d), OnlyChanged(file, file', OwnFiles(d)),
           (driver[d].at \notin {"generate", "assemble"} /\ Compiled(Path(d))
            /\ PlannedAssembly(Job(d), Path(d)) # NoPath) =>
               Agree(file, file', PlannedAssembly(Job(d), Path(d))),
           TempName(d, "i") \notin DOMAIN file', TempName(d, "s") \notin DOMAIN file',
           Becomes(d, InputFailed(driver[d]))
    PROVE  Advances(d, InputFailed(driver[d]))
BY StepOnInput, InputFailedKeeps, OnInputStep, Busy, FailedState DEF Path, AtInput, Advances,
   Becomes

\* A step from one stage of compile to the next.
LEMMA InsideAdvances ==
    ASSUME Inv, NEW d \in Process, AtInput(d), OnlyChanged(file, file', OwnFiles(d)),
           Compiled(Path(d)), NEW t, t \in StateType(t), t.at \in Inside, SameRun(driver[d], t),
           StageOK(d, Job(d), Path(d), t, file'), TempsOK(d, t, file'),
           t.at \in {"generate", "assemble"} \/
               /\ driver[d].at \notin {"generate", "assemble"}
               /\ PlannedAssembly(Job(d), Path(d)) # NoPath =>
                      Agree(file, file', PlannedAssembly(Job(d), Path(d))),
           Becomes(d, t)
    PROVE  Advances(d, t)
BY StepOnInput, InsideKeeps, OnInputStep, Busy DEF Path, SameRun, AtInput, Advances, Becomes

\* The end of a run.
LEMMA EndAdvances ==
    ASSUME Inv, NEW d \in Process, Running(d),
           NEW t, t \in StateType(t), NEW code \in {0, 1}, t.at = "ended",
           t.run = driver[d].run, t.input = driver[d].input, t.failed = driver[d].failed,
           t.results = Append(driver[d].results, code),
           (t.failed # <<>> /\ ~t.killed) => t.input = Len(Job(d).inputs) + 1,
           OnlyChanged(file, file', Written(Job(d)) \cup Temps(d)),
           InputsOK(jobs[d], file'), ProgramsOK(jobs[d], file'), TempsOK(d, t, file'),
           file' = file \/ t.failed = <<>>,
           code = 0 => Fulfilled(Job(d), file'),
           Becomes(d, t)
    PROVE  Advances(d, t)
BY Busy, EndKeeps DEF Advances, Becomes

\* A step outside compile that touches no file.
LEMMA MoveAdvances ==
    ASSUME Inv, NEW d \in Process, Running(d), driver[d].at \notin Inside,
           NEW t, t \in StateType(t), t.at \notin Inside \cup {"ended"},
           SameRun(driver[d], t), t.temps = driver[d].temps, PlacesOK(Job(d), t),
           UNCHANGED file, Becomes(d, t)
    PROVE  Advances(d, t)
BY Busy, MoveKeeps DEF OnlyChanged, Advances, Becomes, SameRun

\* Driver::run rejects the command line or goes on with it.
LEMMA StartAdvances ==
    ASSUME Inv, NEW d \in Process, Start(d) PROVE \E t : Advances(d, t)
<1>1. /\ Running(d) /\ driver[d].at = "start" /\ UNCHANGED file
  BY DEF Start, At
<1>2. /\ JobType(Job(d)) /\ driver[d] \in StateType(driver[d]) /\ ~driver[d].killed
      /\ PlacesOK(Job(d), driver[d]) /\ TempsOK(d, driver[d], file)
      /\ InputsOK(jobs[d], file) /\ ProgramsOK(jobs[d], file)
  BY <1>1, Busy
<1>3. CASE Rejected(Job(d))
  BY <1>3, <1>2, EndState, <1>1, EndAdvances DEF Start, PlacesOK, TempsOK, Inside, OnlyChanged
<1>4. CASE ~Rejected(Job(d))
  <2>1. PICK place \in {"preprocessAll", "load", "next"} :
          /\ Becomes(d, [driver[d] EXCEPT !.at = place])
          /\ place = "preprocessAll" <=> Job(d).stop = "preprocess"
    BY <1>4 DEF Start
  <2>2. place \in Place
    BY DEF Place
  <2>3. PICK t : t = [driver[d] EXCEPT !.at = place]
    OBVIOUS
  <2>4. t \in StateType(t) /\ t.at = place /\ SameRun(driver[d], t) /\ t.temps = driver[d].temps
    BY <1>2, <2>2, <2>3, Move
  <2>5. PlacesOK(Job(d), t)
    BY <1>2, JobFacts, <1>1, <1>4, <2>1, <2>4 DEF PlacesOK, SameRun, Inside
  <2>6. t.at \notin Inside \cup {"ended"} /\ driver[d].at \notin Inside
    BY <1>1, <2>4 DEF Inside
  <2>7. Becomes(d, t)
    BY <2>1, <2>3
  <2> QED  BY <1>1, <2>4, <2>5, <2>6, <2>7, MoveAdvances
<1> QED  BY <1>3, <1>4

\* LanguageFrontEnd::load.
LEMMA LoadAdvances ==
    ASSUME Inv, NEW d \in Process, LoadFrontEnd(d) PROVE \E t : Advances(d, t)
<1>1. /\ Running(d) /\ driver[d].at = "load" /\ UNCHANGED file
  BY DEF LoadFrontEnd, At
<1>2. /\ JobType(Job(d)) /\ driver[d] \in StateType(driver[d]) /\ ~driver[d].killed
      /\ PlacesOK(Job(d), driver[d]) /\ TempsOK(d, driver[d], file)
      /\ InputsOK(jobs[d], file) /\ ProgramsOK(jobs[d], file)
  BY <1>1, Busy
<1>3. PICK cache, u : /\ u = [driver[d] EXCEPT !.cache = cache]
                      /\ \/ Becomes(d, [u EXCEPT !.at = "next", !.frontEnd = u.cache.grammar])
                         \/ Becomes(d, Ends(u, 1))
  BY DEF LoadFrontEnd
<1>4. u \in StateType(u) /\ u.at = "load" /\ SameRun(driver[d], u) /\ u.temps = driver[d].temps
  BY <1>1, <1>2, <1>3, Cached
<1>5. CASE Becomes(d, [u EXCEPT !.at = "next", !.frontEnd = u.cache.grammar])
  <2>1. u \in StateType(u)
    BY <1>4
  <2>2. \E t : /\ t = [u EXCEPT !.at = "next", !.frontEnd = u.cache.grammar]
               /\ t \in StateType(t) /\ t.at = "next" /\ SameRun(u, t) /\ t.temps = u.temps
    BY <2>1, LoadedState
  <2>3. PICK t : /\ t = [u EXCEPT !.at = "next", !.frontEnd = u.cache.grammar]
                 /\ t \in StateType(t) /\ t.at = "next" /\ SameRun(u, t) /\ t.temps = u.temps
    BY <2>2
  <2>4. SameRun(driver[d], t)
    BY <1>4, <2>3 DEF SameRun
  <2>5. PlacesOK(Job(d), t)
    BY <1>1, <1>2, <2>3, <2>4 DEF PlacesOK, SameRun, Inside
  <2>6. t.at \notin Inside \cup {"ended"} /\ driver[d].at \notin Inside
    BY <1>1, <2>3 DEF Inside
  <2>7. Becomes(d, t) /\ t.temps = driver[d].temps
    BY <1>4, <1>5, <2>3
  <2> QED  BY <1>1, <2>3, <2>4, <2>5, <2>6, <2>7, MoveAdvances
<1>6. CASE Becomes(d, Ends(u, 1))
  <2>2. PICK t : /\ t = Ends(u, 1) /\ t \in StateType(t)
                 /\ t.at = "ended" /\ t.input = u.input /\ t.temps = u.temps
                 /\ t.run = u.run /\ t.failed = u.failed
                 /\ t.killed = u.killed /\ t.results = Append(u.results, 1)
    BY <1>4, EndState
  <2>3. /\ t.failed = <<>> /\ t.run = driver[d].run /\ t.input = driver[d].input
        /\ t.failed = driver[d].failed /\ t.results = Append(driver[d].results, 1)
        /\ t.killed = driver[d].killed /\ t.temps = driver[d].temps
    BY <1>1, <1>2, <1>4, <2>2 DEF PlacesOK, SameRun
  <2>4. TempsOK(d, t, file)
    BY <1>1, <1>2, <2>2, <2>3 DEF TempsOK, Inside
  <2>5. OnlyChanged(file, file', Written(Job(d)) \cup Temps(d))
    BY <1>1 DEF OnlyChanged
  <2> QED  BY <1>1, <1>2, <1>6, <2>2, <2>3, <2>4, <2>5, EndAdvances
<1> QED  BY <1>3, <1>5, <1>6

\* A killed process leaves the files as they are.
LEMMA KillAdvances ==
    ASSUME Inv, NEW d \in Process, Kill(d) PROVE \E t : Advances(d, t)
<1>1. Running(d) /\ UNCHANGED file /\ Becomes(d, [Ends(driver[d], 1) EXCEPT !.killed = TRUE])
  BY DEF Kill
<1>2. /\ driver[d] \in StateType(driver[d])
      /\ TempsOK(d, driver[d], file) /\ InputsOK(jobs[d], file) /\ ProgramsOK(jobs[d], file)
  BY <1>1, Busy
<1>3. PICK u : /\ u = Ends(driver[d], 1) /\ u \in StateType(u)
               /\ u.at = "ended" /\ u.input = driver[d].input /\ u.temps = driver[d].temps
               /\ u.run = driver[d].run /\ u.failed = driver[d].failed
               /\ u.results = Append(driver[d].results, 1)
  BY <1>2, EndState
<1>4. PICK t : t = [u EXCEPT !.killed = TRUE]
  OBVIOUS
<1>5. /\ t \in StateType(t) /\ t.killed
      /\ t.at = "ended" /\ t.input = u.input /\ t.temps = u.temps
      /\ t.run = u.run /\ t.failed = u.failed /\ t.results = u.results
  BY <1>3, <1>4 DEF StateType
<1>6. TempsOK(d, t, file)
  BY <1>2, <1>3, <1>5 DEF TempsOK
<1>7. OnlyChanged(file, file', Written(Job(d)) \cup Temps(d))
  BY <1>1 DEF OnlyChanged
<1>8. /\ Becomes(d, t) /\ t.input = driver[d].input /\ t.run = driver[d].run
      /\ t.failed = driver[d].failed /\ t.results = Append(driver[d].results, 1)
  BY <1>1, <1>3, <1>4, <1>5
<1> QED  BY <1>1, <1>2, <1>5, <1>6, <1>7, <1>8, EndAdvances

----------------------------------------------------------------------------
(* The steps on an input.                                                  *)

\* Removing the temporary files of an input leaves none.
LEMMA Swept ==
    ASSUME Inv, NEW d \in Process, Running(d), NEW after,
           DOMAIN after \cap driver[d].temps = {},
           NEW new, DOMAIN after \subseteq DOMAIN file \cup new,
           \A q \in new : q \in {TempName(d, "i"), TempName(d, "s")} => q \in driver[d].temps
    PROVE  TempName(d, "i") \notin DOMAIN after /\ TempName(d, "s") \notin DOMAIN after
BY Busy DEF TempsOK

\* Outside compile a process has no temporary file.
LEMMA NoneOutside ==
    ASSUME Inv, NEW d \in Process, Running(d), driver[d].at \notin Inside
    PROVE  /\ driver[d].temps = {}
           /\ TempName(d, "i") \notin DOMAIN file /\ TempName(d, "s") \notin DOMAIN file
BY Busy DEF TempsOK

\* Between two inputs neither.
LEMMA NothingTemporary ==
    ASSUME Inv, NEW d \in Process, At(d, "next")
    PROVE  /\ driver[d].temps = {}
           /\ TempName(d, "i") \notin DOMAIN file /\ TempName(d, "s") \notin DOMAIN file
BY NoneOutside DEF At, Inside

\* A process has no temporary file but its own.
LEMMA TempsOwned ==
    ASSUME Inv, NEW d \in Process, Running(d)
    PROVE  driver[d].temps \subseteq Temps(d) /\ Temps(d) \subseteq OwnFiles(d)
BY Busy DEF TempsOK, Temps, OwnFiles

\* What is known of the input a process is at.
LEMMA InputFacts ==
    ASSUME Inv, NEW d \in Process, AtInput(d)
    PROVE  /\ Running(d) /\ JobType(Job(d)) /\ ~Rejected(Job(d)) /\ Job(d).stop # "preprocess"
           /\ Path(d) \in Inputs(Job(d)) /\ IsPath(Path(d)) /\ Path(d) \in Seq(Names)
           /\ Path(d) \in DOMAIN file => file[Path(d)] = Input(Path(d))
<1>1. Running(d) /\ driver[d].at \in Inside \cup {"next"} /\ driver[d].input \in DOMAIN Job(d).inputs
  BY DEF AtInput
<1>2. /\ JobType(Job(d)) /\ PlacesOK(Job(d), driver[d]) /\ InputsOK(jobs[d], file)
      /\ driver[d].run \in DOMAIN jobs[d] /\ Job(d) = jobs[d][driver[d].run]
  BY <1>1, Busy
<1>3. ~Rejected(Job(d)) /\ Job(d).stop # "preprocess"
  BY <1>1, <1>2 DEF PlacesOK, Inside
<1>4. Path(d) \in Inputs(Job(d)) /\ IsPath(Path(d))
  BY <1>1, <1>2, JobFacts DEF Path
<1> QED  BY <1>1, <1>2, <1>3, <1>4 DEF InputsOK, IsPath

\* An object file is passed on to the linker as it is.
LEMMA TakeObjectAdvances ==
    ASSUME Inv, NEW d \in Process, TakeObject(d) PROVE \E t : Advances(d, t)
BY MoreAtInput, InputFacts, NothingTemporary, DoneAdvances DEF TakeObject, More, OnlyChanged,
   ResultOf

\* An assembly file is assembled, or is not.
LEMMA AssembleFileAdvances ==
    ASSUME Inv, NEW d \in Process, AssembleFile(d) PROVE \E t : Advances(d, t)
<1>1. More(d) /\ Kind(Path(d)) = "assembly"
  BY DEF AssembleFile
<1>2. AtInput(d) /\ At(d, "next") /\ Running(d)
  BY <1>1, MoreAtInput DEF More, At
<1>3. /\ JobType(Job(d)) /\ ~Rejected(Job(d)) /\ Job(d).stop # "preprocess"
      /\ Path(d) \in Inputs(Job(d)) /\ IsPath(Path(d))
      /\ Path(d) \in DOMAIN file => file[Path(d)] = Input(Path(d))
  BY <1>2, InputFacts
<1>4. PICK object : object = ObjectPath(Job(d), Path(d))
  OBVIOUS
<1>5. Job(d).stop \in {"link", "object"}
  BY <1>1, <1>3, JobFacts DEF Rejected, AnyKind
<1>6. object \in OwnFiles(d) /\ IsPath(object) /\ object # NoPath
  BY <1>1, <1>3, <1>4, <1>5, ObjectIsPath, WrittenForMembers DEF OwnFiles
<1>7. TempName(d, "i") \notin DOMAIN file /\ TempName(d, "s") \notin DOMAIN file
  BY <1>2, NothingTemporary
<1>8. CASE /\ Exists(Path(d)) /\ file' = Write(file, object, <<"o", file[Path(d)]>>)
           /\ Becomes(d, InputDone(driver[d], object))
  <2>1. /\ DOMAIN file' = DOMAIN file \cup {object} /\ file'[object] = <<"o", file[Path(d)]>>
        /\ OnlyChanged(file, file', {object})
    BY <1>8 DEF Write, OnlyChanged
  <2>2. OnlyChanged(file, file', OwnFiles(d))
    BY <1>6, <2>1, ChangedMore
  <2>3. TempName(d, "i") \notin DOMAIN file' /\ TempName(d, "s") \notin DOMAIN file'
    BY <1>6, <1>7, <2>1, TempNames
  <2>4. object \in Seq(Names) /\ object = ResultOf(Job(d), Path(d))
    BY <1>1, <1>4, <1>5, <1>6 DEF ResultOf, Product, IsPath
  <2>5. file'[object] \in ContentOf(Job(d), Path(d))
    BY <1>3, <1>8, <2>1, <1>1, <1>5 DEF Exists, ContentOf, ObjectOf
  <2>6. Advances(d, InputDone(driver[d], object))
    BY <1>2, <1>8, <2>1, <2>2, <2>3, <2>4, <2>5, DoneAdvances
  <2> QED  BY <2>6
<1>9. CASE ToolFails(object) /\ Becomes(d, InputFailed(driver[d]))
  BY <1>9, <1>6, ChangedMore, <1>7, <1>1, <1>2, FailAdvances DEF ToolFails, Without,
     OnlyChanged, Compiled
<1> QED  BY <1>4, <1>8, <1>9 DEF AssembleFile

\* No temporary file is a planned assembly file.
LEMMA PlannedNotTemporary ==
    ASSUME Inv, NEW d \in Process, AtInput(d), PlannedAssembly(Job(d), Path(d)) # NoPath
    PROVE  PlannedAssembly(Job(d), Path(d)) \notin Temps(d)
BY InputFacts, PlannedArePaths, TempNames DEF Temps

\* A step of compile that fails before it has written anything.
LEMMA FailsAdvances ==
    ASSUME Inv, NEW d \in Process, AtInput(d), Fails(d) PROVE \E t : Advances(d, t)
<1>1. file' = Without(file, driver[d].temps) /\ Becomes(d, InputFailed(driver[d]))
  BY DEF Fails, Left
<1>2. /\ DOMAIN file' = DOMAIN file \ driver[d].temps
      /\ OnlyChanged(file, file', driver[d].temps)
  BY <1>1 DEF Without, OnlyChanged
<1>3. Running(d)
  BY DEF AtInput
<1>4. driver[d].temps \subseteq Temps(d) /\ Temps(d) \subseteq OwnFiles(d)
  BY <1>3, TempsOwned
<1>5. OnlyChanged(file, file', OwnFiles(d))
  BY <1>2, <1>4, ChangedMore
<1>6. TempName(d, "i") \notin DOMAIN file' /\ TempName(d, "s") \notin DOMAIN file'
  BY <1>2, <1>3, Swept
<1>7. ASSUME PlannedAssembly(Job(d), Path(d)) # NoPath
      PROVE  Agree(file, file', PlannedAssembly(Job(d), Path(d)))
  BY <1>4, <1>7, PlannedNotTemporary, <1>2, Outside
<1>8. Advances(d, InputFailed(driver[d]))
  BY <1>1, <1>5, <1>6, <1>7, FailAdvances
<1> QED  BY <1>8

\* The preprocessed file is planned, or a temporary one is created.
LEMMA CompileAdvances ==
    ASSUME Inv, NEW d \in Process, Compile(d) PROVE \E t : Advances(d, t)
<1>1. More(d) /\ Compiled(Path(d))
  BY DEF Compile
<1>2. AtInput(d) /\ At(d, "next") /\ Running(d) /\ driver[d].at = "next"
  BY <1>1, MoreAtInput DEF More, At
<1>3. /\ JobType(Job(d)) /\ Path(d) \in Inputs(Job(d)) /\ IsPath(Path(d)) /\ Path(d) # NoPath
      /\ Path(d) \in DOMAIN file => file[Path(d)] = Input(Path(d))
  BY <1>2, InputFacts DEF IsPath
<1>4. /\ driver[d].temps = {}
      /\ TempName(d, "i") \notin DOMAIN file /\ TempName(d, "s") \notin DOMAIN file
  BY <1>2, NothingTemporary
<1>5. driver[d] \in StateType(driver[d])
  BY <1>2, Busy
<1>6. PICK planned, place :
         /\ planned = PlannedPreprocessed(Job(d), Path(d))
         /\ place = IF SkipPreprocess(Job(d), Path(d)) THEN "analyse" ELSE "preprocess"
  OBVIOUS
<1>10. place \in Place
  BY <1>6 DEF Place
<1>7. place \in Inside /\ place \notin {"open", "generate", "assemble"}
  BY <1>6 DEF Inside
<1>8. CASE planned # NoPath
  <2>1. Becomes(d, [driver[d] EXCEPT !.at = place, !.preprocessed = planned]) /\ UNCHANGED file
    BY <1>6, <1>8 DEF Compile
  <2>2. PICK t : /\ t = ToPreprocessed(driver[d], place, planned)
                 /\ t \in StateType(t) /\ t.at = place /\ SameRun(driver[d], t)
                 /\ t.temps = driver[d].temps /\ t.preprocessed = planned
                 /\ t.assembly = driver[d].assembly /\ t.tree = driver[d].tree
    BY <1>5, <1>10, MoveToPreprocessed
  <2>3. /\ t \in StateType(t) /\ t.at = place /\ SameRun(driver[d], t)
        /\ t.temps = driver[d].temps /\ t.preprocessed = planned
    BY <2>2
  <2>4. OnlyChanged(file, file', OwnFiles(d)) /\ Agree(file, file', PlannedAssembly(Job(d), Path(d)))
    BY <2>1 DEF OnlyChanged, Agree
  <2>5. TempsOK(d, t, file')
    BY <1>4, <2>1, <2>3 DEF TempsOK
  <2>6. StageOK(d, Job(d), Path(d), t, file')
    BY <1>6, <1>8, <1>3, <1>7, <2>1, <2>3 DEF Preprocessed, PlannedPreprocessed, SourceText,
       StageOK
  <2>7. Becomes(d, t)
    BY <2>1, <2>2 DEF ToPreprocessed
  <2>8. Advances(d, t)
    BY <1>1, <1>2, <1>7, <2>3, <2>4, <2>5, <2>6, <2>7, InsideAdvances
  <2> QED  BY <2>8
<1>9. CASE planned = NoPath
  <2>1. PICK temp : temp = TempName(d, "i")
    OBVIOUS
  <2>2. \/ /\ Becomes(d, [driver[d] EXCEPT !.at = place, !.preprocessed = temp, !.temps = {temp}])
           /\ file' = Write(file, temp, Empty)
        \/ Fails(d)
    BY <1>6, <1>9, <2>1 DEF Compile
  <2>3. CASE Fails(d)
    BY <1>2, <2>3, FailsAdvances
  <2>4. CASE /\ Becomes(d, [driver[d] EXCEPT !.at = place, !.preprocessed = temp, !.temps = {temp}])
             /\ file' = Write(file, temp, Empty)
    <3>11. PICK temps : temps = {temp}
      OBVIOUS
    <3>1. PICK t : /\ t = ToTemporary(driver[d], place, temp, temps)
                   /\ t \in StateType(t) /\ t.at = place /\ SameRun(driver[d], t)
                   /\ t.temps = temps /\ t.preprocessed = temp
                   /\ t.assembly = driver[d].assembly /\ t.tree = driver[d].tree
      BY <1>5, <1>10, MoveToTemporary
    <3>2. /\ t \in StateType(t) /\ t.at = place /\ SameRun(driver[d], t)
          /\ t.temps = temps /\ t.preprocessed = temp
      BY <3>1
    <3>3. DOMAIN file' = DOMAIN file \cup {temp} /\ OnlyChanged(file, file', {temp})
      BY <2>4 DEF Write, OnlyChanged
    <3>4. temp \in Temps(d) /\ temp # TempName(d, "s")
      BY <2>1, TempNames DEF Temps
    <3>5. OnlyChanged(file, file', OwnFiles(d))
      BY <3>3, <3>4, ChangedMore DEF OwnFiles
    <3>6. TempsOK(d, t, file')
      BY <1>4, <2>1, <3>11, <3>2, <3>3, <3>4, <1>7 DEF TempsOK
    <3>7. StageOK(d, Job(d), Path(d), t, file')
      BY <1>3, <1>6, <1>9, <2>1, <3>11, <3>2 DEF PlannedPreprocessed, Preprocessed, StageOK
    <3>8. ASSUME PlannedAssembly(Job(d), Path(d)) # NoPath
          PROVE  Agree(file, file', PlannedAssembly(Job(d), Path(d)))
      BY <1>2, <3>4, <3>8, PlannedNotTemporary, <3>3, Outside
    <3>9. Becomes(d, t)
      BY <2>4, <3>1, <3>11 DEF ToTemporary
    <3>10. Advances(d, t)
      BY <1>1, <1>2, <1>7, <3>2, <3>5, <3>6, <3>7, <3>8, <3>9, InsideAdvances
    <3> QED  BY <3>10
  <2> QED  BY <2>2, <2>3, <2>4
<1> QED  BY <1>8, <1>9

\* The preprocessed file and the list of its dependencies are two files.
LEMMA ExtensionsDiffer ==
    ASSUME NEW path, IsPath(path)
    PROVE  WithExtension(path, "i") # WithExtension(path, "d")
<1>1. ASSUME NEW S, NEW seq \in Seq(S), seq # <<>>, NEW x \in S, NEW y \in S, x # y
      PROVE  WithExtension(seq, x) # WithExtension(seq, y)
  <2>1. \E one \in Seq(S) :
                        /\ one = WithExtension(seq, x) /\ one # <<>> /\ Len(one) = Len(seq)
                        /\ \A i \in 1 .. Len(seq) - 1 : one[i] = seq[i]
                        /\ one[Len(seq)] = x
    BY ZenonT(30), <1>1, OtherEnd
  <2>2. \E one \in Seq(S) :
                        /\ one = WithExtension(seq, y) /\ one # <<>> /\ Len(one) = Len(seq)
                        /\ \A i \in 1 .. Len(seq) - 1 : one[i] = seq[i]
                        /\ one[Len(seq)] = y
    BY ZenonT(30), <1>1, OtherEnd
  <2> QED  BY <1>1, <2>1, <2>2
<1>2. path \in Seq(Names) /\ path # <<>>
  BY DEF IsPath, NoPath
<1>3. "i" \in Names /\ "d" \in Names /\ "i" # "d"
  BY KnownNames
<1> QED  BY <1>1, <1>2, <1>3

\* The state of a process inside compile, and its files.
LEMMA InsideFacts ==
    ASSUME Inv, NEW d \in Process, At(d, driver[d].at), driver[d].at \in Inside
    PROVE  /\ AtInput(d) /\ Running(d) /\ Compiled(Path(d))
           /\ JobType(Job(d)) /\ ~Rejected(Job(d)) /\ Job(d).stop # "preprocess"
           /\ Path(d) \in Inputs(Job(d)) /\ IsPath(Path(d)) /\ Path(d) # NoPath
           /\ Path(d) \in DOMAIN file => file[Path(d)] = Input(Path(d))
           /\ driver[d] \in StateType(driver[d]) /\ ~driver[d].killed
           /\ StageOK(d, Job(d), Path(d), driver[d], file)
           /\ TempsOK(d, driver[d], file)
           /\ driver[d].temps \subseteq Temps(d) /\ Temps(d) \subseteq OwnFiles(d)
           /\ PlannedAssembly(Job(d), Path(d)) # NoPath =>
                  /\ PlannedAssembly(Job(d), Path(d)) \notin Temps(d)
                  /\ PlannedAssembly(Job(d), Path(d)) \in OwnFiles(d)
                  /\ IsPath(PlannedAssembly(Job(d), Path(d)))
BY InsideAtInput, InputFacts, Busy, TempsOwned, PlannedNotTemporary, PlannedArePaths,
   WrittenForMembers DEF At, RunOK, Path, OwnFiles, IsPath

\* Where the preprocessor writes.
LEMMA PreprocessedFacts ==
    ASSUME Inv, NEW d \in Process, At(d, "preprocess")
    PROVE  LET target == driver[d].preprocessed
           IN  /\ target \in OwnFiles(d) /\ Dependencies(target) \in OwnFiles(d)
               /\ target # Dependencies(target)
               /\ TempName(d, "s") # target /\ TempName(d, "s") # Dependencies(target)
               /\ TempName(d, "i") = target => target \in driver[d].temps
               /\ TempName(d, "i") # Dependencies(target)
               /\ PlannedAssembly(Job(d), Path(d)) # NoPath =>
                      PlannedAssembly(Job(d), Path(d)) \notin {target, Dependencies(target)}
<1>1. /\ driver[d].at = "preprocess" /\ Running(d) /\ At(d, driver[d].at) /\ driver[d].at \in Inside
  BY DEF At, Inside
<1>2. /\ Compiled(Path(d)) /\ JobType(Job(d)) /\ ~Rejected(Job(d)) /\ Path(d) \in Inputs(Job(d))
      /\ StageOK(d, Job(d), Path(d), driver[d], file) /\ IsPath(Path(d))
      /\ PlannedAssembly(Job(d), Path(d)) # NoPath => PlannedAssembly(Job(d), Path(d)) \notin Temps(d)
      /\ Temps(d) \subseteq OwnFiles(d)
  BY <1>1, InsideFacts
<1>3. PICK target : target = driver[d].preprocessed
  OBVIOUS
<1>4. /\ target = Preprocessed(d, Job(d), Path(d)) /\ ~SkipPreprocess(Job(d), Path(d))
      /\ PlannedPreprocessed(Job(d), Path(d)) = NoPath => TempName(d, "i") \in driver[d].temps
  BY <1>1, <1>2, <1>3 DEF StageOK
<1>5. CASE PlannedPreprocessed(Job(d), Path(d)) = NoPath
  BY <1>4, <1>5, TempDependencies, TempNames, <1>2, <1>3 DEF Preprocessed, Temps
<1>6. CASE PlannedPreprocessed(Job(d), Path(d)) # NoPath
  <2>1. /\ target = WithExtension(Path(d), "i") /\ target \in WrittenFor(Job(d), Path(d))
        /\ Dependencies(target) \in WrittenFor(Job(d), Path(d))
        /\ Dependencies(target) = WithExtension(Path(d), "d")
    BY <1>2, <1>4, <1>6, PreprocessedWritten, DependenciesOf DEF Preprocessed
  <2>2. /\ IsPath(target) /\ target # NoPath
        /\ IsPath(Dependencies(target)) /\ Dependencies(target) # NoPath
    BY <1>2, <2>1, ExtensionsArePaths
  <2>3. target \in OwnFiles(d) /\ Dependencies(target) \in OwnFiles(d)
    BY <2>1, <2>2 DEF OwnFiles
  <2>4. PlannedAssembly(Job(d), Path(d)) \notin {WithExtension(Path(d), "i"), WithExtension(Path(d), "d")}
    BY <1>1, Busy, <1>2, InputsApart DEF Separate
  <2>5. ~IsPath(TempName(d, "i")) /\ ~IsPath(TempName(d, "s"))
    BY TempNames
  <2>6. target # Dependencies(target)
    BY <1>2, <2>1, ExtensionsDiffer
  <2> QED  BY <1>3, <2>1, <2>2, <2>3, <2>4, <2>5, <2>6
<1> QED  BY <1>5, <1>6

\* The preprocessor writes the text and may write its dependencies.
LEMMA PreprocessAdvances ==
    ASSUME Inv, NEW d \in Process, Preprocess(d) PROVE \E t : Advances(d, t)
<1>1. /\ At(d, "preprocess") /\ Exists(Path(d)) /\ driver[d].at = "preprocess"
      /\ Becomes(d, [driver[d] EXCEPT !.at = "analyse"])
  BY DEF Preprocess, At
<1>2. At(d, driver[d].at) /\ driver[d].at \in Inside
  BY <1>1 DEF Inside
<1>3. /\ AtInput(d) /\ Compiled(Path(d)) /\ driver[d] \in StateType(driver[d]) /\ ~driver[d].killed
      /\ StageOK(d, Job(d), Path(d), driver[d], file) /\ TempsOK(d, driver[d], file)
      /\ Path(d) \in DOMAIN file => file[Path(d)] = Input(Path(d))
  BY <1>2, InsideFacts
<1>4. PICK target, listed :
         /\ target = driver[d].preprocessed /\ listed = Dependencies(target)
         /\ target \in OwnFiles(d) /\ listed \in OwnFiles(d) /\ target # listed
         /\ TempName(d, "s") # target /\ TempName(d, "s") # listed
         /\ TempName(d, "i") = target => target \in driver[d].temps
         /\ TempName(d, "i") # listed
         /\ PlannedAssembly(Job(d), Path(d)) # NoPath =>
                PlannedAssembly(Job(d), Path(d)) \notin {target, listed}
  BY <1>1, PreprocessedFacts
<1>5. PICK text : text = Write(file, target, <<"i", file[Path(d)]>>)
  OBVIOUS
<1>6. \/ file' = text
      \/ file' = Write(text, listed, <<"d", Path(d)>>)
  BY <1>4, <1>5 DEF Preprocess
<1>7. /\ DOMAIN text = DOMAIN file \cup {target} /\ text[target] = <<"i", file[Path(d)]>>
      /\ OnlyChanged(file, text, {target, listed})
  BY <1>5 DEF Write, OnlyChanged
<1>8. /\ DOMAIN file' \subseteq DOMAIN file \cup {target, listed}
      /\ OnlyChanged(text, file', {target, listed})
  BY <1>6, <1>7 DEF Write, OnlyChanged
<1>9. OnlyChanged(file, file', {target, listed})
  BY <1>7, <1>8, ChangedTwice
<1>10. OnlyChanged(file, file', OwnFiles(d))
  BY <1>4, <1>9, ChangedMore
<1>11. PICK place \in Place : place = "analyse"
  BY DEF Place
<1>12. PICK t : t = [driver[d] EXCEPT !.at = place]
  OBVIOUS
<1>13. /\ t \in StateType(t) /\ t.at = place /\ SameRun(driver[d], t)
       /\ t.temps = driver[d].temps /\ t.preprocessed = target
  BY <1>3, <1>4, <1>11, <1>12, Move
<1>14. TempsOK(d, t, file')
  BY <1>3, <1>2, <1>4, <1>8, <1>11, <1>13 DEF TempsOK, Inside
<1>15. StageOK(d, Job(d), Path(d), t, file')
  BY <1>1, <1>3, <1>4, <1>13, <1>6, <1>7, <1>11 DEF StageOK, Write, SourceText, Exists
<1>16. ASSUME PlannedAssembly(Job(d), Path(d)) # NoPath
       PROVE  Agree(file, file', PlannedAssembly(Job(d), Path(d)))
  BY <1>4, <1>9, <1>16, Outside
<1>17. Becomes(d, t)
  BY <1>1, <1>11, <1>12
<1>18. t.at \in Inside /\ driver[d].at \notin {"generate", "assemble"}
  BY <1>1, <1>11, <1>13 DEF Inside
<1>19. Advances(d, t)
  BY <1>3, <1>10, <1>13, <1>14, <1>15, <1>16, <1>17, <1>18, InsideAdvances
<1> QED  BY <1>19

\* A step of compile that fails and leaves none of its temporary files.
LEMMA InputFails ==
    ASSUME Inv, NEW d \in Process, AtInput(d), NEW W, W \subseteq OwnFiles(d),
           OnlyChanged(file, file', W), DOMAIN file' \cap driver[d].temps = {},
           NEW new, DOMAIN file' \subseteq DOMAIN file \cup new,
           \A q \in new : q \in {TempName(d, "i"), TempName(d, "s")} => q \in driver[d].temps,
           (driver[d].at \notin {"generate", "assemble"} /\ Compiled(Path(d))
            /\ PlannedAssembly(Job(d), Path(d)) # NoPath) => PlannedAssembly(Job(d), Path(d)) \notin W,
           Becomes(d, InputFailed(driver[d]))
    PROVE  \E t : Advances(d, t)
BY Swept, ChangedMore, Outside, FailAdvances DEF AtInput

\* The preprocessor fails and may remove what it has written.
LEMMA PreprocessFailsAdvances ==
    ASSUME Inv, NEW d \in Process, PreprocessFails(d) PROVE \E t : Advances(d, t)
<1>1. PICK gone \in {{}, {driver[d].preprocessed}} : file' = Without(Left(d), gone)
  BY DEF PreprocessFails
<1>2. /\ At(d, "preprocess") /\ At(d, driver[d].at) /\ driver[d].at \in Inside
      /\ Becomes(d, InputFailed(driver[d]))
  BY DEF PreprocessFails, At, Inside
<1>3. AtInput(d) /\ driver[d].temps \subseteq OwnFiles(d)
      /\ (PlannedAssembly(Job(d), Path(d)) # NoPath =>
              PlannedAssembly(Job(d), Path(d)) \notin driver[d].temps)
  BY <1>2, InsideFacts
<1>4. /\ driver[d].preprocessed \in OwnFiles(d)
      /\ PlannedAssembly(Job(d), Path(d)) # NoPath =>
              PlannedAssembly(Job(d), Path(d)) # driver[d].preprocessed
  BY <1>2, PreprocessedFacts
<1>5. PICK W : W = driver[d].temps \cup gone
  OBVIOUS
<1>6. /\ OnlyChanged(file, file', W) /\ DOMAIN file' \subseteq DOMAIN file \cup {}
      /\ DOMAIN file' \cap driver[d].temps = {}
  BY <1>1, <1>5 DEF Without, Left, OnlyChanged
<1>7. W \subseteq OwnFiles(d)
      /\ (PlannedAssembly(Job(d), Path(d)) # NoPath => PlannedAssembly(Job(d), Path(d)) \notin W)
  BY <1>1, <1>3, <1>4, <1>5
<1>8. \A q \in {} : q \in {TempName(d, "i"), TempName(d, "s")} => q \in driver[d].temps
  OBVIOUS
<1> QED  BY <1>2, <1>3, <1>6, <1>7, <1>8, InputFails

\* The front end reads the preprocessed text of this very input.
LEMMA AnalyseAdvances ==
    ASSUME Inv, NEW d \in Process, Analyse(d) PROVE \E t : Advances(d, t)
<1>1. /\ At(d, "analyse") /\ Exists(driver[d].preprocessed) /\ driver[d].at = "analyse"
      /\ file' = file /\ Running(d)
  BY DEF Analyse, At, AfterAnalysis
<1>2. At(d, driver[d].at) /\ driver[d].at \in Inside
  BY <1>1 DEF Inside
<1>3. /\ AtInput(d) /\ Compiled(Path(d)) /\ driver[d] \in StateType(driver[d])
      /\ StageOK(d, Job(d), Path(d), driver[d], file) /\ TempsOK(d, driver[d], file)
  BY <1>2, InsideFacts
<1>4. PICK place, tree : place = "open" /\ tree = file[driver[d].preprocessed]
  OBVIOUS
<1>5. place \in Place /\ place \in Inside
  BY <1>4 DEF Place, Inside
<1>6. PICK t : /\ t = WithTree(driver[d], place, tree)
               /\ t \in StateType(t) /\ t.at = place /\ SameRun(driver[d], t)
               /\ t.temps = driver[d].temps /\ t.preprocessed = driver[d].preprocessed
               /\ t.assembly = driver[d].assembly /\ t.tree = tree
  BY <1>3, <1>5, MoveWithTree
<1>7. /\ t \in StateType(t) /\ t.at \in Inside /\ SameRun(driver[d], t)
      /\ t.at = "open" /\ t.temps = driver[d].temps /\ t.tree = tree /\ t.killed = driver[d].killed
  BY <1>4, <1>5, <1>6 DEF SameRun
<1>8. Becomes(d, t)
  BY <1>4, <1>6 DEF Analyse, WithTree
<1>9. /\ OnlyChanged(file, file', OwnFiles(d))
      /\ Agree(file, file', PlannedAssembly(Job(d), Path(d)))
  BY <1>1 DEF OnlyChanged, Agree
<1>10. TempsOK(d, t, file')
  BY <1>1, <1>3, <1>7 DEF TempsOK
<1>11. StageOK(d, Job(d), Path(d), t, file') BY <1>1, <1>3, <1>4, <1>7 DEF StageOK, Exists
<1>12. driver[d].at \notin {"generate", "assemble"}
  BY <1>1
<1>13. Advances(d, t)
  BY <1>3, <1>7, <1>8, <1>9, <1>10, <1>11, <1>12, InsideAdvances
<1> QED  BY <1>13

\* The front end rejects it.
LEMMA AnalyseFailsAdvances ==
    ASSUME Inv, NEW d \in Process, AnalyseFails(d) PROVE \E t : Advances(d, t)
BY InsideFacts, FailsAdvances DEF AnalyseFails, AfterAnalysis, Fails, Left, At, Inside

\* The assembly file is opened, which empties it.
LEMMA OpenAssemblyAdvances ==
    ASSUME Inv, NEW d \in Process, OpenAssembly(d) PROVE \E t : Advances(d, t)
<1>1. At(d, "open") /\ driver[d].at = "open" /\ Running(d)
  BY DEF OpenAssembly, At
<1>2. At(d, driver[d].at) /\ driver[d].at \in Inside
  BY <1>1 DEF Inside
<1>3. /\ AtInput(d) /\ Compiled(Path(d)) /\ driver[d] \in StateType(driver[d]) /\ ~driver[d].killed
      /\ StageOK(d, Job(d), Path(d), driver[d], file) /\ TempsOK(d, driver[d], file)
      /\ Temps(d) \subseteq OwnFiles(d)
      /\ PlannedAssembly(Job(d), Path(d)) # NoPath =>
             /\ PlannedAssembly(Job(d), Path(d)) \notin Temps(d)
             /\ PlannedAssembly(Job(d), Path(d)) \in OwnFiles(d)
  BY <1>2, InsideFacts
<1>4. PICK place, planned, path, temps :
         /\ place = "generate" /\ planned = PlannedAssembly(Job(d), Path(d))
         /\ path = (IF planned = NoPath THEN TempName(d, "s") ELSE planned)
         /\ temps = driver[d].temps \cup (IF planned = NoPath THEN {path} ELSE {})
  OBVIOUS
<1>5. place \in Place /\ place \in Inside
  BY <1>4 DEF Place, Inside
<1>6. PICK t : /\ t = ToAssembly(driver[d], place, path, temps)
               /\ t \in StateType(t) /\ t.at = place /\ SameRun(driver[d], t)
               /\ t.temps = temps /\ t.preprocessed = driver[d].preprocessed
               /\ t.assembly = path /\ t.tree = driver[d].tree
  BY <1>3, <1>5, MoveToAssembly
<1>7. /\ t \in StateType(t) /\ t.at \in Inside /\ SameRun(driver[d], t) /\ t.at = "generate"
      /\ t.temps = temps /\ t.assembly = path /\ t.tree = driver[d].tree /\ ~t.killed
  BY <1>3, <1>4, <1>5, <1>6 DEF SameRun
<1>8. Becomes(d, t) /\ file' = Write(file, path, Empty)
  BY <1>4, <1>6 DEF OpenAssembly, ToAssembly
<1>9. DOMAIN file' = DOMAIN file \cup {path} /\ OnlyChanged(file, file', {path})
  BY <1>8 DEF Write, OnlyChanged
<1>10. path \in OwnFiles(d)
  BY <1>3, <1>4 DEF Temps
<1>11. OnlyChanged(file, file', OwnFiles(d))
  BY <1>9, <1>10, ChangedMore
<1>12. TempsOK(d, t, file')
  BY <1>2, <1>3, <1>4, <1>7, <1>9 DEF TempsOK, Temps
<1>13. StageOK(d, Job(d), Path(d), t, file') BY <1>4, <1>1, <1>3, <1>7 DEF Assembly, StageOK
<1>14. Advances(d, t)
  BY <1>3, <1>7, <1>8, <1>11, <1>12, <1>13, InsideAdvances
<1> QED  BY <1>14

\* It cannot be opened.
LEMMA OpenAssemblyFailsAdvances ==
    ASSUME Inv, NEW d \in Process, OpenAssemblyFails(d) PROVE \E t : Advances(d, t)
BY InsideFacts, FailsAdvances DEF OpenAssemblyFails, At, Inside

\* The assembly file of the input, once it has been opened.
LEMMA AssemblyFacts ==
    ASSUME Inv, NEW d \in Process, At(d, driver[d].at), driver[d].at \in {"generate", "assemble"}
    PROVE  /\ driver[d].at \in Inside
           /\ driver[d].assembly = Assembly(d, Job(d), Path(d)) /\ driver[d].assembly \in OwnFiles(d)
           /\ driver[d].assembly \in {TempName(d, "i"), TempName(d, "s")} =>
                  driver[d].assembly \in driver[d].temps
           /\ PlannedAssembly(Job(d), Path(d)) # NoPath =>
                  /\ driver[d].assembly = PlannedAssembly(Job(d), Path(d))
                  /\ driver[d].assembly \notin Temps(d) /\ IsPath(driver[d].assembly)
BY InsideFacts DEF Inside, StageOK, Assembly, Temps

\* The code generator writes the assembly, which may be the product.
LEMMA GenerateAdvances ==
    ASSUME Inv, NEW d \in Process, Generate(d) PROVE \E t : Advances(d, t)
<1>1. At(d, "generate") /\ driver[d].at = "generate" /\ Running(d) /\ At(d, driver[d].at)
  BY DEF Generate, At
<1>2. /\ driver[d].at \in Inside
      /\ driver[d].assembly = Assembly(d, Job(d), Path(d)) /\ driver[d].assembly \in OwnFiles(d)
      /\ driver[d].assembly \in {TempName(d, "i"), TempName(d, "s")} =>
             driver[d].assembly \in driver[d].temps
      /\ PlannedAssembly(Job(d), Path(d)) # NoPath =>
             /\ driver[d].assembly = PlannedAssembly(Job(d), Path(d))
             /\ driver[d].assembly \notin Temps(d) /\ IsPath(driver[d].assembly)
  BY <1>1, AssemblyFacts
<1>3. /\ AtInput(d) /\ Compiled(Path(d)) /\ driver[d] \in StateType(driver[d]) /\ ~driver[d].killed
      /\ StageOK(d, Job(d), Path(d), driver[d], file) /\ TempsOK(d, driver[d], file)
      /\ driver[d].temps \subseteq Temps(d) /\ Temps(d) \subseteq OwnFiles(d)
      /\ JobType(Job(d)) /\ ~Rejected(Job(d)) /\ Path(d) \in Inputs(Job(d))
      /\ Job(d).stop # "preprocess"
  BY <1>1, <1>2, InsideFacts
<1>4. PICK stage, target, content, written :
         /\ stage \in {"s", "cut"}
         /\ target = driver[d].assembly /\ content = <<stage, driver[d].tree>>
         /\ written = Write(file, target, content)
         /\ IF Job(d).stop = "assembly" THEN Done(d, written, target)
            ELSE /\ file' = written
                 /\ Becomes(d, [driver[d] EXCEPT !.at = "assemble"])
  BY DEF Generate
<1>5. content \in AssemblyOf(Job(d), Path(d)) BY <1>1, <1>3, <1>4 DEF StageOK, AssemblyOf
<1>6. /\ DOMAIN written = DOMAIN file \cup {target} /\ written[target] = content
      /\ OnlyChanged(file, written, {target})
  BY <1>4 DEF Write, OnlyChanged
<1>7. target \in OwnFiles(d)
  BY <1>2, <1>4
<1>8. OnlyChanged(file, written, OwnFiles(d))
  BY <1>6, <1>7, ChangedMore
<1>9. CASE Job(d).stop = "assembly"
  <2>1. /\ file' = Without(written, driver[d].temps)
        /\ Becomes(d, InputDone(driver[d], target))
    BY <1>4, <1>9 DEF Done
  <2>2. PlannedAssembly(Job(d), Path(d)) # NoPath
    BY <1>3, FourKinds, ProductWritten, <1>9 DEF Product
  <2>3. target = PlannedAssembly(Job(d), Path(d)) /\ target \notin driver[d].temps /\ IsPath(target)
    BY <1>2, <1>3, <1>4, <2>2
  <2>4. target \in Seq(Names) /\ target = ResultOf(Job(d), Path(d))
    BY <1>3, <1>9, <2>3, FourKinds DEF ResultOf, Product, IsPath
  <2>5. /\ DOMAIN file' = DOMAIN written \ driver[d].temps
        /\ OnlyChanged(written, file', driver[d].temps) /\ file'[target] = content
        /\ target \in DOMAIN file'
    BY <1>6, <2>1, <2>3 DEF Without, OnlyChanged
  <2>6. OnlyChanged(file, file', OwnFiles(d)) BY <1>3, <2>5, ChangedMore, <1>8, ChangedTwice
  <2>7. TempName(d, "i") \notin DOMAIN file' /\ TempName(d, "s") \notin DOMAIN file'
    BY <1>6, <2>5, <1>2, <1>4, <1>1, Swept
  <2>8. file'[target] \in ContentOf(Job(d), Path(d))
    BY <1>5, <1>9, <2>5 DEF ContentOf
  <2>9. Advances(d, InputDone(driver[d], target))
    BY <1>3, <2>1, <2>4, <2>5, <2>6, <2>7, <2>8, DoneAdvances
  <2> QED  BY <2>9
<1>10. CASE Job(d).stop # "assembly"
  <2>1. PICK place \in Place : place = "assemble"
    BY DEF Place
  <2>2. PICK t : t = [driver[d] EXCEPT !.at = place]
    OBVIOUS
  <2>3. /\ t \in StateType(t) /\ t.at = place /\ SameRun(driver[d], t)
        /\ t.temps = driver[d].temps /\ t.assembly = target
    BY <1>3, <1>4, <2>1, <2>2, Move
  <2>4. t.at = "assemble" /\ t.at \in Inside /\ ~t.killed
    BY <1>3, <2>1, <2>3 DEF Inside, SameRun
  <2>5. Becomes(d, t) /\ file' = written
    BY <1>4, <1>10, <2>1, <2>2
  <2>6. TempsOK(d, t, file')
    BY <1>2, <1>3, <1>4, <1>6, <2>3, <2>4, <2>5 DEF TempsOK
  <2>7. StageOK(d, Job(d), Path(d), t, file')
    <3>1. /\ target = Assembly(d, Job(d), Path(d))
          /\ PlannedAssembly(Job(d), Path(d)) = NoPath => TempName(d, "s") \in t.temps
      BY <1>1, <1>3, <1>4, <2>3 DEF StageOK
    <3>2. file'[t.assembly] \in AssemblyOf(Job(d), Path(d))
      BY <1>5, <1>6, <2>3, <2>5
    <3> QED  BY <1>10, <2>3, <2>4, <3>1, <3>2 DEF StageOK
  <2>8. Advances(d, t)
    BY <1>3, <1>8, <2>3, <2>4, <2>5, <2>6, <2>7, InsideAdvances
  <2> QED  BY <2>8
<1> QED  BY <1>9, <1>10

\* It stops in the middle.
LEMMA GenerateFailsAdvances ==
    ASSUME Inv, NEW d \in Process, GenerateFails(d) PROVE \E t : Advances(d, t)
<1>1. /\ driver[d].at = "generate" /\ At(d, driver[d].at)
      /\ Becomes(d, InputFailed(driver[d]))
  BY DEF GenerateFails, At
<1>2. PICK target, written : /\ target = driver[d].assembly
                             /\ written = Write(file, target, Partial)
                             /\ file' = Without(written, driver[d].temps)
  BY DEF GenerateFails
<1>3. /\ driver[d].at \in Inside /\ target \in OwnFiles(d)
      /\ target \in {TempName(d, "i"), TempName(d, "s")} => target \in driver[d].temps
  BY <1>1, <1>2, AssemblyFacts
<1>4. AtInput(d) /\ driver[d].temps \subseteq OwnFiles(d)
  BY <1>1, <1>3, InsideFacts
<1>5. PICK W, new : W = driver[d].temps \cup {target} /\ new = {target}
  OBVIOUS
<1>6. /\ OnlyChanged(file, file', W) /\ DOMAIN file' \subseteq DOMAIN file \cup new
      /\ DOMAIN file' \cap driver[d].temps = {}
  BY <1>2, <1>5 DEF Write, Without, OnlyChanged
<1>7. W \subseteq OwnFiles(d)
  BY <1>3, <1>4, <1>5
<1>8. \A q \in new : q \in {TempName(d, "i"), TempName(d, "s")} => q \in driver[d].temps
  BY <1>3, <1>5
<1> QED  BY <1>1, <1>4, <1>6, <1>7, <1>8, InputFails

\* What the assembler writes.
LEMMA ObjectFacts ==
    ASSUME Inv, NEW d \in Process, At(d, "assemble")
    PROVE  /\ Job(d).stop \in {"link", "object"}
           /\ ObjectPath(Job(d), Path(d)) \in OwnFiles(d) /\ IsPath(ObjectPath(Job(d), Path(d)))
           /\ ObjectPath(Job(d), Path(d)) \notin Temps(d)
BY InsideFacts, JobFacts, FourKinds, ObjectIsPath, WrittenForMembers, TempNames DEF At, Inside,
   StageOK, OwnFiles, Temps

\* The assembler makes the object file from the assembly.
LEMMA AssembleAdvances ==
    ASSUME Inv, NEW d \in Process, Assemble(d) PROVE \E t : Advances(d, t)
<1>1. /\ At(d, "assemble") /\ driver[d].at = "assemble" /\ Running(d) /\ At(d, driver[d].at)
      /\ Exists(driver[d].assembly) /\ driver[d].at \in Inside
  BY DEF Assemble, At, Inside
<1>2. /\ AtInput(d) /\ Compiled(Path(d))
      /\ StageOK(d, Job(d), Path(d), driver[d], file)
      /\ driver[d].temps \subseteq Temps(d) /\ Temps(d) \subseteq OwnFiles(d)
  BY <1>1, InsideFacts
<1>3. PICK object, content, written :
         /\ object = ObjectPath(Job(d), Path(d)) /\ content = <<"o", file[driver[d].assembly]>>
         /\ written = Write(file, object, content)
         /\ file' = Without(written, driver[d].temps)
         /\ Becomes(d, InputDone(driver[d], object))
  BY DEF Assemble, Done
<1>4. /\ Job(d).stop \in {"link", "object"} /\ object \in OwnFiles(d) /\ IsPath(object)
      /\ object \notin Temps(d)
  BY <1>1, <1>3, ObjectFacts
<1>5. /\ DOMAIN written = DOMAIN file \cup {object} /\ written[object] = content
      /\ OnlyChanged(file, written, {object})
  BY <1>3 DEF Write, OnlyChanged
<1>6. /\ DOMAIN file' = DOMAIN written \ driver[d].temps
      /\ OnlyChanged(written, file', driver[d].temps) /\ file'[object] = content
      /\ object \in DOMAIN file'
  BY <1>2, <1>3, <1>4, <1>5 DEF Without, OnlyChanged
<1>7. OnlyChanged(file, file', OwnFiles(d))
  BY <1>2, <1>4, <1>5, <1>6, ChangedMore, ChangedTwice
<1>8. TempName(d, "i") \notin DOMAIN file' /\ TempName(d, "s") \notin DOMAIN file'
  BY <1>5, <1>6, <1>4, <1>1, Swept DEF Temps
<1>9. Kind(Path(d)) \notin {"object", "assembly"}
  BY <1>2, FourKinds
<1>10. object \in Seq(Names) /\ object = ResultOf(Job(d), Path(d))
  BY <1>3, <1>4, <1>9 DEF ResultOf, Product, IsPath
<1>11. file'[object] \in ContentOf(Job(d), Path(d))
  BY <1>1, <1>2, <1>4, <1>9, <1>3, <1>6 DEF StageOK, Exists, ContentOf, ObjectOf
<1>12. Advances(d, InputDone(driver[d], object))
  BY <1>2, <1>3, <1>6, <1>7, <1>8, <1>10, <1>11, DoneAdvances
<1> QED  BY <1>12

\* It fails and may remove the object file.
LEMMA AssembleFailsAdvances ==
    ASSUME Inv, NEW d \in Process, AssembleFails(d) PROVE \E t : Advances(d, t)
BY InsideFacts, ObjectFacts, InputFails DEF AssembleFails, At, Inside, Without, Left,
   OnlyChanged

----------------------------------------------------------------------------
(* The steps that end a run.                                               *)

\* A run that ends outside compile.
LEMMA EndsAdvances ==
    ASSUME Inv, NEW d \in Process, Running(d), driver[d].at \notin Inside,
           OnlyChanged(file, file', Written(Job(d))),
           InputsOK(jobs[d], file'), ProgramsOK(jobs[d], file'),
           driver[d].failed # <<>> => driver[d].input = Len(Job(d).inputs) + 1,
           file' = file \/ driver[d].failed = <<>>,
           NEW code \in {0, 1}, code = 0 => Fulfilled(Job(d), file'),
           Becomes(d, Ends(driver[d], code))
    PROVE  \E t : Advances(d, t)
<1>1. driver[d] \in StateType(driver[d]) /\ ~driver[d].killed /\ JobType(Job(d))
  BY Busy
<1>2. PICK t : /\ t = Ends(driver[d], code) /\ t \in StateType(t)
               /\ t.at = "ended" /\ t.input = driver[d].input /\ t.temps = driver[d].temps
               /\ t.outputs = driver[d].outputs
               /\ t.run = driver[d].run /\ t.exitCode = code /\ t.failed = driver[d].failed
               /\ t.killed = driver[d].killed /\ t.results = Append(driver[d].results, code)
  BY <1>1, EndState
<1>3. /\ driver[d].temps = {}
      /\ TempName(d, "i") \notin DOMAIN file /\ TempName(d, "s") \notin DOMAIN file
  BY NoneOutside
<1>4. ASSUME NEW q \in Temps(d) PROVE q \notin Written(Job(d))
  BY <1>1, WrittenPaths, TempNames DEF Temps
<1>5. TempName(d, "i") \notin DOMAIN file' /\ TempName(d, "s") \notin DOMAIN file'
  BY <1>3, <1>4, Outside DEF Temps, Agree
<1>6. TempsOK(d, t, file')
  BY <1>2, <1>3, <1>5 DEF TempsOK
<1>7. OnlyChanged(file, file', Written(Job(d)) \cup Temps(d))
  BY ChangedMore
<1>8. /\ t \in StateType(t) /\ t.at = "ended" /\ t.input = driver[d].input
      /\ t.run = driver[d].run /\ t.failed = driver[d].failed
      /\ t.results = Append(driver[d].results, code) /\ Becomes(d, t)
      /\ t.failed # <<>> => t.input = Len(Job(d).inputs) + 1
      /\ file' = file \/ t.failed = <<>>
  BY <1>2
<1> QED  BY <1>6, <1>7, <1>8, EndAdvances

\* When the loop ends without a failure every input has its product.
LEMMA InputsEndFacts ==
    ASSUME Inv, NEW d \in Process, At(d, driver[d].at), driver[d].at \in {"next", "link"},
           driver[d].input > Len(Job(d).inputs), driver[d].failed = <<>>
    PROVE  LET job == Job(d)
           IN  /\ job.inputs # <<>> /\ DOMAIN job.inputs = 1 .. Len(job.inputs)
               /\ DOMAIN driver[d].outputs = DOMAIN job.inputs
               /\ \A k \in DOMAIN job.inputs :
                     /\ driver[d].outputs[k] = ResultOf(job, job.inputs[k])
                     /\ Kind(job.inputs[k]) # "object" =>
                           /\ Product(job, job.inputs[k]) \in DOMAIN file
                           /\ file[Product(job, job.inputs[k])] \in ContentOf(job, job.inputs[k])
                     /\ job.inputs[k] \in DOMAIN file => file[job.inputs[k]] = Input(job.inputs[k])
<1>1. Running(d) /\ driver[d].at # "ended"
  BY DEF At
<1>2. /\ JobType(Job(d)) /\ PlacesOK(Job(d), driver[d]) /\ RunOK(d, Job(d), driver[d], file)
      /\ InputsOK(jobs[d], file) /\ driver[d].run \in DOMAIN jobs[d]
      /\ Job(d) = jobs[d][driver[d].run] /\ driver[d] \in StateType(driver[d])
  BY <1>1, Busy
<1>3. /\ Len(Job(d).inputs) \in Nat \ {0} /\ DOMAIN Job(d).inputs = 1 .. Len(Job(d).inputs)
      /\ \A k \in DOMAIN Job(d).inputs : Job(d).inputs[k] \in Inputs(Job(d))
  BY <1>2, JobFacts
<1>4. /\ driver[d].input \in Nat /\ driver[d].outputs \in Seq(Seq(Names))
      /\ driver[d].failed \in Seq([input : Nat, at : Place])
  BY <1>2 DEF StateType
<1>5. driver[d].input = Len(Job(d).inputs) + 1
  <2>1. driver[d].input <= Len(Job(d).inputs) + 1
    BY <1>2 DEF PlacesOK
  <2> QED  BY <1>3, <1>4, <2>1
<1>6. /\ Len(driver[d].outputs) = Len(Job(d).inputs)
      /\ \A k \in DOMAIN Job(d).inputs :
            driver[d].outputs[k] = ResultOf(Job(d), Job(d).inputs[k])
  BY SMTT(30), <1>1, <1>2, <1>3, <1>5 DEF RunOK, OutputsOK
<1>7. DOMAIN driver[d].outputs = DOMAIN Job(d).inputs
  BY <1>3, <1>4, <1>6
<1>8. ASSUME NEW k \in DOMAIN Job(d).inputs, Kind(Job(d).inputs[k]) # "object"
      PROVE  /\ Product(Job(d), Job(d).inputs[k]) \in DOMAIN file
             /\ file[Product(Job(d), Job(d).inputs[k])] \in ContentOf(Job(d), Job(d).inputs[k])
  <2>1. ProductsOK(Job(d), driver[d], file) /\ Job(d).stop # "preprocess"
    BY <1>2 DEF RunOK, PlacesOK
  <2>2. ~Over(Job(d), driver[d])
    BY <1>1, <2>1 DEF Over
  <2>3. k \notin FailedOf(driver[d]) /\ k \in 1 .. driver[d].input - 1
    BY <1>3, <1>5, <1>8 DEF FailedOf
  <2> QED  BY <1>8, <2>1, <2>2, <2>3 DEF ProductsOK
<1>9. ASSUME NEW k \in DOMAIN Job(d).inputs, Job(d).inputs[k] \in DOMAIN file
      PROVE  file[Job(d).inputs[k]] = Input(Job(d).inputs[k])
  BY <1>2, <1>3, <1>9 DEF InputsOK
<1>10. Job(d).inputs # <<>>
  BY <1>3
<1> QED  BY <1>3, <1>6, <1>7, <1>8, <1>9, <1>10

\* After the last input the run goes on to the link, or ends.
LEMMA InputsEndAdvances ==
    ASSUME Inv, NEW d \in Process, InputsEnd(d) PROVE \E t : Advances(d, t)
<1>1. /\ driver[d].at = "next" /\ At(d, driver[d].at) /\ Running(d) /\ UNCHANGED file
      /\ driver[d].input > Len(Job(d).inputs) /\ driver[d].at \notin Inside
      /\ Becomes(d, IF ReadyToLink(d) THEN [driver[d] EXCEPT !.at = "link"]
                    ELSE Ends(driver[d], driver[d].exitCode))
  BY DEF InputsEnd, At, Inside
<1>2. /\ JobType(Job(d)) /\ driver[d] \in StateType(driver[d]) /\ ~driver[d].killed
      /\ PlacesOK(Job(d), driver[d])
      /\ InputsOK(jobs[d], file) /\ ProgramsOK(jobs[d], file)
  BY <1>1, Busy
<1>3. driver[d].input = Len(Job(d).inputs) + 1 /\ driver[d].exitCode \in {0, 1}
  <2>1. driver[d].input \in Nat /\ driver[d].exitCode \in {0, 1}
    BY <1>2 DEF StateType
  <2>2. Len(Job(d).inputs) \in Nat
    BY <1>2, JobFacts
  <2>3. driver[d].input <= Len(Job(d).inputs) + 1
    BY <1>2 DEF PlacesOK
  <2> QED  BY <1>1, <2>1, <2>2, <2>3
<1>4. CASE ReadyToLink(d)
  BY <1>2, Move, <1>1, <1>4, <1>3, MoveAdvances DEF Place, PlacesOK, ReadyToLink, SameRun,
     Inside
<1>5. CASE ~ReadyToLink(d)
  <2>1. PICK code \in {0, 1} : code = driver[d].exitCode
    BY <1>3
  <2>2. Becomes(d, Ends(driver[d], code))
    BY <1>1, <1>5, <2>1
  <2>3. ASSUME code = 0 PROVE Fulfilled(Job(d), file')
    <3>1. driver[d].failed = <<>> /\ ~Rejected(Job(d)) /\ Job(d).stop # "preprocess"
      BY <1>1, <1>2, <2>1, <2>3 DEF PlacesOK
    <3>2. /\ Job(d).inputs # <<>> /\ DOMAIN Job(d).inputs = 1 .. Len(Job(d).inputs)
          /\ DOMAIN driver[d].outputs = DOMAIN Job(d).inputs
          /\ \A k \in DOMAIN Job(d).inputs :
                Kind(Job(d).inputs[k]) # "object" =>
                   /\ Product(Job(d), Job(d).inputs[k]) \in DOMAIN file
                   /\ file[Product(Job(d), Job(d).inputs[k])] \in ContentOf(Job(d), Job(d).inputs[k])
      BY <1>1, <3>1, InputsEndFacts
    <3>3. driver[d].outputs # <<>> BY <1>2, JobFacts, <3>2
    <3>4. Job(d).stop \in {"object", "assembly"}
      BY <1>2, <1>5, <2>1, <2>3, <3>1, <3>3, JobFacts DEF ReadyToLink
    <3>5. ASSUME NEW p \in Inputs(Job(d))
          PROVE  /\ Product(Job(d), p) \in DOMAIN file
                 /\ file[Product(Job(d), p)] \in ContentOf(Job(d), p)
      BY <3>1, <3>4, <3>5, <3>2 DEF Rejected, AnyKind, Inputs, ToSet
    <3>6. Promised(Job(d)) =
            [q \in {Product(Job(d), p) : p \in Inputs(Job(d))} |->
                UNION {ContentOf(Job(d), p) : p \in {r \in Inputs(Job(d)) : Product(Job(d), r) = q}}]
      BY <3>4 DEF Promised
    <3>7. ASSUME NEW q \in DOMAIN Promised(Job(d))
          PROVE  q \in DOMAIN file /\ file[q] \in Promised(Job(d))[q]
      BY <3>5, <3>6, <3>7
    <3> QED  BY <1>1, <3>1, <3>7 DEF Fulfilled
  <2>4. OnlyChanged(file, file', Written(Job(d)))
    BY <1>1 DEF OnlyChanged
  <2>5. InputsOK(jobs[d], file') /\ ProgramsOK(jobs[d], file')
    BY <1>1, <1>2
  <2> QED  BY <1>1, <1>3, <2>2, <2>3, <2>4, <2>5, EndsAdvances
<1> QED  BY <1>4, <1>5

\* Where a process links, its run has come to the end of its inputs.
LEMMA LinkFacts ==
    ASSUME Inv, NEW d \in Process, At(d, "link")
    PROVE  /\ driver[d].at = "link" /\ At(d, driver[d].at) /\ Running(d) /\ driver[d].at \notin Inside
           /\ driver[d].failed = <<>> /\ Job(d).stop = "link" /\ ~Rejected(Job(d))
           /\ driver[d].input > Len(Job(d).inputs) /\ driver[d].input = Len(Job(d).inputs) + 1
           /\ jobs \in JobLists /\ driver[d].run \in DOMAIN jobs[d]
           /\ Job(d) = jobs[d][driver[d].run] /\ JobType(Job(d))
           /\ InputsOK(jobs[d], file) /\ ProgramsOK(jobs[d], file)
           /\ Executable(Job(d)) \in Written(Job(d))
BY Busy, JobFacts, ExecutableIsPath, WrittenMembers DEF At, Inside, PlacesOK

\* The linker has the products of all inputs, in their order.
LEMMA LinkAdvances ==
    ASSUME Inv, NEW d \in Process, Link(d) PROVE \E t : Advances(d, t)
<1>1. /\ At(d, "link") /\ Becomes(d, Ends(driver[d], 0))
      /\ \A k \in DOMAIN driver[d].outputs : driver[d].outputs[k] \in DOMAIN file
  BY DEF Link, Exists
<1>2. PICK program, objects :
         /\ program = Executable(Job(d))
         /\ objects = [k \in DOMAIN driver[d].outputs |-> file[driver[d].outputs[k]]]
         /\ file' = Write(file, program, <<"program", objects>>)
  BY DEF Link
<1>3. /\ At(d, driver[d].at) /\ Running(d) /\ driver[d].at \notin Inside
      /\ driver[d].failed = <<>> /\ Job(d).stop = "link" /\ ~Rejected(Job(d))
      /\ driver[d].at \in {"next", "link"} /\ driver[d].input > Len(Job(d).inputs)
      /\ jobs \in JobLists /\ driver[d].run \in DOMAIN jobs[d]
      /\ Job(d) = jobs[d][driver[d].run]
      /\ InputsOK(jobs[d], file) /\ ProgramsOK(jobs[d], file)
      /\ Executable(Job(d)) \in Written(Job(d))
  BY <1>1, LinkFacts
<1>4. /\ DOMAIN file' = DOMAIN file \cup {program} /\ file'[program] = <<"program", objects>>
      /\ OnlyChanged(file, file', {program})
  BY <1>2 DEF Write, OnlyChanged
<1>5. /\ DOMAIN driver[d].outputs = DOMAIN Job(d).inputs
      /\ \A k \in DOMAIN Job(d).inputs :
            /\ driver[d].outputs[k] = ResultOf(Job(d), Job(d).inputs[k])
            /\ Kind(Job(d).inputs[k]) # "object" =>
                  /\ Product(Job(d), Job(d).inputs[k]) \in DOMAIN file
                  /\ file[Product(Job(d), Job(d).inputs[k])] \in ContentOf(Job(d), Job(d).inputs[k])
            /\ Job(d).inputs[k] \in DOMAIN file => file[Job(d).inputs[k]] = Input(Job(d).inputs[k])
  BY <1>3, InputsEndFacts
<1>6. ASSUME NEW k \in DOMAIN Job(d).inputs
      PROVE  objects[k] \in ObjectOf(Job(d), Job(d).inputs[k])
  BY <1>1, <1>2, <1>5, <1>3 DEF ResultOf, ObjectOf, ContentOf
<1>7. <<"program", objects>> \in ProgramOf(Job(d))
  BY <1>6, <1>2, <1>5 DEF Inputs, ToSet, ProgramOf
<1>8. /\ InputsOK(jobs[d], file') /\ ProgramsOK(jobs[d], file')
      /\ OnlyChanged(file, file', Written(Job(d)))
  <2>1. /\ OnlyChanged(file, file', {Executable(Job(d))})
        /\ file'[Executable(Job(d))] \in {Old} \cup ProgramOf(Job(d))
    BY <1>2, <1>4, <1>7
  <2>2. InputsOK(jobs[d], file') /\ ProgramsOK(jobs[d], file')
    BY <1>3, <2>1, ProgramStep
  <2> QED  BY <1>3, <2>1, <2>2, ChangedMore
<1>9. Fulfilled(Job(d), file') BY <1>2, <1>3, <1>4, <1>7 DEF Promised, Fulfilled
<1>10. PICK code \in {0, 1} : code = 0
  OBVIOUS
<1> QED  BY <1>1, <1>3, <1>8, <1>9, <1>10, EndsAdvances

\* It fails and may remove the program.
LEMMA LinkFailsAdvances ==
    ASSUME Inv, NEW d \in Process, LinkFails(d) PROVE \E t : Advances(d, t)
<1>1. At(d, "link") /\ Becomes(d, Ends(driver[d], 1))
  BY DEF LinkFails
<1>2. PICK program, gone : /\ program = Executable(Job(d)) /\ gone \subseteq {program}
                           /\ file' = Without(file, gone)
  BY DEF LinkFails, ToolFails
<1>3. /\ Running(d) /\ driver[d].at \notin Inside
      /\ driver[d].failed = <<>> /\ Job(d).stop = "link" /\ ~Rejected(Job(d))
      /\ jobs \in JobLists /\ driver[d].run \in DOMAIN jobs[d]
      /\ Job(d) = jobs[d][driver[d].run]
      /\ InputsOK(jobs[d], file) /\ ProgramsOK(jobs[d], file)
      /\ Executable(Job(d)) \in Written(Job(d))
  BY <1>1, LinkFacts
<1>4. /\ OnlyChanged(file, file', {program}) /\ DOMAIN file' \subseteq DOMAIN file
      /\ program \in DOMAIN file' => file'[program] = file[program]
  BY <1>2 DEF Without, OnlyChanged
<1>5. /\ InputsOK(jobs[d], file') /\ ProgramsOK(jobs[d], file')
      /\ OnlyChanged(file, file', Written(Job(d)))
  <2>1. program \in DOMAIN file' => file'[program] \in {Old} \cup ProgramOf(Job(d))
    BY <1>2, <1>3, <1>4 DEF ProgramsOK
  <2>2. /\ OnlyChanged(file, file', {Executable(Job(d))})
        /\ Executable(Job(d)) \in DOMAIN file' =>
               file'[Executable(Job(d))] \in {Old} \cup ProgramOf(Job(d))
    BY <1>2, <1>4, <2>1
  <2>3. InputsOK(jobs[d], file') /\ ProgramsOK(jobs[d], file')
    BY <1>3, <2>2, ProgramStep
  <2> QED  BY <1>3, <2>2, <2>3, ChangedMore
<1>6. PICK code \in {0, 1} : code = 1
  OBVIOUS
<1> QED  BY <1>1, <1>3, <1>5, <1>6, EndsAdvances

\* A run of the preprocessor alone.
LEMMA PreprocessAllFacts ==
    ASSUME Inv, NEW d \in Process, At(d, "preprocessAll")
    PROVE  /\ Running(d) /\ driver[d].at \notin Inside
           /\ driver[d].failed = <<>> /\ Job(d).stop = "preprocess" /\ ~Rejected(Job(d))
           /\ jobs \in JobLists /\ driver[d].run \in DOMAIN jobs[d]
           /\ Job(d) = jobs[d][driver[d].run] /\ JobType(Job(d))
           /\ InputsOK(jobs[d], file) /\ ProgramsOK(jobs[d], file)
BY Busy DEF At, Inside, PlacesOK

\* The preprocessor writes what the command line names.
LEMMA PreprocessAllAdvances ==
    ASSUME Inv, NEW d \in Process, PreprocessAll(d) PROVE \E t : Advances(d, t)
<1>1. /\ At(d, "preprocessAll") /\ Becomes(d, Ends(driver[d], 0))
      /\ \A p \in Inputs(Job(d)) : p \in DOMAIN file
  BY DEF PreprocessAll, Exists
<1> DEFINE named == {Job(d).output} \ {NoPath}
<1> DEFINE listed == IF ~Job(d).deps THEN {}
                     ELSE {Dependencies(IF Job(d).output = NoPath THEN p ELSE Job(d).output)
                           : p \in Inputs(Job(d))}
<1>2. file' = [q \in DOMAIN file \cup named \cup listed |->
                 CASE q \in named -> <<"i", file[Job(d).inputs[1]]>>
                   [] q \in listed \ named -> <<"d", q>>
                   [] OTHER -> file[q]]
  BY DEF PreprocessAll
<1>3. /\ Running(d) /\ driver[d].at \notin Inside
      /\ driver[d].failed = <<>> /\ Job(d).stop = "preprocess" /\ ~Rejected(Job(d))
      /\ jobs \in JobLists /\ driver[d].run \in DOMAIN jobs[d]
      /\ Job(d) = jobs[d][driver[d].run] /\ JobType(Job(d))
      /\ InputsOK(jobs[d], file) /\ ProgramsOK(jobs[d], file)
  BY <1>1, PreprocessAllFacts
<1>4. /\ DOMAIN file' = DOMAIN file \cup named \cup listed
      /\ \A q \in named : file'[q] = <<"i", file[Job(d).inputs[1]]>>
      /\ \A q \in DOMAIN file \ (named \cup listed) : file'[q] = file[q]
  BY <1>2
<1>5. named \cup listed \subseteq Written(Job(d))
  BY <1>3, JobFacts, ExtensionsArePaths, <1>2 DEF Dependencies, Written
<1>6. OnlyChanged(file, file', Written(Job(d)))
  BY <1>4, <1>5 DEF OnlyChanged
<1>7. InputsOK(jobs[d], file') /\ ProgramsOK(jobs[d], file')
  BY <1>3, <1>6, PreprocessStep
<1>8. Fulfilled(Job(d), file')
  <2>1. CASE Job(d).output = NoPath BY <1>3, <2>1 DEF Promised, Fulfilled
  <2>2. CASE Job(d).output # NoPath
    <3>1. Promised(Job(d)) = [q \in {Job(d).output} |-> {<<"i", Input(Job(d).inputs[1])>>}]
      BY <1>3, <2>2 DEF Promised
    <3>2. Job(d).inputs[1] \in Inputs(Job(d))
      BY <1>3, JobFacts
    <3>3. file[Job(d).inputs[1]] = Input(Job(d).inputs[1])
      BY <1>1, <1>3, <3>2 DEF InputsOK
    <3>4. Job(d).output \in named
      BY <1>2, <2>2
    <3>5. \A p \in DOMAIN Promised(Job(d)) : p \in DOMAIN file' /\ file'[p] \in Promised(Job(d))[p]
      BY <1>4, <3>1, <3>3, <3>4
    <3> QED  BY <1>3, <3>5 DEF Fulfilled
  <2> QED  BY <2>1, <2>2
<1>9. PICK code \in {0, 1} : code = 0
  OBVIOUS
<1> QED  BY <1>1, <1>3, <1>6, <1>7, <1>8, <1>9, EndsAdvances

\* It fails and may remove its output.
LEMMA PreprocessAllFailsAdvances ==
    ASSUME Inv, NEW d \in Process, PreprocessAllFails(d) PROVE \E t : Advances(d, t)
<1>1. At(d, "preprocessAll") /\ Becomes(d, Ends(driver[d], 1))
  BY DEF PreprocessAllFails
<1>2. PICK gone : gone \subseteq {Job(d).output} /\ file' = Without(file, gone)
  BY DEF PreprocessAllFails, ToolFails
<1>3. /\ Running(d) /\ driver[d].at \notin Inside
      /\ driver[d].failed = <<>> /\ Job(d).stop = "preprocess" /\ ~Rejected(Job(d))
      /\ jobs \in JobLists /\ driver[d].run \in DOMAIN jobs[d]
      /\ Job(d) = jobs[d][driver[d].run]
      /\ InputsOK(jobs[d], file) /\ ProgramsOK(jobs[d], file)
  BY <1>1, PreprocessAllFacts
<1>4. gone \cap DOMAIN file \subseteq Written(Job(d))
  BY <1>2, <1>3 DEF Written, Inv
<1>5. OnlyChanged(file, file', Written(Job(d)))
  BY <1>2, <1>4 DEF Without, OnlyChanged
<1>6. InputsOK(jobs[d], file') /\ ProgramsOK(jobs[d], file')
  BY <1>3, <1>5, PreprocessStep
<1>7. PICK code \in {0, 1} : code = 1
  OBVIOUS
<1> QED  BY <1>1, <1>3, <1>5, <1>6, <1>7, EndsAdvances

----------------------------------------------------------------------------
(* The invariant holds.                                                    *)

\* Every step of a process is one of these.
LEMMA StepAdvances ==
    ASSUME Inv, NEW d \in Process, Step(d), ~NextRun(d) PROVE \E t : Advances(d, t)
<1>1. CASE Start(d) \/ LoadFrontEnd(d) \/ Kill(d)
  BY <1>1, StartAdvances, LoadAdvances, KillAdvances
<1>2. CASE PreprocessAll(d) \/ PreprocessAllFails(d)
  BY <1>2, PreprocessAllAdvances, PreprocessAllFailsAdvances
<1>3. CASE TakeObject(d) \/ AssembleFile(d)
  BY <1>3, TakeObjectAdvances, AssembleFileAdvances
<1>4. CASE Compile(d) \/ Preprocess(d) \/ PreprocessFails(d)
  BY <1>4, CompileAdvances, PreprocessAdvances, PreprocessFailsAdvances
<1>5. CASE Analyse(d) \/ AnalyseFails(d)
  BY <1>5, AnalyseAdvances, AnalyseFailsAdvances
<1>6. CASE OpenAssembly(d) \/ OpenAssemblyFails(d)
  BY <1>6, OpenAssemblyAdvances, OpenAssemblyFailsAdvances
<1>7. CASE Generate(d) \/ GenerateFails(d)
  BY <1>7, GenerateAdvances, GenerateFailsAdvances
<1>8. CASE Assemble(d) \/ AssembleFails(d)
  BY <1>8, AssembleAdvances, AssembleFailsAdvances
<1>9. CASE InputsEnd(d) \/ Link(d) \/ LinkFails(d)
  BY <1>9, InputsEndAdvances, LinkAdvances, LinkFailsAdvances
<1> QED  BY <1>1, <1>2, <1>3, <1>4, <1>5, <1>6, <1>7, <1>8, <1>9 DEF Step

\* A step of one process is a step of nobody else.
LEMMA AdvancesKeep ==
    ASSUME Inv, NEW d \in Process, NEW t, Advances(d, t) PROVE Inv'
<1>1. /\ jobs' = jobs /\ driver' = [driver EXCEPT ![d] = t]
      /\ driver[d].run \in DOMAIN jobs[d]
      /\ OnlyChanged(file, file', Written(Job(d)) \cup Temps(d))
      /\ ProcessOK(d, jobs[d], t, file')
  BY DEF Advances
<1>2. /\ jobs \in JobLists /\ DOMAIN driver = Process /\ NoPath \notin DOMAIN file
      /\ \A e \in Process : ProcessOK(e, jobs[e], driver[e], file)
  BY DEF Inv
<1>3. DOMAIN driver' = Process /\ driver'[d] = t /\ \A e \in Process \ {d} : driver'[e] = driver[e]
  BY <1>1, <1>2
<1>4. NoPath \notin DOMAIN file'
  BY <1>1, <1>2, ListFacts, WrittenPaths, TempNames, Outside DEF Job, Temps, IsPath, Agree
<1>5. ASSUME NEW e \in Process PROVE ProcessOK(e, jobs'[e], driver'[e], file')
  BY <1>1, <1>3, <1>2, OthersUntouched DEF Job
<1> QED  BY <1>1, <1>2, <1>3, <1>4, <1>5 DEF Inv

\* The next run of a process begins with nothing of the last one but the cache.
LEMMA NextRunKeeps ==
    ASSUME Inv, NEW d \in Process, NextRun(d) PROVE Inv'
<1>1. /\ driver[d].at = "ended" /\ ~driver[d].killed /\ driver[d].run < Len(jobs[d])
      /\ jobs' = jobs /\ file' = file
      /\ driver' = [driver EXCEPT ![d] = FreshRun([driver[d] EXCEPT !.run = driver[d].run + 1])]
  BY DEF NextRun, Becomes
<1>2. /\ jobs \in JobLists /\ DOMAIN driver = Process /\ NoPath \notin DOMAIN file
      /\ \A e \in Process : ProcessOK(e, jobs[e], driver[e], file)
  BY DEF Inv
<1>3. PICK s : s = driver[d]
  OBVIOUS
<1>4. /\ s \in StateType(s) /\ ResultsOK(s) /\ TempsOK(d, s, file)
      /\ InputsOK(jobs[d], file) /\ ProgramsOK(jobs[d], file)
      /\ s.run \in Nat \ {0} /\ s.results \in Seq({0, 1})
  BY <1>2, <1>3 DEF ProcessOK, StateType
<1>5. PICK u, t : u = [s EXCEPT !.run = s.run + 1] /\ t = FreshRun(u)
  OBVIOUS
<1>15. /\ u \in StateType(u) /\ u.run = s.run + 1 /\ u.killed = s.killed
       /\ u.results = s.results /\ u.temps = s.temps
  <2>1. s.run + 1 \in Nat \ {0}
    BY <1>4
  <2>2. PICK run \in Nat \ {0} : run = s.run + 1
    BY <2>1
  <2> QED  BY <1>4, <1>5, <2>2 DEF StateType
<1>6. /\ t \in StateType(t) /\ t.at = "start" /\ t.run = s.run + 1 /\ t.input = 1
      /\ t.exitCode = 0 /\ t.outputs = <<>> /\ t.failed = <<>> /\ t.killed = s.killed
      /\ t.results = s.results /\ t.temps = s.temps
  <2>1. /\ t \in StateType(t) /\ t.at = "start" /\ t.run = u.run /\ t.input = 1
        /\ t.exitCode = 0 /\ t.outputs = <<>> /\ t.failed = <<>> /\ t.killed = u.killed
        /\ t.results = u.results /\ t.temps = u.temps
    <3>1. PICK place \in Place : place = "start"
      BY DEF Place
    <3>8. ASSUME NEW S PROVE \E empty \in Seq(S) : empty = <<>>
      <4>1. <<>> \in Seq(S)
        OBVIOUS
      <4> QED  BY <4>1
    <3>2. PICK none \in Seq(Seq(Names)) : none = <<>>
      BY <3>8
    <3>3. PICK noFailure \in Seq([input : Nat, at : Place]) : noFailure = <<>>
      BY <3>8
    <3>4. PICK one \in Nat \ {0} : one = 1
      OBVIOUS
    <3>5. PICK zero \in {0, 1} : zero = 0
      OBVIOUS
    <3>6. t = [u EXCEPT !.at = place, !.input = one, !.exitCode = zero, !.outputs = none,
                        !.frontEnd = NoGrammar, !.failed = noFailure]
      BY <1>5, <3>1, <3>2, <3>3, <3>4, <3>5, Zenon DEF FreshRun
    <3>7. /\ t \in StateType(t) /\ t.at = place /\ t.run = u.run /\ t.input = one
          /\ t.exitCode = zero /\ t.outputs = none /\ t.failed = noFailure /\ t.killed = u.killed
          /\ t.results = u.results /\ t.temps = u.temps
      BY <1>15, <3>6 DEF StateType
    <3> QED  BY <3>1, <3>2, <3>3, <3>4, <3>5, <3>7
  <2> QED  BY <1>15, <2>1
<1>7. DOMAIN jobs[d] = 1 .. Len(jobs[d]) /\ Len(jobs[d]) \in Nat
  BY <1>2, ListFacts
<1>8. t.run \in DOMAIN jobs[d] /\ t.run # 1
  BY <1>1, <1>3, <1>4, <1>6, <1>7
<1>9. ResultsOK(t) BY <1>1, <1>3, <1>4, <1>6 DEF ResultsOK
<1>10. TempsOK(d, t, file)
  BY <1>1, <1>3, <1>4, <1>6 DEF TempsOK, Inside
<1>11. RunOK(d, jobs[d][t.run], t, file)
  BY <1>2, <1>8, ListFacts, JobFacts, <1>6 DEF PlacesOK, Inside, OutputsOK, ProductsOK, OldOK,
     RunOK
<1>12. ProcessOK(d, jobs[d], t, file)
  BY <1>4, <1>6, <1>8, <1>9, <1>10, <1>11 DEF ProcessOK
<1>13. DOMAIN driver' = Process /\ driver'[d] = t /\ \A e \in Process \ {d} : driver'[e] = driver[e]
  BY <1>1, <1>2, <1>3, <1>5
<1>14. ASSUME NEW e \in Process PROVE ProcessOK(e, jobs'[e], driver'[e], file')
  BY <1>1, <1>2, <1>12, <1>13
<1> QED  BY <1>1, <1>2, <1>13, <1>14 DEF Inv

\* The invariant holds when the processes start.
LEMMA InitInv == Init => Inv
<1> SUFFICES ASSUME Init PROVE Inv
  OBVIOUS
<1>1. PICK all, inputs :
         /\ all = UNION {ToSet(jobs[d]) : d \in Process}
         /\ inputs = UNION {Inputs(job) : job \in all} \ Missing
         /\ file = [p \in inputs \cup UNION {Written(job) : job \in all} |->
                       IF p \in inputs THEN Input(p) ELSE Old]
  BY DEF Init
<1>2. jobs \in JobLists /\ driver = [d \in Process |-> NewProcess]
  BY DEF Init
<1>3. \A job \in all : \E d \in Process : \E n \in DOMAIN jobs[d] : job = jobs[d][n]
  BY <1>1 DEF ToSet
<1>4. \A d \in Process : \A n \in DOMAIN jobs[d] : jobs[d][n] \in all /\ JobType(jobs[d][n])
  <2>1. ASSUME NEW d \in Process, NEW n \in DOMAIN jobs[d] PROVE jobs[d][n] \in all
    BY <1>1 DEF ToSet
  <2>2. ASSUME NEW d \in Process, NEW n \in DOMAIN jobs[d] PROVE JobType(jobs[d][n])
    BY <1>2, ListFacts
  <2> QED  BY <2>1, <2>2
<1>5. \A job \in all : JobType(job)
  BY <1>3, <1>4
<1>6. \A p \in DOMAIN file : IsPath(p)
  BY <1>1, <1>5, JobFacts, WrittenPaths
<1>7. NoPath \notin DOMAIN file
  BY <1>6 DEF IsPath
<1>8. ASSUME NEW job \in all, NEW p \in Written(job) PROVE p \in DOMAIN file /\ file[p] = Old
  <2>1. ASSUME NEW other \in all, p \in Inputs(other) PROVE FALSE
    BY <1>2, <1>3, <2>1, <1>8, FilesApart
  <2>2. p \notin inputs
    BY <1>1, <2>1
  <2> QED  BY <1>1, <2>2
<1>9. ASSUME NEW job \in all, NEW p \in Inputs(job), p \in DOMAIN file PROVE file[p] = Input(p)
  <2>1. ASSUME NEW other \in all, p \in Written(other) PROVE FALSE
    BY <1>2, <1>3, <2>1, <1>9, FilesApart
  <2>2. p \in inputs
    BY <1>1, <1>9, <2>1
  <2> QED  BY <1>1, <2>2
<1>10. ASSUME NEW d \in Process PROVE ProcessOK(d, jobs[d], NewProcess, file)
  <2>1. PICK s : s = NewProcess
    OBVIOUS
  <2>2. /\ s \in StateType(s) /\ s.at = "start" /\ s.run = 1 /\ s.input = 1
        /\ s.exitCode = 0 /\ s.outputs = <<>> /\ s.failed = <<>> /\ ~s.killed
        /\ s.results = <<>> /\ s.temps = {}
    BY <2>1 DEF NewProcess, StateType, Place
  <2>3. ResultsOK(s)
    BY <2>2 DEF ResultsOK
  <2>4. TempsOK(d, s, file)
    BY <1>6, <2>2, TempNames DEF TempsOK, Inside
  <2>5. InputsOK(jobs[d], file)
    BY <1>4, <1>9 DEF InputsOK
  <2>6. ProgramsOK(jobs[d], file)
    BY <1>4, ExecutableIsPath, WrittenMembers, <1>8 DEF ProgramsOK
  <2>7. DOMAIN jobs[d] = 1 .. Len(jobs[d]) /\ Len(jobs[d]) \in Nat /\ jobs[d] \in Seq(ToSet(jobs[d]))
    BY <1>2, ListFacts
  <2>8. s.run \notin DOMAIN jobs[d] => jobs[d] = <<>>
    BY <2>2, <2>7
  <2>9. ASSUME s.run \in DOMAIN jobs[d] PROVE RunOK(d, jobs[d][s.run], s, file)
    BY <1>4, <2>9, JobFacts, <2>2, WrittenForMembers, WrittenMembers, <1>8 DEF PlacesOK,
       Inside, OutputsOK, ProductsOK, Over, OldOK, RunOK
  <2>10. ProcessOK(d, jobs[d], s, file)
    BY <2>2, <2>3, <2>4, <2>5, <2>6, <2>8, <2>9 DEF ProcessOK
  <2> QED  BY <2>1, <2>10
<1> QED  BY <1>2, <1>7, <1>10 DEF Inv

\* Inv is inductive: whatever the processes do, and in whatever order, what
\* their states say of the files in Driver::run and Compiler::compile is true.
THEOREM InvHolds == Spec => []Inv
<1>1. Inv /\ [Next]_vars => Inv'
  BY NextRunKeeps, StepAdvances, AdvancesKeep DEF vars, Inv, Next, Finished
<1> QED  BY <1>1, InitInv, PTL DEF Spec

----------------------------------------------------------------------------
(* What the invariant shows.                                               *)

\* A process that has ended of its own accord has removed the temporary files
\* that Compiler::compile has made, whatever step of whatever input failed.
THEOREM NoTemporariesLeft == Spec => []NoTempLeft
<1>1. ASSUME Inv PROVE NoTempLeft BY <1>1 DEF Inv, ProcessOK, TempsOK, Inside, NoTempLeft
<1> QED  BY <1>1, InvHolds, PTL

\* The loop of Driver::run goes on after a failure: the inputs that have not
\* failed have their products, made from them, when the run ends.
THEOREM OthersDone == Spec => []OthersCompleted
<1>1. ASSUME Inv PROVE OthersCompleted
  <2>1. ASSUME NEW d \in Process, driver[d].at = "ended", ~driver[d].killed,
               driver[d].failed # <<>>,
               NEW k \in DOMAIN Job(d).inputs \ FailedInputs(d), Kind(Job(d).inputs[k]) # "object"
        PROVE  /\ Product(Job(d), Job(d).inputs[k]) \in DOMAIN file
               /\ file[Product(Job(d), Job(d).inputs[k])] \in ContentOf(Job(d), Job(d).inputs[k])
    <3>1. ProcessOK(d, jobs[d], driver[d], file) /\ jobs \in JobLists
      BY <1>1 DEF Inv
    <3>2. driver[d].run \in DOMAIN jobs[d]
      BY <2>1, <3>1 DEF ProcessOK
    <3>3. /\ JobType(Job(d)) /\ PlacesOK(Job(d), driver[d])
          /\ ProductsOK(Job(d), driver[d], file)
      BY <3>1, <3>2, ListFacts DEF ProcessOK, RunOK, Job
    <3>4. driver[d].input = Len(Job(d).inputs) + 1 /\ Job(d).stop # "preprocess"
      BY <2>1, <3>3 DEF PlacesOK
    <3>5. DOMAIN Job(d).inputs = 1 .. Len(Job(d).inputs) /\ Len(Job(d).inputs) \in Nat
      BY <3>3, JobFacts
    <3>6. k \in 1 .. driver[d].input - 1
      BY <2>1, <3>4, <3>5
    <3>7. k \notin FailedOf(driver[d])
      BY <2>1 DEF FailedInputs, FailedOf, ToSet
    <3>8. ~Over(Job(d), driver[d])
      BY <2>1, <3>4 DEF Over
    <3> QED  BY <2>1, <3>3, <3>6, <3>7, <3>8 DEF ProductsOK
  <2> QED  BY <2>1 DEF OthersCompleted, Exists
<1> QED  BY <1>1, InvHolds, PTL

\* Driver::run links all inputs of a command line or none.
THEOREM ProgramsWhole == Spec => []WholeProgram
<1>1. ASSUME Inv PROVE WholeProgram
  BY <1>1 DEF Inv, ProcessOK, WholeProgram, ProgramsOK, Exists
<1> QED  BY <1>1, InvHolds, PTL

\* Compiler::compile opens the assembly file after the analysis, so a source
\* that does not pass it leaves the file of an earlier build as it was.
THEOREM OldAssemblySafe == Spec => []OldAssemblyKept
<1>1. ASSUME Inv PROVE OldAssemblyKept
  <2>1. ASSUME NEW d \in Process, driver[d].run = 1, NEW f \in ToSet(driver[d].failed),
               Compiled(Job(d).inputs[f.input]),
               PlannedAssembly(Job(d), Job(d).inputs[f.input]) # NoPath,
               f.at \notin {"generate", "assemble"}
        PROVE  /\ PlannedAssembly(Job(d), Job(d).inputs[f.input]) \in DOMAIN file
               /\ file[PlannedAssembly(Job(d), Job(d).inputs[f.input])] = Old
    <3>1. ProcessOK(d, jobs[d], driver[d], file) /\ jobs \in JobLists
      BY <1>1 DEF Inv
    <3>2. PICK j \in DOMAIN driver[d].failed : f = driver[d].failed[j]
      BY <2>1 DEF ToSet
    <3>3. driver[d].failed # <<>>
      BY <3>2
    <3>4. driver[d].run \in DOMAIN jobs[d]
      BY <3>1, <3>3 DEF ProcessOK
    <3>5. /\ JobType(Job(d)) /\ PlacesOK(Job(d), driver[d]) /\ OldOK(Job(d), driver[d], file)
          /\ driver[d].input \in Nat
      BY <3>1, <3>4, ListFacts DEF ProcessOK, RunOK, Job, StateType
    <3>6. /\ Job(d).stop # "preprocess" /\ ~Rejected(Job(d))
          /\ f.input \in 1 .. driver[d].input - 1 /\ driver[d].input <= Len(Job(d).inputs) + 1
      BY <3>2, <3>3, <3>5 DEF PlacesOK
    <3>7. DOMAIN Job(d).inputs = 1 .. Len(Job(d).inputs) /\ Len(Job(d).inputs) \in Nat
      BY <3>5, JobFacts
    <3>8. f.input \in DOMAIN Job(d).inputs
      BY <3>5, <3>6, <3>7
    <3>9. Unopened(driver[d], f.input)
      BY <2>1, <3>2 DEF Unopened
    <3>10. ~Over(Job(d), driver[d])
      BY <3>3, <3>6 DEF Over
    <3> QED  BY <2>1, <3>5, <3>6, <3>8, <3>9, <3>10 DEF OldOK
  <2> QED  BY <2>1 DEF OldAssemblyKept, Exists
<1> QED  BY <1>1, InvHolds, PTL

----------------------------------------------------------------------------
(* The runs of all processes together implement Build.                     *)

Owned == [r \in Run |-> IF HasJob(r) THEN Written(JobOf(r)) ELSE {}]
Promise == [r \in Run |-> IF HasJob(r) THEN Promised(JobOf(r)) ELSE <<>>]
Shown == [p \in Visible |-> file[p]]
Status == [r \in Run |-> StatusOf(r)]

\* A run promises no temporary file.
LEMMA PromisedArePaths ==
    ASSUME NEW job, JobType(job), ~Rejected(job), NEW q \in DOMAIN Promised(job)
    PROVE  IsPath(q)
BY ExecutableIsPath, JobFacts, ProductWritten, WrittenForPaths DEF Promised, Rejected, AnyKind

\* What a step changes of what a user sees.
LEMMA ShownChanges ==
    ASSUME NEW W, NEW T, \A q \in T : IsTemp(q), OnlyChanged(file, file', W \cup T),
           NEW p \in (DOMAIN Shown \cup DOMAIN Shown') \ W
    PROVE  /\ p \in DOMAIN Shown <=> p \in DOMAIN Shown'
           /\ p \in DOMAIN Shown => Shown'[p] = Shown[p]
BY Outside DEF Shown, Visible, Agree

\* A step that leaves the results as they were ends no run, one that adds a
\* result ends the run that was at work.
LEMMA StatusChanges ==
    ASSUME Inv, NEW d \in Process, NEW t, Advances(d, t)
    PROVE  \E r \in Run :
              /\ r = <<d, driver[d].run>> /\ HasJob(r) /\ JobOf(r) = Job(d) /\ Status[r] = "working"
              /\ t.results = driver[d].results => Status' = Status
              /\ t.results = Append(driver[d].results, 0) =>
                     Status' = [Status EXCEPT ![r] = "succeeded"]
              /\ t.results = Append(driver[d].results, 1) =>
                     Status' = [Status EXCEPT ![r] = "failed"]
<1>1. /\ jobs' = jobs /\ driver' = [driver EXCEPT ![d] = t]
      /\ driver[d].run \in DOMAIN jobs[d] /\ driver[d].at # "ended"
  BY DEF Advances
<1>2. /\ jobs \in JobLists /\ DOMAIN driver = Process
      /\ ProcessOK(d, jobs[d], driver[d], file)
  BY DEF Inv
<1>3. PICK results, n : results = driver[d].results /\ n = driver[d].run
  OBVIOUS
<1>4. results \in Seq({0, 1}) /\ n \in Nat \ {0} /\ Len(results) = n - 1
  BY <1>1, <1>2, <1>3 DEF ProcessOK, StateType, ResultsOK
<1>5. PICK r : r = <<d, n>>
  OBVIOUS
<1>6. r[1] = d /\ r[2] = n
  BY <1>5
<1>7. DOMAIN jobs[d] = 1 .. Len(jobs[d]) /\ Len(jobs[d]) \in Nat /\ Len(jobs[d]) <= MaxRuns
  BY <1>2, ListFacts
<1>8. r \in Run /\ HasJob(r) /\ JobOf(r) = Job(d)
  BY <1>1, <1>3, <1>4, <1>7, Bound, <1>5, <1>6 DEF Run, HasJob, JobOf, Job
<1>9. Status[r] = "working" BY <1>3, <1>4, <1>6, <1>8 DEF Status, StatusOf
<1>10. /\ driver'[d] = t /\ \A e \in Process \ {d} : driver'[e] = driver[e]
  BY <1>1, <1>2
<1>11. \A q \in Run : q[1] \in Process /\ q[2] \in Nat \ {0} /\ q = <<q[1], q[2]>>
  BY Bound DEF Run
<1>12. Status' = [q \in Run |-> StatusOf(q)'] /\ DOMAIN Status = Run
  BY DEF Status, Run
<1>13. ASSUME NEW q \in Run, q[1] # d PROVE StatusOf(q)' = Status[q]
  BY <1>10, <1>11, <1>13 DEF Status, StatusOf
<1>14. ASSUME t.results = results PROVE Status' = Status
  BY <1>3, <1>10, <1>14, <1>13, <1>12 DEF Status, StatusOf
<1>15. ASSUME NEW code \in {0, 1}, t.results = Append(results, code)
       PROVE  Status' = [Status EXCEPT ![r] = IF code = 0 THEN "succeeded" ELSE "failed"]
  <2>1. PICK more : more = Append(results, code)
    OBVIOUS
  <2>2. /\ Len(more) = n /\ more[n] = code
        /\ \A k \in 1 .. n - 1 : more[k] = results[k]
    BY <1>4, <2>1, AppendProperties
  <2>3. ASSUME NEW q \in Run, q[1] = d
        PROVE  StatusOf(q)' = IF q = r THEN IF code = 0 THEN "succeeded" ELSE "failed" ELSE Status[q]
    <3>1. /\ StatusOf(q)' = IF q[2] > n THEN "working"
                            ELSE IF more[q[2]] = 0 THEN "succeeded" ELSE "failed"
          /\ Status[q] = IF q[2] > n - 1 THEN "working"
                         ELSE IF results[q[2]] = 0 THEN "succeeded" ELSE "failed"
      BY <1>3, <1>4, <1>10, <1>15, <2>1, <2>2, <2>3 DEF Status, StatusOf
    <3>2. q = r <=> q[2] = n
      BY <1>5, <1>6, <1>11, <2>3
    <3>3. CASE q[2] = n
      BY <1>4, <2>2, <3>1, <3>2, <3>3
    <3>4. CASE q[2] > n
      BY <1>4, <1>11, <3>1, <3>2, <3>4
    <3>5. CASE q[2] < n BY <1>4, <1>11, <3>5, <2>2, <3>1, <3>2
    <3> QED  BY <1>4, <1>11, <3>3, <3>4, <3>5
  <2>4. \A q \in Run : StatusOf(q)' =
           IF q = r THEN IF code = 0 THEN "succeeded" ELSE "failed" ELSE Status[q]
    BY <1>6, <1>13, <2>3
  <2> QED  BY <1>8, <1>12, <2>4
<1>16. /\ t.results = results => Status' = Status
       /\ t.results = Append(results, 0) => Status' = [Status EXCEPT ![r] = "succeeded"]
       /\ t.results = Append(results, 1) => Status' = [Status EXCEPT ![r] = "failed"]
  BY <1>14, <1>15
<1> QED  BY <1>3, <1>5, <1>8, <1>9, <1>16

\* The runs own and promise what their command lines say.
LEMMA SameJobs ==
    ASSUME jobs' = jobs PROVE Owned' = Owned /\ Promise' = Promise
BY DEF Owned, Promise, HasJob, JobOf, Run

\* A step of a run is a step Build allows it.
LEMMA StepBuilds ==
    ASSUME Inv, NEW d \in Process, NEW t, Advances(d, t)
    PROVE  Promises!BuildNext
<1>1. PICK r \in Run :
         /\ HasJob(r) /\ JobOf(r) = Job(d) /\ Status[r] = "working"
         /\ t.results = driver[d].results => Status' = Status
         /\ t.results = Append(driver[d].results, 0) =>
                Status' = [Status EXCEPT ![r] = "succeeded"]
         /\ t.results = Append(driver[d].results, 1) =>
                Status' = [Status EXCEPT ![r] = "failed"]
  BY StatusChanges
<1>2. /\ jobs' = jobs /\ OnlyChanged(file, file', Written(Job(d)) \cup Temps(d))
      /\ driver[d].run \in DOMAIN jobs[d]
      /\ \/ t.results = driver[d].results
         \/ t.results = Append(driver[d].results, 1)
         \/ t.results = Append(driver[d].results, 0) /\ Fulfilled(Job(d), file')
  BY DEF Advances
<1>3. Owned' = Owned /\ Promise' = Promise /\ Owned[r] = Written(Job(d))
      /\ Promise[r] = Promised(Job(d))
  BY <1>1, <1>2, SameJobs DEF Owned, Promise
<1>4. \A q \in Temps(d) : IsTemp(q)
  BY TempNames DEF Temps
<1>5. \A p \in (DOMAIN Shown \cup DOMAIN Shown') \ Owned[r] :
         /\ p \in DOMAIN Shown <=> p \in DOMAIN Shown'
         /\ p \in DOMAIN Shown => Shown'[p] = Shown[p]
  BY <1>2, <1>3, <1>4, ShownChanges
<1>6. Promises!OnlyOwned(r)
  BY <1>3, <1>5 DEF Promises!OnlyOwned, Promises!Same, Owned, Promise, Shown
<1>7. CASE t.results = driver[d].results
  BY <1>1, <1>6, <1>7 DEF Promises!Work, Status, Promises!BuildNext
<1>8. CASE t.results = Append(driver[d].results, 1)
  BY <1>1, <1>6, <1>8 DEF Promises!Fail, Status, Promises!BuildNext
<1>9. CASE t.results = Append(driver[d].results, 0) /\ Fulfilled(Job(d), file')
  <2>1. JobType(Job(d))
    BY <1>2, ListFacts DEF Job, Inv
  <2>2. ASSUME NEW p \in DOMAIN Promise[r]
        PROVE  p \in DOMAIN Shown' /\ Shown'[p] \in Promise[r][p]
    BY <1>3, <1>9, <2>2, <2>1, PromisedArePaths DEF Fulfilled, IsPath, Shown, Visible
  <2>3. Promises!Kept(r)
    BY <2>2 DEF Promises!Kept, Promise, Shown
  <2>4. Promises!Succeed(r)
    BY <1>1, <1>6, <1>9, <2>3 DEF Promises!Succeed, Status
  <2> QED  BY <2>4 DEF Promises!BuildNext
<1> QED  BY <1>2, <1>7, <1>8, <1>9

\* Nothing a user sees changes when a process begins its next run.
LEMMA StutterBuilds ==
    ASSUME Inv, jobs' = jobs, file' = file,
           \A d \in Process : driver'[d].results = driver[d].results
    PROVE  UNCHANGED Promises!buildVars
BY SameJobs DEF Shown, Visible, Run, StatusOf, Status, Promises!buildVars, Owned, Promise

\* Several runs of the compiler behave as Build allows: each changes its own
\* files only, and exits with 0 only when all it promised is there, made from
\* its inputs.
THEOREM BuildImplemented == Spec => ImplementsBuild
<1>1. Init => Promises!BuildInit
  BY Bound DEF Init, Run, NewProcess, StatusOf, Promises!BuildInit
<1>2. Inv /\ [Next]_vars => [Promises!BuildNext]_Promises!buildVars
  <2> SUFFICES ASSUME Inv, [Next]_vars PROVE [Promises!BuildNext]_Promises!buildVars
    OBVIOUS
  <2>1. CASE \E d \in Process : Step(d)
    <3>1. PICK d \in Process : Step(d)
      BY <2>1
    <3>2. CASE NextRun(d)
      BY <3>2, StutterBuilds DEF NextRun, Becomes, Inv, ProcessOK, FreshRun, StateType
    <3>3. CASE ~NextRun(d)
      BY <3>1, <3>3, StepAdvances, StepBuilds
    <3> QED  BY <3>2, <3>3
  <2>2. CASE UNCHANGED vars BY <2>2, StutterBuilds DEF vars
  <2> QED  BY <2>1, <2>2 DEF Next, Finished
<1> QED  BY <1>1, <1>2, InvHolds, PTL DEF Spec, ImplementsBuild, Promises!BuildSpec

=============================================================================
