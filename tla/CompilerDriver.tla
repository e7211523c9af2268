--------------------------- MODULE CompilerDriver ---------------------------
(***************************************************************************)
(* The driver (src/src/driver): Driver::run takes the inputs of a command  *)
(* line one after the other through preprocessor, front end, code          *)
(* generator and assembler, and links what they give.  Several processes   *)
(* share the file system, as under make -j; each makes the runs of its     *)
(* list one after the other, as the tests do, and keeps the grammar it has *)
(* loaded between them.  What a file holds is described by how it was      *)
(* made: <<"s", c>> is the assembly of a source that held c.               *)
(***************************************************************************)
EXTENDS Naturals, Sequences, SequencesExt

CONSTANTS
    Process,    \* the processes
    JobLists,   \* what they may be given: for each process a list of command lines
    MaxRuns,    \* bounds the length of such a list
    Names,      \* what paths consist of
    Plain,      \* the sources without a '#'
    Missing     \* the inputs that are not there

\* A path is a sequence of names: <<"a", "c">> is a.c, <<"a", "c", "o">> is a.c.o.
NoPath == <<>>
IsTemp(path) == path # NoPath /\ path[1] = "tmp"
IsPath(path) == path \in Seq(Names) /\ path # NoPath /\ ~IsTemp(path)
ASSUME Bound == MaxRuns \in Nat
ASSUME KnownNames == {"tmp", "i", "s", "d", "o", "out"} \subseteq Names
NoGrammar == "none"
WithExtension(path, ext) == SubSeq(path, 1, Len(path) - 1) \o <<ext>>
StopAfter == {"link", "object", "assembly", "preprocess"}

\* deps: -MMD, the one preprocessor option that makes it write another file
JobType(job) ==
    /\ DOMAIN job = {"inputs", "stop", "output", "saveTemps", "deps", "resources"}
    /\ job.inputs \in Seq(Seq(Names)) \ {<<>>} /\ \A p \in ToSet(job.inputs) : IsPath(p)
    /\ job.output = NoPath \/ IsPath(job.output)
    /\ job.stop \in StopAfter
    /\ {job.saveTemps, job.deps} \subseteq BOOLEAN

Kind(path) ==
    CASE Last(path) = "o" -> "object"
      [] Last(path) = "s" -> "assembly"
      [] Last(path) = "i" -> "preprocessed"
      [] OTHER -> "source"

Compiled(path) == Kind(path) \in {"source", "preprocessed"}
Inputs(job) == ToSet(job.inputs)
AnyKind(job, kind) == \E p \in Inputs(job) : Kind(p) = kind

ASSUME Jobs ==
    \A list \in JobLists : DOMAIN list = Process /\
        \A d \in Process :
            /\ list[d] \in Seq(ToSet(list[d])) /\ Len(list[d]) <= MaxRuns
            /\ \A k \in DOMAIN list[d] : JobType(list[d][k])

VARIABLES
    jobs,       \* the list of command lines of each process
    file,       \* the content of each path at which there is a file
    driver      \* of each process: see DriverType

vars == <<jobs, file, driver>>

----------------------------------------------------------------------------
(* Files.                                                                  *)

Old == <<"old">>            \* what an earlier build has left at a path
Empty == <<"empty">>
Partial == <<"partial">>    \* the code generator stopped in the middle
Input(path) == <<"input", path>>

Exists(path) == path \in DOMAIN file
Write(files, path, content) ==
    [p \in DOMAIN files \cup {path} |-> IF p = path THEN content ELSE files[p]]
Without(files, paths) == [p \in DOMAIN files \ paths |-> files[p]]

\* a program that fails removes its output or has not touched it
ToolFails(path) == \E gone \in {{}, {path}} : file' = Without(file, gone)

\* mutant of TempName: one name for all
TempNameFixed(d, ext) == <<"tmp", "trans", ext>>

\* mkstemps gives a name no other process has had
TempName(d, ext) == <<"tmp", d, ext>>

----------------------------------------------------------------------------
(* A command line.                                                         *)

\* validateInputs
Rejected(job) ==
    \/ AnyKind(job, "object") /\ job.stop # "link"
    \/ AnyKind(job, "assembly") /\ job.stop \in {"preprocess", "assembly"}
    \/ job.output # NoPath /\ Len(job.inputs) > 1 /\ job.stop \in {"object", "assembly"}
    \/ job.stop = "link" /\ job.output = NoPath /\ (Len(job.inputs) > 1 \/ AnyKind(job, "object"))

ObjectPath(job, path) ==
    IF job.stop = "object" /\ job.output # NoPath THEN job.output ELSE path \o <<"o">>

Executable(job) == IF job.output # NoPath THEN job.output ELSE job.inputs[1] \o <<"out">>

NeedsPreprocessor(job, path) == job.deps \/ path \in Missing \/ path \notin Plain

\* planCompile; NoPath stands for a temporary file
SkipPreprocess(job, path) == Kind(path) = "preprocessed" \/ ~NeedsPreprocessor(job, path)

PlannedPreprocessed(job, path) ==
    IF SkipPreprocess(job, path) THEN path
    ELSE IF job.saveTemps THEN WithExtension(path, "i") ELSE NoPath

PlannedAssembly(job, path) ==
    IF job.stop = "assembly" /\ job.output # NoPath THEN job.output
    ELSE IF job.stop = "assembly" \/ job.saveTemps THEN WithExtension(path, "s") ELSE NoPath

----------------------------------------------------------------------------
(* What a run promises, see Build.                                         *)

\* gcc names the dependency file after the file it writes
Dependencies(path) == WithExtension(path, "d")

SourceText(job, path) ==
    IF SkipPreprocess(job, path) THEN Input(path) ELSE <<"i", Input(path)>>

\* A stream of the C++ library does not report that the disk has filled up,
\* and nobody asks it: assembly may be cut off, and what is made from it.
AssemblyOf(job, path) == {<<stage, SourceText(job, path)>> : stage \in {"s", "cut"}}

ObjectOf(job, path) ==
    CASE Kind(path) = "object" -> {Input(path)}
      [] Kind(path) = "assembly" -> {<<"o", Input(path)>>}
      [] OTHER -> {<<"o", s>> : s \in AssemblyOf(job, path)}

ProgramOf(job) ==
    LET N == DOMAIN job.inputs
        all == UNION {ObjectOf(job, p) : p \in Inputs(job)}
    IN  {<<"program", objects>> :
            objects \in {o \in [N -> all] : \A k \in N : o[k] \in ObjectOf(job, job.inputs[k])}}

\* the product of one input when the run stops before the link
Product(job, path) ==
    IF job.stop = "assembly" THEN PlannedAssembly(job, path) ELSE ObjectPath(job, path)
ContentOf(job, path) ==
    IF job.stop = "assembly" THEN AssemblyOf(job, path) ELSE ObjectOf(job, path)

Promised(job) ==
    CASE job.stop = "link" -> [q \in {Executable(job)} |-> ProgramOf(job)]
      [] job.stop = "preprocess" ->
            IF job.output = NoPath THEN <<>>
            ELSE [q \in {job.output} |-> {<<"i", Input(job.inputs[1])>>}]
      [] OTHER ->
            [q \in {Product(job, p) : p \in Inputs(job)} |->
                UNION {ContentOf(job, p) : p \in {r \in Inputs(job) : Product(job, r) = q}}]

\* every path a run may write, its temporary files left aside
WrittenFor(job, path) ==
    (IF job.stop \in {"link", "object"} /\ Kind(path) # "object" THEN {ObjectPath(job, path)} ELSE {})
    \cup (IF Compiled(path) THEN {PlannedAssembly(job, path)} ELSE {})
    \cup (IF Compiled(path) /\ ~SkipPreprocess(job, path) /\ job.saveTemps
          THEN {WithExtension(path, "i"), WithExtension(path, "d")} ELSE {})

Written(job) ==
    (CASE job.stop = "preprocess" ->
            {job.output} \cup {Dependencies(IF job.output = NoPath THEN p ELSE job.output)
                               : p \in Inputs(job)}
       [] job.stop = "link" -> {Executable(job)} \cup UNION {WrittenFor(job, p) : p \in Inputs(job)}
       [] OTHER -> UNION {WrittenFor(job, p) : p \in Inputs(job)}) \ {NoPath}

----------------------------------------------------------------------------
(* What the promises take for granted: that nobody else uses the files.    *)

\* No run writes what a run takes as an input, and different processes write
\* different files; the runs of one process may write the same.
ASSUME FilesApart ==
    \A list \in JobLists, d, e \in Process : \A m \in DOMAIN list[d], n \in DOMAIN list[e] :
        /\ Written(list[d][m]) \cap Inputs(list[e][n]) = {}
        /\ d # e => Written(list[d][m]) \cap Written(list[e][n]) = {}

\* The inputs of a command line have different names without their extensions,
\* and the output it names is not what the preprocessor writes for an input.
Separate(job) ==
    /\ \A k, l \in DOMAIN job.inputs : k # l =>
           WrittenFor(job, job.inputs[k]) \cap WrittenFor(job, job.inputs[l]) \subseteq {NoPath}
    /\ \A p \in Inputs(job) :
           PlannedAssembly(job, p) \notin {WithExtension(p, "i"), WithExtension(p, "d")}

ASSUME InputsApart ==
    \A list \in JobLists, d \in Process : \A n \in DOMAIN list[d] :
        Rejected(list[d][n]) \/ Separate(list[d][n])

\* Where a program is linked the process puts nothing but that program.
ASSUME ProgramsApart ==
    \A list \in JobLists, d \in Process : \A m, n \in DOMAIN list[d] :
        LET job == list[d][m]
            other == list[d][n]
        IN  (/\ job.stop = "link" /\ Executable(job) \in Written(other)
             /\ ~Rejected(job) /\ ~Rejected(other)) =>
                /\ other.stop = "link" /\ Executable(other) = Executable(job)
                /\ ProgramOf(other) = ProgramOf(job)
                /\ \A p \in Inputs(other) : Executable(job) \notin WrittenFor(other, p)

----------------------------------------------------------------------------
(* The state of a process.                                                 *)
(*                                                                         *)
(* at       where it is in Driver::run and Compiler::compile               *)
(* run      the run it makes, and the input it is at                       *)
(* exitCode what Driver::run will return                                   *)
(* outputs  the paths of the products so far                               *)
(* temps    the temporary files it owns; the paths of the preprocessed and *)
(*          the assembly file of the input; tree is what was parsed        *)
(* cache    the grammar of the front end it keeps, and the path it goes by *)
(* frontEnd the grammar of the front end this run has been given           *)
(* failed   the inputs that failed, and where; killed, that the process was *)
(* results  the exit codes of its runs                                     *)

Place == {"start", "preprocessAll", "load", "next", "preprocess", "analyse", "open",
          "generate", "assemble", "link", "ended"}

FreshRun(d) ==
    [d EXCEPT !.at = "start", !.input = 1, !.exitCode = 0, !.outputs = <<>>, !.frontEnd = NoGrammar,
              !.failed = <<>>]

NewProcess ==
    [at |-> "start", run |-> 1, input |-> 1, exitCode |-> 0, outputs |-> <<>>, temps |-> {},
     preprocessed |-> NoPath, assembly |-> NoPath, tree |-> Empty,
     cache |-> [grammar |-> NoGrammar, path |-> NoGrammar], frontEnd |-> NoGrammar,
     failed |-> <<>>, killed |-> FALSE, results |-> <<>>]

Init ==
    /\ jobs \in JobLists
    /\ driver = [d \in Process |-> NewProcess]
    /\ LET all == UNION {ToSet(jobs[d]) : d \in Process}
           inputs == UNION {Inputs(job) : job \in all} \ Missing
       IN  file = [p \in inputs \cup UNION {Written(job) : job \in all} |->
                    IF p \in inputs THEN Input(p) ELSE Old]

Running(d) == driver[d].at # "ended" /\ driver[d].run <= Len(jobs[d])
Job(d) == jobs[d][driver[d].run]
Path(d) == Job(d).inputs[driver[d].input]
At(d, place) == driver[d].at = place /\ Running(d)
Becomes(d, state) == driver' = [driver EXCEPT ![d] = state] /\ UNCHANGED jobs

Ends(state, code) ==
    [state EXCEPT !.at = "ended", !.exitCode = code, !.results = Append(@, code)]

----------------------------------------------------------------------------
(* Driver::run before the inputs.                                          *)

Start(d) ==
    /\ At(d, "start")
    /\ LET job == Job(d)
       IN  Becomes(d,
            IF Rejected(job) THEN Ends(driver[d], 1)
            ELSE [driver[d] EXCEPT !.at =
                    IF job.stop = "preprocess" THEN "preprocessAll"
                    ELSE IF AnyKind(job, "source") \/ AnyKind(job, "preprocessed") THEN "load"
                    ELSE "next"])
    /\ UNCHANGED file

\* gcc takes one output for one input only
PreprocessAll(d) ==
    /\ At(d, "preprocessAll")
    /\ LET job == Job(d)
           named == {job.output} \ {NoPath}
           listed == IF ~job.deps THEN {}
                     ELSE {Dependencies(IF job.output = NoPath THEN p ELSE job.output)
                           : p \in Inputs(job)}
       IN  /\ \A p \in Inputs(job) : Exists(p)
           /\ job.output # NoPath => Len(job.inputs) = 1
           /\ file' = [q \in DOMAIN file \cup named \cup listed |->
                         CASE q \in named -> <<"i", file[job.inputs[1]]>>
                           [] q \in listed \ named -> <<"d", q>>
                           [] OTHER -> file[q]]
    /\ Becomes(d, Ends(driver[d], 0))

PreprocessAllFails(d) ==
    /\ At(d, "preprocessAll")
    /\ ToolFails(Job(d).output)
    /\ Becomes(d, Ends(driver[d], 1))

\* LanguageFrontEnd::load, the cache it leaves
Loaded(cache, path, readable) ==
    IF cache.path = path \/ ~readable THEN cache ELSE [grammar |-> path, path |-> path]

LoadFrontEnd(d) ==
    /\ At(d, "load")
    /\ \E readable \in BOOLEAN :
        LET path == Job(d).resources
            state == [driver[d] EXCEPT !.cache = Loaded(@, path, readable)]
        IN  Becomes(d, IF readable \/ driver[d].cache.path = path
                       THEN [state EXCEPT !.at = "next", !.frontEnd = state.cache.grammar]
                       ELSE Ends(state, 1))
    /\ UNCHANGED file

----------------------------------------------------------------------------
(* The loop over the inputs.  Leaving compile, whichever way, removes its  *)
(* temporary files.                                                        *)

\* mutant of Left: the files are removed when the input has succeeded, not here
LeftBehind(d) == file

Left(d) == Without(file, driver[d].temps)

\* the locals of compile are gone
LeftCompile(state) ==
    [state EXCEPT !.at = "next", !.input = @ + 1, !.temps = {}, !.preprocessed = NoPath,
                  !.assembly = NoPath, !.tree = Empty]

Failure(state) == Append(state.failed, [input |-> state.input, at |-> state.at])

\* mutant of InputFailed: the first failure ends the run
StopAtFailure(state) == Ends([LeftCompile(state) EXCEPT !.failed = Failure(state)], 1)

\* the rest of a run goes on without an input that failed
InputFailed(state) == [LeftCompile(state) EXCEPT !.exitCode = 1, !.failed = Failure(state)]

InputDone(state, path) == [LeftCompile(state) EXCEPT !.outputs = Append(@, path)]

\* a step of compile that fails and has touched no file but the temporary ones
Fails(d) ==
    /\ file' = Left(d)
    /\ Becomes(d, InputFailed(driver[d]))

More(d) == At(d, "next") /\ driver[d].input <= Len(Job(d).inputs)

TakeObject(d) ==
    /\ More(d) /\ Kind(Path(d)) = "object"
    /\ Becomes(d, InputDone(driver[d], Path(d)))
    /\ UNCHANGED file

AssembleFile(d) ==
    /\ More(d) /\ Kind(Path(d)) = "assembly"
    /\ LET object == ObjectPath(Job(d), Path(d))
       IN  \/ /\ Exists(Path(d))
              /\ file' = Write(file, object, <<"o", file[Path(d)]>>)
              /\ Becomes(d, InputDone(driver[d], object))
           \/ /\ ToolFails(object)
              /\ Becomes(d, InputFailed(driver[d]))

\* materialize: the planned path, or a temporary file that is created now
Compile(d) ==
    /\ More(d) /\ Compiled(Path(d))
    /\ LET planned == PlannedPreprocessed(Job(d), Path(d))
           temp == TempName(d, "i")
           place == IF SkipPreprocess(Job(d), Path(d)) THEN "analyse" ELSE "preprocess"
       IN  IF planned # NoPath
           THEN /\ Becomes(d, [driver[d] EXCEPT !.at = place, !.preprocessed = planned])
                /\ UNCHANGED file
           ELSE \/ /\ Becomes(d, [driver[d] EXCEPT !.at = place, !.preprocessed = temp,
                                                   !.temps = {temp}])
                   /\ file' = Write(file, temp, Empty)
                \/ Fails(d)

Preprocess(d) ==
    /\ At(d, "preprocess") /\ Exists(Path(d))
    /\ LET target == driver[d].preprocessed
           text == Write(file, target, <<"i", file[Path(d)]>>)
       IN  file' = IF Job(d).deps THEN Write(text, Dependencies(target), <<"d", Path(d)>>) ELSE text
    /\ Becomes(d, [driver[d] EXCEPT !.at = "analyse"])

PreprocessFails(d) ==
    /\ At(d, "preprocess")
    /\ \E gone \in {{}, {driver[d].preprocessed}} : file' = Without(Left(d), gone)
    /\ Becomes(d, InputFailed(driver[d]))

\* mutant of AfterAnalysis: the assembly file is opened before the analysis
OpenedFirst(d) ==
    IF PlannedAssembly(Job(d), Path(d)) = NoPath THEN file
    ELSE Write(file, PlannedAssembly(Job(d), Path(d)), Empty)

AfterAnalysis(d) == file

\* scanner, parser, semantic analysis and the intermediate representation
Analyse(d) ==
    /\ At(d, "analyse") /\ Exists(driver[d].preprocessed)
    /\ file' = AfterAnalysis(d)
    /\ Becomes(d, [driver[d] EXCEPT !.at = "open", !.tree = file[driver[d].preprocessed]])

AnalyseFails(d) ==
    /\ At(d, "analyse")
    /\ file' = Without(AfterAnalysis(d), driver[d].temps)
    /\ Becomes(d, InputFailed(driver[d]))

OpenAssembly(d) ==
    /\ At(d, "open")
    /\ LET planned == PlannedAssembly(Job(d), Path(d))
           path == IF planned = NoPath THEN TempName(d, "s") ELSE planned
       IN  /\ file' = Write(file, path, Empty)
           /\ Becomes(d, [driver[d] EXCEPT !.at = "generate", !.assembly = path,
                            !.temps = @ \cup (IF planned = NoPath THEN {path} ELSE {})])

OpenAssemblyFails(d) == At(d, "open") /\ Fails(d)

\* the temporary files of a finished input go, its product stays
Done(d, files, path) ==
    /\ file' = Without(files, driver[d].temps)
    /\ Becomes(d, InputDone(driver[d], path))

Generate(d) ==
    /\ At(d, "generate")
    /\ \E stage \in {"s", "cut"} :
        LET written == Write(file, driver[d].assembly, <<stage, driver[d].tree>>)
        IN  IF Job(d).stop = "assembly" THEN Done(d, written, driver[d].assembly)
            ELSE /\ file' = written
                 /\ Becomes(d, [driver[d] EXCEPT !.at = "assemble"])

\* an internal error of the code generator
GenerateFails(d) ==
    /\ At(d, "generate")
    /\ file' = Without(Write(file, driver[d].assembly, Partial), driver[d].temps)
    /\ Becomes(d, InputFailed(driver[d]))

Assemble(d) ==
    /\ At(d, "assemble") /\ Exists(driver[d].assembly)
    /\ LET object == ObjectPath(Job(d), Path(d))
       IN  Done(d, Write(file, object, <<"o", file[driver[d].assembly]>>), object)

AssembleFails(d) ==
    /\ At(d, "assemble")
    /\ \E gone \in {{}, {ObjectPath(Job(d), Path(d))}} : file' = Without(Left(d), gone)
    /\ Becomes(d, InputFailed(driver[d]))

----------------------------------------------------------------------------
(* The end of a run.                                                       *)

\* mutant of ReadyToLink: what there is is linked
LinkWhatThereIs(d) == Job(d).stop = "link" /\ driver[d].outputs # <<>>

ReadyToLink(d) ==
    driver[d].exitCode = 0 /\ Job(d).stop = "link" /\ driver[d].outputs # <<>>

InputsEnd(d) ==
    /\ At(d, "next") /\ driver[d].input > Len(Job(d).inputs)
    /\ Becomes(d, IF ReadyToLink(d) THEN [driver[d] EXCEPT !.at = "link"]
                  ELSE Ends(driver[d], driver[d].exitCode))
    /\ UNCHANGED file

Link(d) ==
    /\ At(d, "link")
    /\ \A k \in DOMAIN driver[d].outputs : Exists(driver[d].outputs[k])
    /\ LET outputs == driver[d].outputs
       IN  file' = Write(file, Executable(Job(d)),
                         <<"program", [k \in DOMAIN outputs |-> file[outputs[k]]]>>)
    /\ Becomes(d, Ends(driver[d], 0))

LinkFails(d) ==
    /\ At(d, "link")
    /\ ToolFails(Executable(Job(d)))
    /\ Becomes(d, Ends(driver[d], 1))

\* the process makes its next run; the cache is what it keeps
NextRun(d) ==
    /\ driver[d].at = "ended" /\ ~driver[d].killed /\ driver[d].run < Len(jobs[d])
    /\ Becomes(d, FreshRun([driver[d] EXCEPT !.run = @ + 1]))
    /\ UNCHANGED file

\* a signal, or an exception that Driver::run does not catch, ends the process
Kill(d) ==
    /\ Running(d)
    /\ Becomes(d, [Ends(driver[d], 1) EXCEPT !.killed = TRUE])
    /\ UNCHANGED file

AllEnded(d) == ~Running(d) /\ (driver[d].killed \/ driver[d].run >= Len(jobs[d]))

Finished == (\A d \in Process : AllEnded(d)) /\ UNCHANGED vars

Step(d) ==
    \/ Start(d) \/ PreprocessAll(d) \/ PreprocessAllFails(d) \/ LoadFrontEnd(d)
    \/ TakeObject(d) \/ AssembleFile(d)
    \/ Compile(d) \/ Preprocess(d) \/ PreprocessFails(d) \/ Analyse(d) \/ AnalyseFails(d)
    \/ OpenAssembly(d) \/ OpenAssemblyFails(d) \/ Generate(d) \/ GenerateFails(d)
    \/ Assemble(d) \/ AssembleFails(d)
    \/ InputsEnd(d) \/ Link(d) \/ LinkFails(d) \/ NextRun(d) \/ Kill(d)

Next == (\E d \in Process : Step(d)) \/ Finished

Spec == Init /\ [][Next]_vars

----------------------------------------------------------------------------
Paths == DOMAIN file \cup {NoPath}

TypeOK ==
    /\ jobs \in JobLists
    /\ \A d \in Process :
        LET state == driver[d]
        IN  /\ state.at \in Place /\ state.run \in 1 .. Len(jobs[d]) + 1
            /\ state.input \in Nat \ {0} /\ state.exitCode \in {0, 1}
            /\ state.temps \subseteq {TempName(d, "i"), TempName(d, "s")}
            /\ Len(state.outputs) + Len(state.failed) < state.input
            /\ Len(state.results) \in {state.run - 1, state.run}

\* The runs of all processes together behave as Build allows: a run writes its
\* own files only, never an input or a file of another run, and exits with 0
\* only when everything its command line asks for is there, made from its
\* inputs and not left over from an earlier build.
Run == {<<d, n>> : d \in Process, n \in 1 .. MaxRuns}
StatusOf(r) ==
    LET results == driver[r[1]].results
    IN  IF r[2] > Len(results) THEN "working"
        ELSE IF results[r[2]] = 0 THEN "succeeded" ELSE "failed"

JobOf(r) == jobs[r[1]][r[2]]
HasJob(r) == r[2] <= Len(jobs[r[1]])
Visible == {p \in DOMAIN file : ~IsTemp(p)}

Promises == INSTANCE Build WITH
    owned <- [r \in Run |-> IF HasJob(r) THEN Written(JobOf(r)) ELSE {}],
    promise <- [r \in Run |-> IF HasJob(r) THEN Promised(JobOf(r)) ELSE <<>>],
    file <- [p \in Visible |-> file[p]],
    status <- [r \in Run |-> StatusOf(r)]

ImplementsBuild == Promises!BuildSpec

\* A process that has ended of its own accord leaves no temporary file,
\* whatever step of whatever input has failed.
NoTempLeft ==
    \A d \in Process : (driver[d].at = "ended" /\ ~driver[d].killed) =>
        \A p \in DOMAIN file : IsTemp(p) => p \notin {TempName(d, "i"), TempName(d, "s")}

FailedInputs(d) == {f.input : f \in ToSet(driver[d].failed)}

\* One input that fails takes none of the others with it: when the run ends,
\* each of the others has its product, made from that input.
OthersCompleted ==
    \A d \in Process :
        (driver[d].at = "ended" /\ ~driver[d].killed /\ driver[d].failed # <<>>) =>
            \A k \in DOMAIN Job(d).inputs \ FailedInputs(d) :
                LET p == Job(d).inputs[k]
                IN  Kind(p) # "object" =>
                    Exists(Product(Job(d), p)) /\ file[Product(Job(d), p)] \in ContentOf(Job(d), p)

\* A program that is there was linked from all inputs of its command line, in
\* their order: a run with a failed input does not link the rest.
WholeProgram ==
    \A d \in Process : \A n \in DOMAIN jobs[d] :
        LET job == jobs[d][n]
        IN  job.stop = "link" /\ ~Rejected(job) /\ Exists(Executable(job)) =>
            file[Executable(job)] \in {Old} \cup ProgramOf(job)

\* The assembly file an earlier build has left stays as it was as long as the
\* new source has not passed the front end.
OldAssemblyKept ==
    \A d \in Process : driver[d].run = 1 =>
        \A f \in ToSet(driver[d].failed) :
            LET input == Job(d).inputs[f.input]
                path == PlannedAssembly(Job(d), input)
            IN  Compiled(input) /\ path # NoPath /\ f.at \notin {"generate", "assemble"} =>
                Exists(path) /\ file[path] = Old

=============================================================================
