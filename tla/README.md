# A verification project for trans

trans is a C compiler written in C++: a driver runs each source through gcc's
preprocessor, a table-driven scanner and LALR(1) parser, semantic analysis, an
intermediate representation (IR) with optimisation passes and an x86-64 code
generator, and hands the assembly to `as` and `gcc`. This directory holds TLA+
specifications translated from that code, the TLC instances that check them, and
proofs checked by TLAPS. Paths below are relative to `src/src/` of the repository
unless they say otherwise.

## 1. The system

| component | state it keeps | operations | interacts with |
| --- | --- | --- | --- |
| Driver (`driver/Driver.cpp`, `Compiler.cpp`) | inputs, exit code, products so far, temporary files | validate, preprocess, compile, assemble, link | everything below; the file system; other compilers on it |
| Front end cache (`LanguageFrontEnd.cpp`) | one grammar and table, the path they were read from, a mutex | load | driver |
| Command line (`ConfigurationParser.cpp`, `Configuration.cpp`) | option table, the most restrictive stop stage | parse | driver |
| Child processes (`util/Process.cpp`) | six pipe ends, offset of the input written, captured output | runProcess, pumpIo | preprocessor, assembler, linker; signals; the descriptors it inherits |
| Scanner (`scanner/`) | automaton, current line, look-ahead | next token by longest match | token stream, identifier and type tables |
| Token stream and parse feedback (`parser/TokenStream.cpp`, `scanner/LexicalSession.h`, `ast/ParseEnvironment.cpp`) | one token of look-ahead; scopes of typedef names, objects and enumerators; packed records | advance, classify, declare, push and pop scopes | scanner below, parser reductions above (a feedback loop) |
| Table generator and LR parser (`parser/`, `ast/LR1Parser.cpp`) | item sets, FIRST sets, actions, the parse stack | generate, compile, shift, reduce | grammar file, tree builder |
| Syntax tree (`ast/`) | a dozen typed stacks of partial trees | one creator per production | parser, analysis |
| Semantic analysis (`semantic_analyzer/`) | scopes of the symbol table, annotations, labels | enter and leave scopes, declare, check, fold constants | tree, types, IR generation |
| Initialisers (`semantic_analyzer/Aggregate*`, `InitializerLowering.cpp`) | a cursor into a type, the words written so far | walk designators and elided braces; words of `.data`, plan of stores | analysis, IR generation |
| Types (`types/`) | a cursor while a record is laid out | layout, late packing, compatibility, classification by eightbytes | builder, analysis, code generator |
| IR generation (`codegen/CodeGeneratingVisitor*`) | instructions of a procedure, break and continue targets | append | tree, passes |
| IR passes (`codegen/IrPasses.cpp`, `IrInline`, `Licm`, `StrengthReduce`, `Loops`) | available values, copies and loads within a pass | rewrite a procedure | IR, liveness |
| Liveness and frame layout (`codegen/Liveness.cpp`, `Cfg.cpp`, `FrameLayout.cpp`) | live sets per block, frame slots | fixpoint, first fit | IR, register cache |
| Register cache (`codegen/StackMachine*.cpp`, `Register`, `Value`) | which register holds the value of which symbol | one handler per IR instruction | liveness, instruction set |
| Instruction text (`codegen/InstructionSet.cpp`, `Assembly*`) | none | format | register cache |

What is hard to test, in the order of how much it can hurt:

* **Register cache.** A write-back cache whose cache lines are registers and
  whose handlers take registers for implicit operands, scratch values and
  arguments. One forgotten write-back is a wrong program, at one call order, at
  one register pressure. Correct means: no current value is ever lost, no operand
  is read out of date, every label is reached with one agreed state.
* **Child processes.** Two processes, three bounded pipes, signals, closed
  standard streams, early exits. Correct means: all data arrives, nothing leaks,
  the call ends.
* **Driver.** Many ways to fail half-way, several inputs, stale products of
  earlier builds, concurrent compilers. Correct means: exit status 0 is true,
  and a failure damages nothing else.
* **Parse feedback.** A name is classified while the declaration that changes its
  class is still on the parse stack. Correct means: every token is classified by
  the declarations before it, and by no other.
* **IR passes, inliner, liveness, frame layout.** Facts that go stale after a store or
  a call; copies that share names with their callers; data flow around back edges; two
  values in one slot. Correct means: the rewritten program does the same; values that
  share a slot are never both live.
* **Names and linkage.** A declaration is merged into what earlier ones left, in any order,
  at file scope and in blocks; scopes, loops and switches open and close. Correct means:
  a name denotes, a jump reaches and the object file exports what C says, and what C does
  not allow is refused.
* **Initialisers.** A cursor moved by elements, elided braces and designators, two sinks
  that place what it points at. Correct means: every object begins with the value C
  says, whether static or local.
* **Table generator.** A worklist whose states are processed again when lookaheads reach
  them late. Correct means: the parser accepts the language of the grammar file, and an
  ambiguous grammar is refused.
* **Tree builder.** Some two hundred creators that share stacks. Correct means: a node is
  built of the operands of its own production.
* **Layout and classification.** Many cases at boundaries of bits and eightbytes. Correct
  means: what the host's compiler does with the same type.

`PROJECT.json` lists every hazard at its line with the properties that cover it.

## 2. Modules

| module | models | kind |
| --- | --- | --- |
| `StackMachine` | the register cache, one action per instruction handler | specification |
| `StackMachineProofs` | lemmas about its operators, one lemma per handler; the theorems | proofs |
| `Descriptors` | descriptor tables: pipe, dup2, close, moving pipe ends above the standard streams | operators |
| `ChildProcess` | one call of `runProcess`: compiler, child and pipes | specification |
| `ChildProcessProofs` | its inductive invariant and theorems | proofs |
| `Build` | what a user may rely on: runs, their files, success and failure | abstract specification |
| `CompilerDriver` | `Driver::run`, `Compiler::compile`, temporary files, front end cache; implements `Build` | specification |
| `CompilerDriverProofs` | its inductive invariant, its theorems, the refinement | proofs |
| `Ir` | instructions, what they use and define, procedures | operators |
| `FlowGraph` | blocks and edges, jump threading, liveness, frame slots, dominators, loops, preheaders | operators |
| `ControlFlow` | a body of instructions as it is generated, sealed, cleaned and given preheaders | specification |
| `ControlFlowProofs` | what the analyses of blocks compute, the invariant of the bodies, the theorems | proofs |
| `MachineWords` | arithmetic of a machine word as `evalBinary` does it | operators |
| `Inliner`, `ScalarPasses`, `LoadForwarding`, `LoopPasses` | the IR passes | operators |
| `CodeGeneration` | lowering of statements and expressions to IR | operators |
| `IrMachine` | what a unit of procedures does when it runs: the reference the passes are held against | operators |
| `MiddleEnd` | the functions of a unit from their trees through every pass to their frames, one action per stage of `runIrPasses` and `generateIr` | specification |
| `LrAutomaton` | FIRST, closure, item sets, worklist, actions and conflicts, the compiled table and its look-up | operators |
| `TableGenerator` | one generation of a table, one state of the worklist at a time; the reference automaton and language | specification |
| `CGrammar` | the productions of `grammar.bnf`, and the tables `LrAutomaton` makes of them | operators |
| `LexicalSession` | what scanner and parser share: names, parse-time types, enumerators, packed records | operators |
| `TokenStream` | the token of look-ahead: classification, context, effects of braces and semicolons | operators |
| `TreeBuilder` | the creator of every production: the stacks it takes from and gives to | operators |
| `Parser` | `runLrParse` with stream, session and builder around it, over a source written with the meaning C gives it | specification |
| `SymbolTable` | the symbol table with its scopes and entries | operators |
| `SemanticAnalysis` | the walk over declarations and statements: names, linkage, homes, jumps, and what C says of them | specification |
| `SemanticAnalysisProofs` | the invariant of the jumps and the theorem that they go as written | proofs |
| `ScopeBooks` | the invariant that the symbol table and the frames agree with the source | proofs |
| `ScopeProofs` | what follows from it: names, homes, frames and exports, and what is refused | proofs |
| `RecordLayout` | the layout of a record member by member, completion, late packing; the layout the host uses | specification |
| `RecordLayoutProofs` | the invariant of the layout and its theorems | proofs |
| `SysVClassify` | classification of a type by eightbytes, and its definition | operators |
| `AggregateInit` | the walk over type and initializer | operators |
| `Initializers` | an object from the layout of its type to its bytes, by data words and by stores; what C says it holds | specification |
| `MC...` | the small instance of each specification | for TLC |

The modules follow the calls: `CompilerDriver` takes a tool as a step that succeeds
or fails, `ChildProcess` says what such a call is, and inside the driver's step
`Generate` a source goes through `Parser`, which runs with the tables that the operators
of `TableGenerator` make; its declarations and statements are checked as in
`SemanticAnalysis`; its types and initializers are laid out as in `Initializers`;
its functions go through `MiddleEnd` and then, instruction by instruction, through
`StackMachine`. What `StackMachine` assumes of liveness is what
`LivenessExact` and `SlotsDisjoint` check of the module before it.

### StackMachine

`cache` is the compile-time state of `StackMachine` together with the run-time facts
that decide whether it is right. `held` is `Register::valueHeld`, `bound` is
`Value::assignedRegister`; `value[r]` says whose current value register r has when
the emitted code runs, `home` whose memory is current. An instruction handler changes
both in one step: it calls the same helpers as the code (`Obtain` is
`get64BitRegisterExcluding` with the write-back it makes, `AssignRegisterTo`,
`BindResult`, `StoreRegisterValue`, ...), and each helper says what it emits does.
`misread` collects the operands the last instruction read out of date, by the kind of
reader. `FinishInstruction` frees what dies; `Emit` composes the two in the order of
`StackMachine::emit`.

The program is not fixed. Along one execution path any handler may come next with any
operands, and `needed`, the symbols the rest of the path may read, shrinks and grows as
a correct liveness analysis would allow; that is the one assumption about the
compiler's other parts. `Label` and `Jump` move along an edge of the control flow graph,
`Call` runs a callee that may read and write what is exposed to it, `StartProcedure`
and `EndProcedure` begin and end a procedure.

Abstracted: the contents of xmm and x87 registers (no value is kept in one between
instructions), the words of a multi-word object (one of them stands for all; the
handlers that hold two at once name both), widths except for narrow integers, which go
through an extension, and the text of the instructions.

### ChildProcess and Descriptors

The parent's place in `runProcess` and `pumpIo`, one system call per step: `poll`, then
stdin, stdout, stderr, by what that one `poll` said. `Descriptors` has both tables, so
closing, copying and inheriting descriptors is what makes a pipe lose its last reader
or writer, as in the kernel. A blocking `write` stays at `write` until all has gone
into the pipe. The child is any program: it reads, writes, closes its streams and exits
in any order, and may leave descendants that hold its descriptors. A child that blocks
is at `reading`, `stdout` or `stderr` with its action disabled.

### Build and CompilerDriver

The content of a file says how it was made: `<<"o", <<"s", Input(p)>>>>` is the object
of the assembly of what the user wrote at p; `Old` is what an earlier build left. So
"exit 0 means the products are there and are the new ones" is an equation. Each process
has a list of command lines it runs one after the other (the compiler makes one run,
the repository's tests many in one process), the record `driver[d]` is the locals of
`Driver::run` and `Compiler::compile`, and one action is one step that can fail by
itself. `Left` is the destructor of `ScopedTempFile`, part of every action that leaves
`compile`. `Kill` ends the process anywhere.

`Build` knows runs, the files each owns and the contents it promises. `ImplementsBuild`
is the refinement: `Promises!BuildSpec`, with `file` without the temporary files and
`status` from the exit codes; `owned` and `promise` are computed from the command lines.

### Ir, FlowGraph and ControlFlow

An instruction is a record with the fields of `Instruction`; a constant is kept as its
value instead of the id of its text. Operators that every pass treats alike have one
representative (`Add` for the bitwise operators and shifts, `UnaryMinus` for the other
unary ones, `Div` for `Mod`). `FlowGraph` has the algorithms of `Cfg.cpp`, `Liveness.cpp`,
`FrameLayout.cpp`, `Loops.cpp`, `Preheader.cpp` and `LoopFacts.cpp` as operators;
fixpoints are recursive functions on sets that grow or shrink.

`ControlFlow` appends instructions in any order that a source can ask for, with `goto`
and code after a `return`, and takes the body through `Seal`, `CleanBlocks` and
`InsertPreheaders`. Its properties use none of the algorithms: they speak of paths
through the instructions. `SamePaths` runs the body and its source side by side.

### MiddleEnd and what it is made of

`GenerateCode` lowers each function as the visitor does, `Seal` and `CleanBlocks` are the
first two lines of `runIrPasses`, `InlineCalls` is `inlineProcedures` with the cleaning of
the callers it changed, `FoldOnce` is one round of `foldToFixpoint` at each of its three
places, `DropDeadTemps`, `OptimizeLoops`, `ShareValues` and `ForwardLoads` are the loops
over the procedures between them, and `PackFrame` is `packFrameValues`. Each pass is an
operator from procedures to procedures, in the module of its file. New ids and labels are
taken from a range of each procedure's own (`Spacing`), where the code takes them from
one table; only their being new matters.

`IrMachine` runs the first procedure of a unit on given arguments. What can be seen of a
run is the sequence of its calls to functions elsewhere, with their arguments and the
contents of everything the callee can reach, its accesses of volatile objects, and its
result. Calls within the unit are not seen, they run. A callee elsewhere changes
everything it can reach; a volatile object reads differently each time. An object of a
call in progress is named by its depth, its procedure and its id, and addresses are seen
as the place of their object among those exposed so far: so a call and the copy that
replaces it, whose objects have other names, look the same. A run that C leaves undefined
(division by zero, a decision on a value never written) or that goes on for longer than
`Fuel` instructions promises nothing. Before `PackFrame` each value has a cell of its own,
afterwards it has its words of the frame, so that `BehaviourKept` also covers the sharing
of slots.

The bodies that `CodeGeneration` and the passes give for some 350 random functions, and
those `Inliner` and all that follows give for some 300 random units of two to four
functions, were compared with what the compiler prints with `-fdump-ir` at `-O0` and
`-O1`; they agree up to the names of labels and temporaries.

### LrAutomaton and TableGenerator

An item set is held as the code holds it: a kernel, and the nonterminals that the closure
expands with one set of lookaheads each. The action `CollectState` takes the state in front
of the queue, closes it and makes or extends its successors, which go back on the queue
when they got something new; `Collected` reads the actions off the item sets, `Conflict`
is where two disagree, `CompileTable` makes the arrays of `CompileParsingTable`, and
the parser that `AcceptsLanguage` runs looks its cells up in those. The reference is the textbook's: LR(1) item sets as
sets of items with the closure as a least fixpoint, for LALR(1) merged by their cores; and
the words a grammar derives, by concatenation, up to a bound.

### Parser, and the feedback around it

`Parser` is the loop of `runLrParse`: `Shift`, `Reduce`, which runs the creator, `Accept`
and `Reject`. `TokenStream` is one token ahead. The session is
changed from both sides: by the stream as it consumes braces and semicolons, and by
the builder as it reduces declarations. What a name is (`class`, `meant`) and what a
body has (`written`) are stamped on the token when the environment writes it, by
scopes that the environment keeps itself and the compiler never sees (`WriteItem`,
`Declares`, `ScopesAfter`); the properties compare that stamp with what parser and
builder make of it. `CGrammar` gives the tables: the generator of `LrAutomaton` run by TLC
on the 278 productions of the grammar, once, before the first state. TLC's `ASSUME
CreatorsFollowTheGrammar` checks that the bindings of creators to productions fit the
grammar.

### SymbolTable and SemanticAnalysis

The environment writes a unit one construct at a time, in the order in which the visitor
comes to it, and each action does what the visitor does there, to the table (`table`), the
stacks of loops and switches, the named labels and the pending gotos (`jumps`) and the
annotations (`store`); constructs that hold others stay open until `EndInner` or
`EndFunctionDefinition` (`path`). A unit ends at its first error: the visitor goes on to
report others, but nothing is made of the unit.

The reference uses `source` alone, in which every construct has the path it was written
in. A declaration is visible where its path is a prefix of the path there; `Meaning`,
`LinkedHome`, `StaticHome`, `ExternallyDefined`, `Within` and `Violates` say what C makes
of a name, of the declarations of an object or function together, of a jump, and what it
forbids. Types are five that tell declarations apart, an initializer is the name it
mentions (as in `sizeof x`), and a place in `source` stands for its value.

### RecordLayout, SysVClassify, AggregateInit and Initializers

`LayoutMember` is one turn of the loop of `layoutRecordMembers` with a cursor in bits,
`RefuseMember` its errors, `CompleteRecord` its end, `ApplyPacked` the attribute
behind a closing brace, which lays the record out again from its member specifications.
`AbiExtents` says where the System V ABI and the host's compiler put the members: each at the
first bit behind the one before that the rules allow, with no arithmetic on how to get there;
`LayoutOfHost` adds size and alignment, and `HostDiffers` names the declarations of which it
is known that the code departs from it. `ClassifiedAsAbi` classifies from
the set of scalars in each eightbyte, not by descent.

`AggregateInit` walks type and initializer and says to its sink, in order, what goes where
and what is left unwritten. `Initializers` has the two sinks: `DataWords` (words of
`.data`, numbers merged bit by bit, addresses in words of their own) and the
plan of stores for a local, whose effect on a memory full of garbage is what
`EmitStructFieldInits` leaves. `InitialisedAsC` computes what C says: a current object,
designators that move it, the last initializer of a subobject wins, all else zero.

## 3. What is checked

| run | instance | shows |
| --- | --- | --- |
| `stack_machine_optimized` | four registers, one callee-saved; a narrow temporary, a local, and a local whose address is taken; level 1 or 2 | `BoundIsHeld`, `EachReadCurrent`, `JoinFindsHomes` through every handler |
| `stack_machine_unoptimized` | four allocatable registers at level 0; a temporary, an address-taken local, a global, a multi-word local | `Coherent` with stores through pointers and callees, `EachReadCurrent`, `MemoryObjectsUnbound`, `CalleeSavedPreserved` |
| `child_process` | pipes of one chunk, one signal, every subset of closed standard streams, with and without SIGPIPE ignored; input, output or both larger than a pipe | `OutputComplete`, `InputComplete`, `NothingLeft`, `StreamsConnected`, `Terminates` |
| `compiler_driver` | 106 command lists: every stop stage, with and without `-o` and `-save-temps`, inputs of every kind and a missing one; three runs in one process with two grammars; a second process beside it | `ImplementsBuild`, `NoTempLeft`, `OthersCompleted`, `WholeProgram`, `OldAssemblyKept` |
| `control_flow` | every body of up to six instructions (an assignment between two values, an argument, a call, labels, jumps with and without condition) over two labels | `LivenessExact`, `DominatorsExact`, `LoopsEnteredAtHeader`, `PreheadersFound`, `SamePaths` |
| `middle_end` | 650 functions: loops of every kind and choices of every kind around two statements each, from a vocabulary of ten; 684 units of a caller, a callee and a callee of that; two inputs | `BehaviourKept`, `SlotsDisjoint` |
| `table_generator` | 1,092 grammars of three nonterminals, each as LALR(1) and as LR(1) | `StatesExact`, `AcceptsLanguage`, `RefusesAmbiguous`, `WorklistAdvances` |
| `c_parser` | the C grammar; in seven openings three items out of seventeen, each way C allows, and programs for every other production | `NamesAsDeclared`, `NothingLeftOver`, `BodiesAsWritten`, `OperandsOwn` |
| `initializers` | 14,510 record declarations of one to four members; 12 types of objects with 15,227 initializers | `FieldsApart`, `LayoutAsAbi`, `ClassifiedAsAbi`, `InitialisedAsC` |
| `semantic_analysis` | every unit of up to four to seven constructs from five menus: scopes and enumerators, the linkage of an object, the specifiers of a function, jumps, labels | `NamesAsC`, `HomesAsC`, `JumpsAsWritten`, `RefusedAsC` |
| `reads_out_of_date`, `folding_around_a_loop` | the instance in which it shows; a violation is expected | the findings of section 5 |

What makes these properties worth a run: `Coherent`, `EachReadCurrent` and `NothingLeft`
need a sequence of several calls to break; `ImplementsBuild`, `BehaviourKept`,
`AcceptsLanguage`, `NamesAsDeclared`, `HomesAsC` and `InitialisedAsC` compare the code with something
that was written without looking at it. Each has a mutant, a plausible slip in one
definition, that TLC must find (`PROJECT.json`).

**Bounds.** In `StackMachine` there are as many registers as the handlers with the most
exclusions need (`EnoughRegisters` states it), so that an instruction almost always
evicts something; with more registers there is less pressure, not more. One symbol of each
kind that the code treats differently, and two where two of a kind can compete.
`MaxArgs` is two arguments of each kind. A pipe of one chunk is full after one write and
empty after one read; two chunks of data are more than it holds, which is what blocking
depends on. One interrupted call meets every call that can be interrupted. Numbers of
descriptors go up to `MaxFd`, enough for three pipes above the standard streams and a
file. Three runs in a process are what it takes to load a grammar, fail to load another
and meet it again.

In `ControlFlow` six instructions hold two loops, one inside the other or with a
common header, a jump into a loop, a ring of jumps, and a value that is live only around
a back edge. In `MiddleEnd` the vocabulary has one statement for each way in which a
fact of a pass goes out of date: an assignment to either side of it, a store and a load
through a pointer, a call that is given the pointer, a change of the pointer, a volatile
access, a division; and one for each rewrite of loops and of arithmetic. Two statements
give each rewrite and each way to spoil it, in both orders, in and around each loop. Of
the two inputs one makes no turn, the other two: what is moved out of a loop runs when
nothing should, and a fact survives the back edge. Words have the size `WordSize` = 16
instead of 2^32; no pass looks at a particular number. `FoldLimit` is the 8 of the
code. `Fuel` is 150 instructions, more than any of these runs takes. The caps of the
inliner (`MCInlineCaps`: 24 instructions of a callee, 60 of a caller, three calls per
caller, four in all) are small so that each of them refuses some call of some unit; the
units have every kind of actual (variable, temporary, constant, global, address) for
every use of a formal (read, assigned, its address taken, around a call, a store, a label).

In `table_generator` the alternatives put the same nonterminal in two contexts, so that
LR(1) states differ only in their lookaheads, merging them does or does not conflict, and
lookaheads come to a state after it was processed; words of four symbols tell these
languages apart. In `c_parser` three items are a declaration, something that hides it or
uses it, and a use after; the openings differ in who declares the name first (a typedef, a
parameter of the definition, of a prototype before, of a nested declarator, an
enumerator). Of the 278 productions all but three are reduced: the
creator of an identifier list fails, so nothing comes of the two productions behind it,
and no token is ever an `enumeration_const`.
In `initializers` three members are one that leaves the cursor somewhere in a unit, one
that starts there, and one that shows where it ended; three elements are a designator that
moves the cursor, one placed after it, and one that goes back or further. `MaxInt` stands
for the largest size, `MaxElements` is more than three elements reach.

In `semantic_analysis` five constructs are a function with a block in it and three
declarations of one object in any of these scopes, six a loop in a switch in a loop with
a case and a jump at any depth, or a block with a use after what hid a name has ended;
two functions with their labels and gotos take seven. One name is enough for everything
that is merged by name; the second is that of the function around it.

**Fairness.** All but `ChildProcess` state safety only. `ChildProcess`
assumes weak fairness of the parent's steps and of the child's: the scheduler runs both,
a system call that can return does, and a child that is not blocked reaches its end
some time (its own writes are bounded by `output`, its input by `input`). Nothing
is assumed of signals or failures. `Terminates` needs no more, and excepts one way not to
end, `BothBlocked` (section 5), because of which that run does not ask for deadlocks, nor
do those whose system may stop; without the child's
fairness a child that never ends would refute it, and rightly so, as `runProcess` has no
time limit.

**Exclusions that matter.** With callee-saved registers in use `Exempt` leaves the
locals whose address the path has taken out of `Coherent` and `EachReadCurrent`: such a local
may live in a callee-saved register across a call that changes it, and the code does let it
go out of date (section 5). Before its address is taken it is covered like any other.
`EachReadCurrent` says nothing of the three kinds of reads that section 5 is about. `NothingLeft`
and `OutputComplete` say nothing of a compiler killed by SIGPIPE, nor `NothingLeft` of a
child left by a `waitpid` that was interrupted: `runProcess` does not try it again. A
redirection to a file is lost when the compiler was started without that stream, because
the child closes the number it opened the file under (`StreamsConnected` says so). Inputs
of one run have different stems, since kept intermediates are named after them. A cut
off assembly file (a full disk) is a content a run may have promised: nobody checks the
stream it was written to. In the functions of `middle_end` no object that a loop stores
to through a pointer has its address taken only further down in that loop after
having been given a constant further up: that is the violation of section 5, and the
instance of `folding_around_a_loop`. Nor is a loop counter volatile in it, nor the actual
of a formal that is not. What `semantic_analysis` excepts are declarations, not units: each
name of a known difference has a definition of its own (`HidesNoObject`,
`SharedWithEnumerator`, `OutOfScope`, `NotYetDeclared`, `Settled`, `WronglyRefused`,
`WronglyAccepted`), and none can be left out. `Undefined` has what C leaves to the
compiler. The programs of `c_parser` and the objects of `initializers` leave
out the constructs listed as differences in section 5: the families are filtered
(`Agreed`, `HostDiffers` and `WholeElements` name the filters), the reference is not bent
to agree. In one case it follows the repository's own tests against gcc: after the
designator `.in = 5` of a structure the next element goes behind the whole of `in`
(`DesignatedInitResumeTest.cpp:71`).

## 4. What is proved

`StackMachineProofs` proves for every set of registers, symbols and call sites that the
assumptions `Registers`, `EnoughRegisters`, `Symbols` and `Calls` allow:

* `InvHolds`: the inductive invariant `Inv`;
* `TypeCorrect`, `BooksAgree`, `NeverBound`: `TypeOK`, `BoundIsHeld`, `MemoryObjectsUnbound`;
* `CacheIsCoherent`: `Coherent`, the main result;
* `ReadsAreCurrent`: `EachReadCurrent`, what each instruction, call and callee reads;
* `HomesAtLabels`: `JoinFindsHomes`;
* `CalleeSavedUntouched`: `CalleeSavedPreserved`.

The argument. `Coherent` is not inductive: a register may hold the value of one symbol
while another symbol points at it, and the next eviction would store the wrong one.
`Good(m, K)` joins the books (`Books`: types, a bound register holds its symbol and may be
allocated, memory objects are bound nowhere, only allocatable registers were written) with
the currency of the symbols in K and with what has been read so far (`ReadsCurrent`). The module first shows of each helper what it keeps:
obtaining a register keeps `Good` and leaves the register vacant, spilling and freeing
keep it for what is still needed, binding a result makes it current. Loops over the
registers in allocation order need that a set of numbers has a least element, which
comes from well-foundedness rather than induction. That
a symbol is current before an instruction does not say that the instruction reads it: between
loading an operand and using it a handler loads others, spills, and takes scratch registers.
So each helper lemma also says which registers keep their run-time value (those excluded from the
choice, those a load does not go to), and `Carries(m, r, s)` is carried along from the load
of s into r to the instruction that reads r. In a call that is the longest: the argument
registers outlast a second argument, the spills, the arguments on the stack and in vector
registers, the count in rax, the address of the result and the load of the target
(`CallArgumentsGood`). It rests on two facts about registers, which `Registers` states: the
argument registers differ from each other and from the one an indirect call goes through, and
rax, which the address of a global function pointer is loaded into, is the first that is
allocated. It then has one
lemma per handler, `StackMachineProofs` calls, returns, labels and jumps, and then puts
the disjuncts of `Next` together.

`ChildProcessProofs` proves, for pipes of any capacity, any number of interrupting
signals and any set of calls (`Sizes` is its only assumption), all of the safety that TLC
checks of `ChildProcess`: `AllOutputRead` (`OutputComplete`), `AllInputWritten`
(`InputComplete`), `CleansUp` (`NothingLeft`), `ProgramConnected` (`StreamsConnected`),
`TypeCorrect`, and `InvHolds` for the invariant.

The argument. None of these is inductive. `TablesOK` says what both descriptor tables hold
at each place of the two processes: while pipes are made, the numbers from 3 are taken
without a gap up to some k (`HasPipes`); after `fork` the parent has only its own ends and
the child, from `exec` on, only its own. So a pipe that looks without a writer to `poll`
really has none: no end was left open in the wrong process. `OutputOK` then counts: what
the child has produced is what was read plus what is in the pipe, and a stream the parent has
closed, or is about to close by what its last `poll` said, is `Dry`. `poll` is called once
for three streams and used one step after another, while the child goes on, hence the
part of `OutputOK` and `InputOK` about `revents`: of what `poll` said only what the child
cannot undo before it is used may be relied on. `InputOK` counts the same way in the other direction.
The lemmas before them are about the operators of `Descriptors`: the lowest free number,
which two `pipe` and two `dup2` calls in a row leave which number with what.

`CompilerDriverProofs` proves, for any processes and any lists of command lines, all that
TLC checks of `CompilerDriver`: `NoTemporariesLeft` (`NoTempLeft`), `OthersDone`
(`OthersCompleted`), `ProgramsWhole` (`WholeProgram`), `OldAssemblySafe` (`OldAssemblyKept`),
`InvHolds`, and `BuildImplemented`: `Spec => ImplementsBuild`.

Its assumptions are about the command lines. `Jobs` gives their form, `KnownNames` and
`Bound` the other constants. The rest is about other users of the same files, against which
the code has no means and promises nothing: no run writes what a run takes as an input, and
different processes write different files (`FilesApart`); within one command line what is
kept of one input is not what is kept of another, as inputs with one stem would have it
(`InputsApart`, section 3); where a process links a program it puts nothing else
(`ProgramsApart`; two of the properties compare with what stands there in the end). The runs of one process may
overwrite each other's products, and a command line that `Driver::run` rejects may be anything. Each
process has temporary files of its own (`TempName`), as the code asks `mkstemp` for them.

The argument. `Inv` has no part that relates two processes: `ProcessOK(d, ...)` says of the
files that process d uses what its place in `Driver::run` and `Compiler::compile` implies.
It is kept by a step of d, one lemma per action, and by a step of any other process, because
that one writes only its own files (`FilesApart`). Behind the first input not done
each input that has not failed has its product, made from it (`ProductsOK`), those before it
still have the assembly of the earlier build (`OldOK`), the list for the linker is exactly what
the inputs without failure gave (`OutputsOK`), and of the input being compiled each
intermediate holds what the stage that wrote it makes of the stage before (`StageOK`). A failed
compilation goes to the next input with its temporary files gone (`TempsOK`).

The refinement goes action by action. A step either leaves the result of every run as it is: then
the files it changes are owned by the run it is part of or are temporary, which is a
`Work` step of `Build` or a stutter; or it ends a run, and then `Inv` gives the content
of each promised file if the exit code is 0. `BuildImplemented` needs no fairness: `Build`
does not say that a run ends.

`RecordLayoutProofs` proves, for declarations of any length over any types, that
`RecordLayout` keeps members apart: `MembersApart` (`FieldsApart`), `TypeCorrect` and
`InvHolds`. Its assumptions give the form of declarations, `INT_MAX` as a number, and of a type
that an alignment is a power of two up to 16 and that an integer is aligned to its size, as
`Primitive::getAlignment` has them. The argument: a structure's cursor never goes back and no member begins
before it (`StructCursor`); a union's remembers the end of the largest (`UnionCursor`). That
a complete record holds its members needs more, since its size is rounded up to the largest
alignment: that one is a multiple of every smaller one, which is where the powers of two
come in. A late `packed` runs the loop again over the specifications that are read back
from the members; it refuses what no longer fits and otherwise goes through the same
lemma for one member.

`LaidOutAsHost` (`LayoutAsAbi`) proves that outside `HostDiffers` every complete record has the
layout of the host, for declarations of any length over any types. The invariant `HostInv`
sets the cursor beside the host's places after each member (`AsHost`): the members so far
have the bits of `AbiPlaced`, a structure's cursor is at the end of the last member and of all
before it, a union's has the largest size, and both have the strictest alignment of what was
read. `HostStep` is one member: the first bit that the rules allow is the one that rounding
up gives (`OrdinaryStart`, `FieldStart`, `PackedFieldStart`), which is where an integer's
alignment has to be its size. `HostLayout` is the end: without `HostDiffers` the unnamed
bit-fields add nothing to the alignment, and the size is the smallest multiple of it behind
the last byte. The places are defined by recursion on the list of members; that the
recursion has a solution is shown with least elements (`StartsAre`, `PlacedAre`), and the
loop of the code replaces the induction. The proof has corrected the reference twice: an
anonymous structure counted as an unnamed bit-field, which excused more than the
known differences, and unions of nothing that has a size were not among these (section 5).

`SemanticAnalysisProofs` proves that jumps go where C says in units of any length, for any
menus of declarations (`MenusAssumption`, their form): `JumpsGoAsWritten` (`JumpsAsWritten`)
and `InvHolds`. `JumpsAsWritten` is not inductive: it compares the label a jump was given
with the constructs on the path it was written in, but the visitor looks at stacks only.
`LoopsOpen` says that the stack of loops is, entry by entry, the loops and switches on the
path, each with its own exit and with the "continue" of the innermost loop up to it;
`SwitchesOpen` and `GotosWait` say the same of the switches, the named labels and the gotos
that wait. Two groups of lemmas keep it: one about the end of the stacks and the path (they
grow and shrink together; pushing and popping keeps them in the order of the source), the
other about what was settled earlier, which new items leave alone because it refers only to
items before it (`WithinKept`, `ItemKept`). The label of every construct is new
(`LabelsKept`), so none is shared. At the end of a function each goto either finds the label
of its own function or refuses the unit. A refused unit is left aside, as nothing is made of
it.

`ScopeBooks` and `ScopeProofs` prove that names mean what C says, in units of any length over
any menu: `NamesMeanAsWritten` (`NamesAsC`), from the invariant `BooksHold`. `NamesAsC` speaks
of the names that are visible now; a scope that closes uncovers what was declared long
before, so the invariant has to speak of every entry there is. `Books(sid)` does: for each
entry of the file (`GlobalOk`), of the open blocks (`ValuesOk`), each argument
(`ArgumentsOk`), and each frame, with what it exports, of a function that has ended (`EndedOk`) it says
which declarations of the source it was made of, and what their merging has left in it:
storage, type, initializer, specifiers; and that nothing that was declared is missing. The table knows a
scope by its number, the source by the construct that opened it: sid is the function from
the one to the other. It is not part of the state, so the invariant says that there is one,
and each step that opens a scope extends it by the next number. Numbers are handed out in the
order of the source (`ScopesOk`), which is why the innermost open scope that has an entry of a
name is the one C would look in (`TreeOk` gives the order of the constructs; a `for` that declares
nothing is a construct but opens no scope). The lemmas then go action by action
as in the other modules; the long ones are the declaration of an object, in a file and in a block
(linked, static, automatic), where an entry that is there meets another declaration, and the beginning of a
function, whose parameters are declared in a walk: what it has made of them uses a lemma on least
elements instead of induction. The menus are assumed to give the parameters of a function different
names (`MenusAssumption`): C asks for it, the analyser does not see it (section 5).
What a name meant when an initializer mentioned it is kept in `store`; that this was right
(`MentionsOk`) is an invariant of its own over the last item.

`HomesAreAsDeclared` (`HomesAsC`) needs no further invariant: it speaks of the moments between
two functions, when `Books` of the file's entries, of the static homes and of the finished frames
says all there is to say. An entry of the file keeps the object it was registered with
(`RegisteredObject`); homes of different names are different
objects (`HomeNamesApart`), so `getDataHomes` and the set of homes C asks for can be compared
one home at a time (`LinkedHomeIs`, `StaticHomeIs`); and the arguments of a frame are counted by the interval of the source
its parameters stand in (`FrameHolds`).

`RefusedWhereC` (`RefusedAsC`) is about both answers of the analyser. Each handler refuses by
looking at its table, C by looking at the declarations; `Books` says what the one is made of
in terms of the other. If a handler refuses, the entry or the stack it objects to gives an
earlier declaration, construct or label that makes the item violate a constraint (`JudgedClash`,
`FileRefused`, `ExternRefused`, `LocalRefused`, `FunctionApart`, and one lemma per statement),
or the initializer mentions a name that nothing visible declares (`NotVisible`); what C leaves
undefined and what is known to be refused wrongly are the other ends of these
case distinctions. If an item is let pass, the invariant behind the step already excludes
that it violates anything: what stands in one entry goes together (`TypesTogether`,
`TwiceInScope`, `PassedDeclaration`), and a mention is met because it meant what C says
(`NamesMeanAsWritten`). Closing a construct takes nothing back (`ClosedAccepted`), and the end
of a function refuses a goto without a label only if C misses it too (`FunctionRefused`).

`ControlFlowProofs` proves of every body that the code generator can make, over any labels
and instructions: `DominatorsHold` (`DominatorsExact`), `LoopsHold` (`LoopsEnteredAtHeader`)
and `PreheadersHold` (`PreheadersFound`). What the algorithms of `FlowGraph` compute by
repeating a step is first shown to be what it should be. A fold has intermediate values
(`Iterated`), a step repeated while something gets smaller ends where it changes nothing
(`Repeated`); both follow from least elements, as the induction theorems of the library cannot
be used. So `Closure` is the least closed set (`ClosureIs`), the rounds of `SolveDominators`
end with sets that no round changes and that have lost nothing necessary (`Solution`), and
these are the blocks no path avoids (`DominatorsAre`): a block that every path goes through is
necessary, and one that some path avoids is dropped along that path.

The invariant `Inv` says that the body defines each label once and that until the preheaders
are inserted its labels are below the first fresh one. It is needed because the preheaders are
inserted between blocks while the property speaks of the blocks of the finished text:
`BuildCfgIs` gives regular blocks (a block without label follows a transfer of control), and
regular blocks laid out as text and built again are the same blocks (`BuildFlat`), since each
begins where its text says. Jump threading, removing unreachable blocks and jumps to the next
one keep bodies well formed (`CleanedWf`).

Preheaders are inserted loop by loop, and each insertion renumbers the blocks, leads jumps to
new labels and may first give a latch a block of its own. `Splits` says what these have in
common: a block has been put before a header that leads to it alone. Then all other blocks are
reached, avoided and dominated as before (`SplitAvoids`), so the other loops keep their headers
(`SplitHeaders`) and the preheaders they have (`SplitPre`). A header is named by its label, which
does not move: the labels of the headers stay the same and those with a preheader become more with
every step (`StepIs`), until they are all of them (`PreheadersInserted`). That the latch gets
its own block first is what makes the new block lead to the header from outside only
(`LatchApartIs`, `EntersIs`).

TLC has checked the invariants `Inv` over all states of the runs `child_process` and
`compiler_driver`, that of `ControlFlow` over the bodies of up to five instructions, and over the units of jumps and labels in `semantic_analysis`, before
they were proved, `HostInv` over those of `initializers`, and `Books` over all states of
`semantic_analysis`.

Only model-checked: `Terminates` of `ChildProcess`, since the prover handles neither fairness
nor ENABLED; the modules that walk trees, automata, initializers or runs of a program with
RECURSIVE operators, in which nothing can be proved (`MiddleEnd` through `CodeGeneration` and
`IrMachine`, `TableGenerator`, `Parser`, `Initializers`, `SysVClassify`); of `ControlFlow`
`LivenessExact`, and `SamePaths`, which relates runs of any length of two bodies.

## 5. Where the code and what is said of it differ

Each has a run that TLC must find violated; each was also seen with a build
of the compiler.

* `reads_out_of_date`: three handlers of the register cache read what is not current.
  A load through a pointer does not write registers back first: `long x=1; long *p=&x;
  long y=2+x; x=5; long z=*p;` gives `z==1` at `-O0`
  (`codegen/StackMachine_Addressing.cpp:151`). The sum of two global 128-bit integers is
  wrong at every level: the scratch register for the address of the second operand is
  the accumulator (`codegen/StackMachine_Wide.cpp:57`). A call through a global function
  pointer loads it by way of rax after al was set to the number of vector arguments
  (`codegen/StackMachine_Call.cpp:331`).
* `folding_around_a_loop`: constant folding knows that an object has its address taken
  only from the place in the text where that happens. With the loop body
  `x = 5; *p = 7; y = x + 1; p = &x;` the second turn stores through p into x, and y is
  folded to 6 all the same (`codegen/IrPasses.cpp:829`; the comment at line 482 argues that
  nothing survives a back edge, but the facts need not: the loop makes them anew).

The following were seen with a build of the compiler while modelling and have no run. The
instances above leave them out.

Code generation and passes:

* the conversion of an unsigned 128-bit integer to `double` evicts a register between two
  jumps it emits, so the store happens on one run-time path only
  (`codegen/StackMachine_Sse.cpp:230`);
* strength reduction takes a volatile counter for an ordinary one and drops reads of it
  (`codegen/StrengthReduce.cpp:138`; `StrengthReduceSoakTest.cpp:878` says a volatile factor
  is read again each time);
* the inliner lets a formal that is not volatile go by the name of a volatile actual:
  `volatile int g; int sq(int x) { return x * x; }` makes of `sq(g)` two reads of g
  (`codegen/IrInline.cpp:274` looks at the other direction only);
* `-c -MMD a.c` writes the dependencies beside the temporary `.i` file, where they stay,
  and no `a.d` (`driver/Compiler.cpp:306`);
* `pumpIo` gives all its data to one blocking write; when data and output are both larger
  than a pipe, compiler and child wait for each other: 200000 bytes through `cat` hang
  (`util/Process.cpp:130`; the comment at line 67 promises to multiplex). `child_process`
  runs such a call and excepts that state in `Terminates`. The compiler's own calls pass
  little or no input, so no user of trans meets it.

Names:

* a typedef name stays hidden beyond the scope that hid it: after
  `typedef int T; int f(int (*g)(int T)) { T x; }` or `for (int T = 0; ...) ; T x;` the
  declaration of x is refused (`ast/ParseEnvironment.cpp:250`; `TypedefTest.cpp:115`, `:254`);
* `int T = 5, U = (T) + 1;` where T was a typedef name reads a cast;
* an enumerator does not hide the typedef name it reuses, and a label or a second
  declarator of a member that reuses one is refused (the last is documented in
  `parser/TokenStream.cpp`);
* a `struct` or `enum` body in a block overwrites the type of the same tag outside;
* a record body in a parameter list takes the names of the parameters that wait for a body.

Declarations and statements (`semantic_analyzer/`):

* a prototype in a block does not hide an object of a block around it (`int g = 1;
  { int g(void); return g(); }` is refused), and is accepted beside one of the same block;
* a name that is an enumerator of the file and linked in a block: the enumerator is not
  found again (9 instead of 5), or the compiler stops with an internal error
  (`SymbolTable.cpp:66`, `:119`);
* a name declared `extern` in a block only is still known after the block;
* an array without bound is not yet declared in its own initializer, against the comment at
  `SemanticAnalysisVisitor.cpp:146`, and `sizeof a` there is that of an outer one or refused;
* whether a function is exported is settled when its body begins
  (`SymbolTable.cpp:271`): `inline int f(void) {..}` followed by `extern int f(void);`
  exports nothing, and a prototype in a block counts as one of the file;
* refused although allowed: a tentative `int a[];`, and `static int x; extern int x = 3;`;
  accepted although not: `static int f(void);` in a block, two parameters of one name;
* `extern int a[]; extern int a[3];` in one block keeps the unfinished type;
* a `switch` on a `long` compares 32 bits (`SemanticAnalysisVisitor_Statements.cpp:35`), and
  of `case -1` and `case 4294967295u` on an `unsigned` both are accepted;
* an enumerator declared in a statement that is not a block stays known behind it.

Initializers and layout:

* a designator that comes back to a subobject sets what was there to zero first:
  `int a[2][2] = {[1][1]=5, [0][0]=1, 2, 3}` leaves `a[1][1]` 0 (`AggregateInitWalk.cpp:204`;
  `DesignatedInitResumeTest.cpp:212`, `DesignatedInitTest.cpp:63` say it must not), and one
  that changes the member of a union leaves the rest of the former one behind
  (`DesignatedInitTest.cpp:370`);
* an array without bound counts elements, not subobjects, when braces are elided:
  `int a[][2] = {1,2,3,4,5}` has five rows;
* `struct P a[2] = {p0, {1, 2}}` and braces around a designated scalar are refused;
* in a packed record an address that is not aligned to its word in `.data` goes to the
  wrong word, and a bit-field that crosses its unit loses its upper bits;
* against the ABI, unnamed bit-fields raise the alignment; packed unions with bit-fields and
  packed zero-width bit-fields are laid out otherwise, and so is a union of nothing that has a
  size with an empty bit-field in it (`union { int x[0]; int : 0; }` has the size 4, not 0);
  `__attribute__((packed))` behind the
  name of a typedef packs the structure, and packing late drops unnamed bit-fields; a packed
  `struct { short a; int b[]; }` is passed in memory.

## 6. Not modelled

Formatting of assembly, diagnostics, logging and literals; the automaton of the scanner;
the node classes, which are data; of the semantic analysis the checks of single
expressions, which are look-ups on types, the folding of constants, typedefs, objects
without a name and the conversion of a `switch` to the type of its expression; of IR
generation aggregates, bit fields, floating
and complex values and builtins; of the IR passes `combineBitConst` and the strength
reduction of addresses, floating values and values of several words; in the inliner
variadic callees, `alloca`, `setjmp` and results in memory. Of the front end the GNU
extensions of `GnuExtensions.cpp` with the places where they stop the parse, string
concatenation and keyword aliases, the resolution of `typeof`, and predefined typedef
names; of types and initializers transparent unions, records without members, arrays of
variable size, tentative definitions, complex values and the folding of floating
constants. Inside the other modelled parts: the message of `runProcessOrThrow`,
verbose output, the search for the resources, the option table of the command line, x87 and
vector register contents. Everything else without a module is on the plan.

## 7. Plan

In the order of importance; the first nine are done.

1. `StackMachine` with proofs: the cache invariant for every instance.
2. `ChildProcess`: the pump, its liveness, the descriptors.
3. `Build` and `CompilerDriver`: the refinement.
4. `FlowGraph` and `ControlFlow`: blocks, liveness, loops, against paths.
5. `CodeGeneration`, the passes, the inliner and `MiddleEnd`, against the runs of
   `IrMachine`.
6. `LexicalSession`, `TokenStream`, `TreeBuilder` and `Parser`: the feedback, against the
   scopes of C.
7. `LrAutomaton` and `TableGenerator`, against the canonical automaton and derivability.
8. `RecordLayout`, `SysVClassify`, `AggregateInit` and `Initializers`, against the ABI
   and C.
9. `SymbolTable` and `SemanticAnalysis`: names, linkage and jumps, against the scopes of C.
10. In `MiddleEnd`, the reduction of addresses; in `CodeGeneration`, records and bit-fields;
   the folding of integer constants.
11. Proofs: those of `StackMachine`, `ChildProcess` and `CompilerDriver`, of the layout, of
   `SemanticAnalysis` and of dominators, loops and preheaders are done; next is of `FlowGraph` that two temporaries placed by
   `FirstFit` never share a word while both ranges last.
