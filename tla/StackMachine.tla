---------------------------- MODULE StackMachine ----------------------------
(***************************************************************************)
(* The x86-64 code generator's register cache (src/src/codegen,            *)
(* StackMachine and its Register and Value).  Every symbol of a procedure  *)
(* has a home in memory; a general purpose register may hold the symbol's  *)
(* value instead, and then the home is written back only when the register *)
(* is spilled.  One action per IR instruction handler says how the handler *)
(* changes the cache and, in the same step, what the instructions it emits *)
(* do at run time: which registers and homes still have the current value  *)
(* of their symbol afterwards, and which operands were read out of date.   *)
(*                                                                         *)
(* The program being compiled is not fixed: the actions are enabled in any *)
(* order, on any operands, along one execution path, and the liveness      *)
(* facts the machine is given (Liveness, FrameLayout) are chosen so that   *)
(* they are correct for that path: needed is the set of symbols the rest   *)
(* of the path may still read.                                             *)
(***************************************************************************)
EXTENDS Integers, Sequences, FiniteSets

CONSTANTS
    Reg,            \* general purpose registers, numbered in allocation order
    CallerSaved,    \* registers a call may overwrite (the code's list: not rax)
    CalleeSaved,    \* registers a callee preserves
    ArgRegs,        \* integer argument registers, in argument order
    Rax, Rdx, Rcx,  \* retrieval/multiplication, remainder, counter register
    Target,         \* the register an indirect call goes through (r10)
    Sym,            \* the symbols (Values) of the procedure
    Temp,           \* expression temps: no name in the source program
    Narrow,         \* integers narrower than 8 bytes (gprExtend is not None)
    Wide,           \* multi-word objects: never register resident
    Global,         \* objects with a globalHomes entry
    AddressTaken,   \* locals whose address some instruction takes
    Computed,       \* what computing instructions define: temps, hoisted ones too
    CallSites,      \* the calls: see CallSite
    UseCalleeSaved, \* optLevel > 0, set once before the first procedure
    None, Junk, VectorCount  \* no symbol or register; any other value; AL

MayAlias == AddressTaken \cup Global
Cacheable == Sym \ (Wide \cup Global)
Always == MayAlias \cup Wide

ASSUME Registers ==
    /\ Reg \subseteq Nat /\ Reg # {} /\ IsFiniteSet(Reg)
    /\ Reg = CallerSaved \cup CalleeSaved \cup {Rax}
    /\ CallerSaved \cap CalleeSaved = {}
    /\ ArgRegs \in Seq(CallerSaved)
    /\ {Rax, Rdx, Rcx, Target} \subseteq Reg \ CalleeSaved
    /\ {Rdx, Rcx, Target} \subseteq CallerSaved /\ Rax \notin CallerSaved
    /\ Rax # Rdx /\ Rcx # Rax /\ \A r \in Reg : Rax <= r
    /\ \A i \in DOMAIN ArgRegs : ArgRegs[i] # Target
    /\ \A i, j \in DOMAIN ArgRegs : ArgRegs[i] = ArgRegs[j] => i = j
    /\ UseCalleeSaved \in BOOLEAN

\* "unable to get a free register" cannot happen: no handler excludes more than
\* three registers, or than the argument registers and one more
ASSUME EnoughRegisters ==
    LET allocatable == IF UseCalleeSaved THEN Reg ELSE Reg \ CalleeSaved
    IN  /\ \A p, q, r \in Reg : allocatable \ {p, q, r} # {}
        /\ \A r \in Reg : allocatable \ ({r} \cup {ArgRegs[i] : i \in DOMAIN ArgRegs}) # {}

ASSUME Symbols ==
    /\ Temp \cup Narrow \cup Wide \cup Global \cup AddressTaken \subseteq Sym
    /\ Temp \cap Always = {} /\ Narrow \cap (Wide \cup Global) = {}
    /\ AddressTaken \cap Global = {} /\ Computed \subseteq Sym
    /\ {None, Junk, VectorCount} \cap Sym = {}
    /\ None \notin Reg /\ Junk # VectorCount /\ None # Junk

\* integer arguments, arguments on the stack and in vector registers, the
\* symbol an indirect call goes through, and the object a memory return is
\* written to.  MaxArgs bounds each kind of argument.
MaxArgs == 2
CallSite == [ints: Seq(Sym \ Wide), stack: Seq(Sym), vector: Seq(Sym \ Wide),
             target: (Sym \ Wide) \cup {None}, sret: Wide \cup {None}]
Written(site) == {site.sret} \cap Sym
Passed(site) == {site.ints[i] : i \in DOMAIN site.ints} \cup
                {site.stack[i] : i \in DOMAIN site.stack} \cup
                {site.vector[i] : i \in DOMAIN site.vector} \cup ({site.target} \cap Sym)

ASSUME Calls ==
    \A site \in CallSites :
        /\ site \in CallSite
        /\ \A kind \in {site.ints, site.stack, site.vector} : Len(kind) <= MaxArgs
        /\ Len(site.ints) + Cardinality(Written(site)) <= Len(ArgRegs)

VARIABLES
    cache,          \* the machine, see CacheType
    needed,         \* symbols the rest of the path may read
    exposed,        \* objects a pointer may point to: globals, and those whose
                    \* address the path has taken
    phase           \* between procedures, in a body, just after a label, call or return

vars == <<cache, needed, exposed, phase>>

\* held     Register::valueHeld: what the register was last assigned
\* bound    Value::assignedRegister: where the symbol lives, if not in memory
\* value    the symbol whose current value the register has at run time
\* home     the symbols whose home has their current value at run time
\* misread  the stale or overwritten operands the last instruction consumed
\* dirtied  the callee-saved registers the procedure has written
Reader == {"operand", "load", "callee", "call", "callGlobal", "wide", "wideGlobal"}
CacheType ==
    [held: [Reg -> Sym \cup {None}], bound: [Sym -> Reg \cup {None}],
     value: [Reg -> Sym \cup {Junk, VectorCount}], home: SUBSET Sym,
     misread: SUBSET (Reader \X (Sym \cup {VectorCount})),
     dirtied: SUBSET CalleeSaved]

----------------------------------------------------------------------------
(* Run time: what the emitted instructions do to registers and memory.     *)

\* any instruction that leaves symbol s's value, or garbage, in register r
Write(m, r, v) ==
    [m EXCEPT !.value[r] = v, !.dirtied = @ \cup ({r} \cap CalleeSaved)]

\* symbol s gets a new value: every copy of the old one is out of date
Outdate(m, s) ==
    [m EXCEPT !.value = [r \in Reg |-> IF @[r] = s THEN Junk ELSE @[r]],
              !.home = @ \ {s}]

\* the instruction reads symbol o[2] in register o[1] for each o of operands
Reads(m, reader, operands) ==
    [m EXCEPT !.misread = @ \cup
        {<<reader, o[2]>> : o \in {p \in operands : m.value[p[1]] # p[2]}}]

\* the instruction reads the homes of symbols S
ReadsHomes(m, reader, S) ==
    [m EXCEPT !.misread = @ \cup ({reader} \X (S \ m.home))]

Load(m, s, r) == Write(m, r, IF s \in m.home THEN s ELSE Junk)

EmitStore(m, r, s) ==
    [m EXCEPT !.home = IF m.value[r] = s THEN @ \cup {s} ELSE @ \ {s}]

DefineInMemory(m, s) == [Outdate(m, s) EXCEPT !.home = @ \cup {s}]

----------------------------------------------------------------------------
(* Register and Value: who holds what.                                     *)

InMemory(m, s) == m.bound[s] = None

ContainsUnstored(m, r) == m.held[r] # None /\ ~InMemory(m, m.held[r])

Assign(m, r, s) == [m EXCEPT !.held[r] = s, !.bound[s] = r]

\* (a slip: the symbol is not told)
FreeRegisterOnly(m, r) == [m EXCEPT !.held[r] = None]

Free(m, r) ==
    [m EXCEPT !.held[r] = None,
              !.bound = [s \in Sym |->
                  IF s = m.held[r] /\ @[s] = r THEN None ELSE @[s]]]

StoreRegisterValue(m, r) ==
    IF ContainsUnstored(m, r) THEN Free(EmitStore(m, r, m.held[r]), r) ELSE m

StoreInMemory(m, s) ==
    IF InMemory(m, s) THEN m ELSE StoreRegisterValue(m, m.bound[s])

First(S) == CHOOSE r \in S : \A q \in S : r <= q
Last(S) == CHOOSE r \in S : \A q \in S : q <= r

\* The registers of regs a loop over them in order stores or frees on behalf
\* of s: a register assigned to s before s moved to another one still counts
\* as holding it until the loop has freed the one s is bound to.
Visited(m, regs, s) ==
    {r \in regs : /\ m.held[r] = s /\ m.bound[s] # None
                  /\ m.bound[s] \in regs => r <= m.bound[s]}

\* the loop frees the visited registers of the symbols S
FreeHolders(m, regs, S) ==
    [m EXCEPT
        !.held = [r \in Reg |-> IF \E s \in S : r \in Visited(m, regs, s)
                                  THEN None ELSE @[r]],
        !.bound = [s \in Sym |-> IF s \in S /\ @[s] \in Visited(m, regs, s)
                                   THEN None ELSE @[s]]]

\* the loop stores each visited register before freeing it; the last store of
\* a symbol is the one its home keeps
SpillHolders(m, regs, S) ==
    [FreeHolders(m, regs, S) EXCEPT
        !.home = {s \in Sym :
            IF s \in S /\ Visited(m, regs, s) # {}
              THEN m.value[Last(Visited(m, regs, s))] = s
              ELSE s \in m.home}]

SpillGeneralPurposeRegisters(m) == SpillHolders(m, Reg, Sym)

EmptyGeneralPurposeRegisters(m) ==
    [m EXCEPT !.held = [r \in Reg |-> None],
              !.bound = [s \in Sym |-> IF @[s] # None /\ m.held[@[s]] = s
                                         THEN None ELSE @[s]]]

\* (a slip: at every level)
AllAllocatable == Reg

Allocatable == IF UseCalleeSaved THEN Reg ELSE Reg \ CalleeSaved

\* the register get64BitRegisterExcluding(excluded) returns ...
Obtained(m, excluded) ==
    LET allocatable == Allocatable \ excluded
        free == {r \in allocatable : ~ContainsUnstored(m, r)}
    IN  First(IF free # {} THEN free ELSE allocatable)

\* (a slip: it is taken without storing)
ObtainUnstored(m, excluded) == Free(m, Obtained(m, excluded))

\* ... after storing what it held
Obtain(m, excluded) == StoreRegisterValue(m, Obtained(m, excluded))

\* a register obtained and overwritten with an address, mask or constant
Scratch(m, excluded) == Write(Obtain(m, excluded), Obtained(m, excluded), Junk)

----------------------------------------------------------------------------
(* Operands and results.                                                   *)

CopyToRegister(m, s, r) ==
    IF InMemory(m, s) THEN Load(m, s, r)
    ELSE IF m.bound[s] = r THEN m
    ELSE Write(m, r, IF m.value[m.bound[s]] = s THEN s ELSE Junk)

\* (a slip: globals are bound, too)
AssignAnyRegisterTo(m, s, excluded) ==
    Assign(Load(Obtain(m, excluded), s, Obtained(m, excluded)), Obtained(m, excluded), s)

AssignRegisterTo(m, s, excluded) ==
    LET r == Obtained(m, excluded)
        loaded == Load(Obtain(m, excluded), s, r)
    IN  IF s \in Global THEN loaded ELSE Assign(loaded, r, s)

\* materialize / materializeExcluding: the machine, and the operand's register
Materialize(m, s, excluded) ==
    IF InMemory(m, s) THEN AssignRegisterTo(m, s, excluded) ELSE m
MaterializedIn(m, s, excluded) ==
    IF InMemory(m, s) THEN Obtained(m, excluded) ELSE m.bound[s]

\* the instruction computes a new value of s in r; bindResult then writes a
\* global home, writes a narrow home through, or leaves the home stale
BindResult(m, r, s) ==
    LET computed == Write(Outdate(m, s), r, s)
        stored == [computed EXCEPT !.home = @ \cup {s}]
    IN  IF s \in Global THEN stored
        ELSE Assign(IF s \in Narrow THEN stored ELSE computed, r, s)

\* a register of a global's address, needed to reach one of its words
LoadWord(m, s, r, excluded) ==
    IF ~InMemory(m, s) THEN CopyToRegister(m, s, r)
    ELSE IF s \in Global
    THEN Load(Scratch(m, excluded \cup {r}), s, r)
    ELSE Load(m, s, r)

\* storeWord of every word of s from r
StoreWords(m, s, r) ==
    DefineInMemory(IF s \in Global THEN Scratch(m, {r}) ELSE m, s)

\* loadValueToXmm, through a scratch register
LoadToXmm(m, s, reader) ==
    LET tmp == Obtained(m, {})
    IN  Reads(CopyToRegister(Obtain(m, {}), s, tmp), reader, {<<tmp, s>>})

----------------------------------------------------------------------------
(* One IR instruction: reads uses, defines defs; emit() then ends it with  *)
(* finishInstruction, which frees the temps whose last mention this is.    *)
(* Between instructions a register that no symbol lives in is garbage.     *)

Start == [cache EXCEPT !.misread = {}]

FinishInstruction(m, dying) == FreeHolders(m, Reg, dying)

Settle(m) ==
    [m EXCEPT !.value = [r \in Reg |->
        IF m.held[r] # None /\ m.bound[m.held[r]] = r /\ @[r] = m.held[r]
          THEN @[r] ELSE Junk]]

EmitExposing(objects, m, uses, defs) ==
    /\ phase \in {"body", "label"}
    /\ uses \subseteq needed
    /\ \E dying \in SUBSET (Temp \cap (uses \cup defs)) :
        /\ cache' = Settle(FinishInstruction(m, dying))
        /\ needed' = (needed \cup defs) \ dying
    /\ exposed' = exposed \cup objects
    /\ phase' = "body"

Emit(m, uses, defs) == EmitExposing({}, m, uses, defs)

----------------------------------------------------------------------------
(* Integer and pointer instructions on word operands.                      *)

\* emitGprBinary: add, sub, and, or, xor
GprBinary(left, right, result) ==
    LET acc == Obtained(Start, {})
        copied == CopyToRegister(Obtain(Start, {}), left, acc)
        rhs == MaterializedIn(copied, right, {acc})
        ready == Materialize(copied, right, {acc})
    IN  Emit(BindResult(Reads(ready, "operand", {<<acc, left>>, <<rhs, right>>}),
                        acc, result),
             {left, right}, {result})

\* store rax and rdx, left to rax, right to a third register; a division first
\* extends the dividend into rdx, and both instructions write rax and rdx
InRaxRdxOrRdx(left, right, dividing) ==
    LET copied == CopyToRegister(StoreRegisterValue(StoreRegisterValue(Start, Rax), Rdx),
                                 left, Rax)
        rhs == Obtained(copied, {Rax})
        ready == CopyToRegister(Obtain(copied, {Rax}), right, rhs)
        extended == IF dividing THEN Write(ready, Rdx, Junk) ELSE ready
        read == Reads(extended, "operand", {<<Rax, left>>, <<rhs, right>>})
    IN  Write(Write(read, Rdx, Junk), Rax, Junk)

InRaxRdx(left, right, dividing) ==
    LET copied == CopyToRegister(StoreRegisterValue(StoreRegisterValue(Start, Rax), Rdx),
                                 left, Rax)
        rhs == Obtained(copied, {Rax, Rdx})
        ready == CopyToRegister(Obtain(copied, {Rax, Rdx}), right, rhs)
        extended == IF dividing THEN Write(ready, Rdx, Junk) ELSE ready
        read == Reads(extended, "operand", {<<Rax, left>>, <<rhs, right>>})
    IN  Write(Write(read, Rdx, Junk), Rax, Junk)

Mul(left, right, result) ==
    Emit(BindResult(InRaxRdx(left, right, FALSE), Rax, result), {left, right}, {result})
Div(left, right, result) ==
    Emit(BindResult(InRaxRdx(left, right, TRUE), Rax, result), {left, right}, {result})
Mod(left, right, result) ==
    Emit(BindResult(InRaxRdx(left, right, TRUE), Rdx, result), {left, right}, {result})

\* shiftBy: the count moves to rcx and stays bound there
Shift(left, count, result) ==
    LET spilled == StoreRegisterValue(Start, Rcx)
        copied == CopyToRegister(spilled, count, Rcx)
        counted == IF count \in Global THEN copied
                   ELSE Assign(IF InMemory(copied, count) THEN copied
                               ELSE Free(copied, copied.bound[count]), Rcx, count)
        dest == Obtained(counted, {Rcx})
        ready == CopyToRegister(Obtain(counted, {Rcx}), left, dest)
    IN  Emit(BindResult(Reads(ready, "operand", {<<Rcx, count>>, <<dest, left>>}),
                        dest, result),
             {left, count}, {result})

\* unaryMinus, unaryNot, bswap, ctz of an integer
Unary(operand, result) ==
    LET dest == Obtained(Start, {})
        ready == CopyToRegister(Obtain(Start, {}), operand, dest)
    IN  Emit(BindResult(Reads(ready, "operand", {<<dest, operand>>}), dest, result),
             {operand}, {result})

\* inc and dec in place
StepLvalue(operand) ==
    LET dest == Obtained(Start, {})
        copied == CopyToRegister(Obtain(Start, {}), operand, dest)
        freed == IF InMemory(copied, operand) THEN copied
                 ELSE Free(copied, copied.bound[operand])
    IN  Emit(BindResult(Reads(freed, "operand", {<<dest, operand>>}), dest, operand),
             {operand}, {operand})

Assigned(operand, result) ==
    LET m == Start
        r == Obtained(m, {})
    IN  CASE InMemory(m, operand) /\ InMemory(m, result) ->
               DefineInMemory(Reads(Load(Obtain(m, {}), operand, r),
                                    "operand", {<<r, operand>>}), result)
          [] InMemory(m, operand) /\ ~InMemory(m, result) ->
               BindResult(Reads(Load(m, operand, m.bound[result]), "operand",
                                {<<m.bound[result], operand>>}),
                          m.bound[result], result)
          [] ~InMemory(m, operand) /\ InMemory(m, result) ->
               DefineInMemory(Reads(m, "operand", {<<m.bound[operand], operand>>}), result)
          [] OTHER ->
               BindResult(Reads(m, "operand", {<<m.bound[operand], operand>>}),
                          m.bound[result], result)

AssignSymbol(operand, result) ==
    Emit(Assigned(operand, result), {operand}, {result})

AssignConstant(result) ==
    LET r == Obtained(Start, {})
    IN  Emit(IF InMemory(Start, result)
               THEN DefineInMemory(Write(Obtain(Start, {}), r, Junk), result)
               ELSE BindResult(Start, Start.bound[result], result),
             {}, {result})

\* functionAddress, assignLabelAddress
LoadAddress(result) ==
    Emit(BindResult(Obtain(Start, {}), Obtained(Start, {}), result), {}, {result})

\* compare; the instruction leaves both operands in registers
Compare(left, right) ==
    LET l == MaterializedIn(Start, left, {})
        m == Materialize(Start, left, {})
        r == MaterializedIn(m, right, {l})
        ready == Materialize(m, right, {l})
    IN  Emit(Reads(ready, "operand", {<<l, left>>, <<r, right>>}), {left, right}, {})

ZeroCompare(operand) ==
    LET r == MaterializedIn(Start, operand, {})
    IN  Emit(Reads(Materialize(Start, operand, {}), "operand", {<<r, operand>>}),
             {operand}, {})

----------------------------------------------------------------------------
(* Floating operands: held in general registers as bits, computed in xmm.  *)

\* emitFloatingBinary
FloatBinary(left, right, result) ==
    LET dest == Obtained(Start, {})
        loaded == LoadToXmm(LoadToXmm(Obtain(Start, {}), left, "operand"), right, "operand")
    IN  Emit(BindResult(loaded, dest, result), {left, right}, {result})

FloatCompare(left, right) ==
    Emit(LoadToXmm(LoadToXmm(Start, left, "operand"), right, "operand"), {left, right}, {})

FloatZeroCompare(operand) ==
    Emit(Scratch(LoadToXmm(Start, operand, "operand"), {}), {operand}, {})

\* the sign bit is flipped in a copy, with a mask in a second register
FloatMinus(operand, result) ==
    LET excluded == IF InMemory(Start, operand) THEN {} ELSE {Start.bound[operand]}
        dest == Obtained(Start, excluded)
        copied == CopyToRegister(Obtain(Start, excluded), operand, dest)
    IN  Emit(BindResult(Reads(Scratch(copied, {dest}), "operand", {<<dest, operand>>}), dest, result),
             {operand}, {result})

\* tryNumericAssignConvert; an unsigned source or result takes scratch
\* registers of its own.  The result goes to the register it is bound to, or
\* straight to memory
Conversion == {"signed", "toUnsigned", "fromUnsigned"}
NumericConvert(operand, result, conversion) ==
    LET src == MaterializedIn(Start, operand, {})
        m == Materialize(Start, operand, {})
        dst == IF InMemory(m, result) THEN Obtained(m, {src}) ELSE m.bound[result]
        chosen == IF InMemory(m, result) THEN Obtain(m, {src}) ELSE m
        ready == CASE conversion = "signed" -> chosen
                   [] conversion = "toUnsigned" -> Scratch(chosen, {src, dst})
                   [] conversion = "fromUnsigned" ->
                        Scratch(Scratch(chosen, {src}), {src, Obtained(chosen, {src})})
        read == Reads(ready, "operand", {<<src, operand>>})
    IN  /\ operand # result
        /\ Emit(IF InMemory(read, result)
                  THEN DefineInMemory(Write(read, dst, Junk), result)
                  ELSE BindResult(read, dst, result),
                {operand}, {result})

----------------------------------------------------------------------------
(* Addresses.  A base is an object whose home is taken (lea) or a pointer. *)

BaseAddress(m, base, lea, r) ==
    IF lea THEN Write(StoreInMemory(m, base), r, base) ELSE CopyToRegister(m, base, r)

FieldAddress(base, result, lea) ==
    LET dest == Obtained(Start, {})
        ready == BaseAddress(Obtain(Start, {}), base, lea, dest)
        inPlace == base = result /\ ~lea /\ ~InMemory(Start, base)
    IN  /\ lea => base \in Always
        /\ EmitExposing(IF lea THEN {base} ELSE {}, IF inPlace
                  THEN BindResult(Reads(Start, "operand", {<<Start.bound[base], base>>}),
                                  Start.bound[base], result)
                  ELSE BindResult(Reads(ready, "operand", {<<dest, base>>}), dest, result),
                {base}, {result})

\* scaledBaseIndex: the index is scaled in rax by a multiplication that also
\* writes rdx, unless the elements are bytes
IndexAddress(base, index, result, lea, bytes) ==
    LET spilled == StoreRegisterValue(StoreRegisterValue(
                       StoreInMemory(Start, index), Rax), Rdx)
        loaded == LoadWord(spilled, index, Rax, {})
        scaled == IF bytes THEN loaded ELSE Write(Scratch(loaded, {Rax}), Rdx, Junk)
        dest == Obtained(scaled, {Rax})
        ready == BaseAddress(Obtain(scaled, {Rax}), base, lea, dest)
    IN  /\ lea => base \in Always
        /\ EmitExposing(IF lea THEN {base} ELSE {}, BindResult(Reads(ready, "operand", {<<Rax, index>>, <<dest, base>>}),
                           dest, result),
                {base, index}, {result})

PointerDifference(left, right, result, bytes) ==
    LET dest == Obtained(Start, {Rax})
        copied == CopyToRegister(Obtain(Start, {Rax}), left, dest)
        rhs == MaterializedIn(copied, right, {dest})
        ready == Reads(Materialize(copied, right, {dest}), "operand",
                       {<<dest, left>>, <<rhs, right>>})
        spilled == StoreRegisterValue(StoreRegisterValue(Write(ready, dest, Junk), Rax), Rdx)
        divided == Scratch(Write(Write(spilled, Rax, Junk), Rdx, Junk), {Rax, Rdx, dest})
    IN  Emit(BindResult(IF bytes THEN ready ELSE divided, dest, result),
             {left, right}, {result})

AddressOf(operand, result) ==
    LET stored == StoreInMemory(Start, operand)
    IN  /\ operand \in Always
        /\ EmitExposing({operand}, BindResult(Obtain(stored, {}), Obtained(stored, {}), result),
                {operand}, {result})

AllocaBytes(size, result) ==
    LET excluded == IF InMemory(Start, size) THEN {} ELSE {Start.bound[size]}
        sum == Obtained(Start, excluded)
        copied == CopyToRegister(Obtain(Start, excluded), size, sum)
        masked == Reads(Scratch(copied, {sum}), "operand", {<<sum, size>>})
    IN  Emit(BindResult(Obtain(masked, {sum}), Obtained(masked, {sum}), result),
             {size}, {result})

\* dereference of a pointer to object (None: to no symbol of the procedure):
\* nothing is spilled first.  A result of no native size is copied to memory.
Dereference(pointer, result, object) ==
    LET ptr == MaterializedIn(Start, pointer, {})
        m == Reads(Materialize(Start, pointer, {}), "operand", {<<ptr, pointer>>})
        read == ReadsHomes(m, "load", {object} \cap Sym)
        base == StoreInMemory(read, result)
    IN  Emit(IF result \in Wide
               THEN DefineInMemory(Scratch(Scratch(base, {ptr}),
                                           {ptr, Obtained(base, {ptr})}), result)
               ELSE BindResult(Obtain(read, {ptr}), Obtained(read, {ptr}), result),
             {pointer}, {result})

\* (a slip: stores are taken not to alias)
NotAliased(pointer) == {}

\* spillMayAliasRegisters
Aliased(pointer) == (Sym \ {pointer}) \ (Temp \ MayAlias)

\* lvalueAssign: *pointer = operand, which changes object, unless the operand
\* is its own value.  Objects a pointer can reach are spilled first.
LvalueAssign(operand, pointer, object) ==
    LET spilled == SpillHolders(Start, Reg, Aliased(pointer))
        src == MaterializedIn(spilled, operand, {})
        m == Materialize(spilled, operand, {})
        ptr == MaterializedIn(m, pointer, {src})
        native == Reads(Materialize(m, pointer, {src}), "operand",
                        {<<src, operand>>, <<ptr, pointer>>})
        to == MaterializedIn(spilled, pointer, {})
        base == Materialize(spilled, pointer, {})
        copy == Scratch(Scratch(base, {to}), {to, Obtained(base, {to})})
        ready == IF operand \in Wide THEN Reads(copy, "operand", {<<to, pointer>>})
                 ELSE native
    IN  Emit(CASE object = None -> ready
               [] object = operand -> [ready EXCEPT !.home = @ \cup {object}]
               [] OTHER -> DefineInMemory(ready, object),
             {operand, pointer}, {})

----------------------------------------------------------------------------
(* Multi-word operands: worked on in memory, a word at a time.             *)

\* the emitted instruction combines the words of left in l and right in r;
\* an operand with a global home is reported apart (see WideOperandsIntact)
WideReads(m, l, left, r, right) ==
    Reads(m, IF {left, right} \cap Global = {} THEN "wide" ELSE "wideGlobal",
          {<<l, left>>, <<r, right>>})

\* the word loads of wideIntegerBinary, wideCompare and wideZeroCompare: both
\* operands are in memory, and each load takes the address scratch of a global
\* without excluding the register loaded before it
WideLoaded(left, right) ==
    LET stored == StoreInMemory(StoreInMemory(Start, left), right)
        l == Obtained(stored, {})
        m == Obtain(stored, {})
        r == Obtained(m, {l})
        loaded == LoadWord(LoadWord(Obtain(m, {l}), left, l, {}), right, r, {})
    IN  [m |-> WideReads(loaded, l, left, r, right), acc |-> l, tmp |-> r]

WideBinary(left, right, result) ==
    LET w == WideLoaded(left, right)
    IN  /\ {left, right, result} \subseteq Wide
        /\ Emit(StoreWords(Write(w.m, w.acc, Junk), result, w.acc),
                {left, right}, {result})

\* the ternary result of the comparison is built in a third register
WideCompare(left, right) ==
    LET w == WideLoaded(left, right)
    IN  /\ {left, right} \subseteq Wide
        /\ Emit(Scratch(w.m, {w.acc, w.tmp}), {left, right}, {})

WideZeroCompare(operand) ==
    operand \in Wide /\ Emit(WideLoaded(operand, operand).m, {operand}, {})

\* the loads of wideShift: count in rcx, the two words in two other registers
ShiftLoaded(operand, count) ==
    LET stored == StoreInMemory(StoreInMemory(Start, operand), count)
        counted == LoadWord(StoreRegisterValue(stored, Rcx), count, Rcx, {})
        lo == Obtained(counted, {Rcx})
        m == Obtain(counted, {Rcx})
        hi == Obtained(m, {Rcx, lo})
        loaded == LoadWord(LoadWord(Obtain(m, {Rcx, lo}), operand, lo, {}), operand, hi, {})
    IN  [m |-> loaded, lo |-> lo, hi |-> hi]

WideShift(operand, count, result) ==
    LET w == ShiftLoaded(operand, count)
        read == Reads(WideReads(w.m, w.lo, operand, w.hi, operand),
                      IF {operand, count} \cap Global = {} THEN "wide" ELSE "wideGlobal",
                      {<<Rcx, count>>})
    IN  /\ {operand, result} \subseteq Wide
        /\ Emit(StoreWords(Write(read, w.lo, Junk), result, w.lo), {operand, count}, {result})

\* widenInteger: to one word through a scratch register, to two through rax:rdx
WidenInteger(operand, result) ==
    LET stored == StoreInMemory(Start, operand)
        dest == Obtained(stored, {})
        word == Reads(LoadWord(Obtain(stored, {}), operand, dest, {}),
                      "operand", {<<dest, operand>>})
        pair == LoadWord(StoreRegisterValue(StoreRegisterValue(stored, Rax), Rdx),
                         operand, Rax, {})
        sign == Write(Reads(pair, "operand", {<<Rax, operand>>}), Rdx, Junk)
    IN  /\ operand \notin Wide
        /\ Emit(IF result \in Wide THEN StoreWords(sign, result, Rax)
                ELSE BindResult(word, dest, result),
                {operand}, {result})

\* assign (copyWords) and wideUnaryNot.  A word result is a conversion temp,
\* which nothing has been bound to.
WideCopy(operand, result) ==
    LET stored == StoreInMemory(Start, operand)
        r == Obtained(stored, {})
        loaded == LoadWord(Obtain(stored, {}), operand, r, {})
    IN  /\ operand \in Wide
        /\ InMemory(Start, result)
        /\ Emit(StoreWords(Reads(loaded, "wide", {<<r, operand>>}), result, r),
                {operand}, {result})

\* wideUnaryMinus: both words are negated, with a zero in a third register
WideMinus(operand, result) ==
    LET lo == Obtained(Start, {})
        hi == Obtained(Obtain(Start, {}), {lo})
        m == Obtain(Obtain(Start, {}), {lo})
        loaded == LoadWord(LoadWord(Obtain(m, {lo, hi}), operand, lo, {}), operand, hi, {})
        zeroed == Write(loaded, Obtained(m, {lo, hi}), Junk)
    IN  /\ {operand, result} \subseteq Wide
        /\ Emit(StoreWords(WideReads(zeroed, lo, operand, hi, operand), result, lo),
                {operand}, {result})

\* x87 and complex arithmetic, conversions and copies: operands and result are
\* stored and released, the coprocessor works on the homes, and a complex part
\* of a global is reached through a scratch register
InMemoryOperation(operands, result) ==
    LET spilled == SpillHolders(Start, {Start.bound[s] : s \in operands \cup {result}}
                                           \ {None}, operands \cup {result})
        addressed == IF (operands \cup {result}) \cap Global = {} THEN spilled
                     ELSE Scratch(spilled, {})
    IN  Emit(DefineInMemory(ReadsHomes(addressed, "operand", operands), result),
             operands, {result})

\* vaStart, vaArg and vaCopy: everything is written back and unbound first,
\* and again unbound at the end, so the handler has the first registers of the
\* allocation order for its scratch values
VaOperation(lists, written, scratches) ==
    LET emptied == EmptyGeneralPurposeRegisters(SpillGeneralPurposeRegisters(Start))
        used == {r \in Allocatable : Cardinality({q \in Allocatable : q < r}) < scratches}
        read == ReadsHomes([emptied EXCEPT !.dirtied = @ \cup (used \cap CalleeSaved)],
                           "operand", lists)
    IN  Emit(EmptyGeneralPurposeRegisters([read EXCEPT
                 !.home = @ \cup written, !.value = [r \in Reg |-> Junk]]),
             lists, written)

VaStart(list) == VaOperation({list}, {list} \cap Wide, 2)
VaArg(list, result) == VaOperation({list}, {result} \cup ({list} \cap Wide), 4)
VaCopy(to, from) == VaOperation({to, from}, {to} \cap Wide, 3)

----------------------------------------------------------------------------
(* Calls.  The Argument instructions of a call only queue its operands.    *)

ArgumentRegisters == {ArgRegs[i] : i \in DOMAIN ArgRegs}
ArgReg(site, i) == ArgRegs[i + Cardinality(Written(site))]

RegisterArgument(m, site, i) ==
    IF i > Len(site.ints) THEN m
    ELSE LoadWord(StoreRegisterValue(m, ArgReg(site, i)), site.ints[i],
                  ArgReg(site, i), ArgumentRegisters)

\* a word argument goes through a scratch register, another is copied from its
\* home through two
StackArgument(m, site, i) ==
    IF i > Len(site.stack) THEN m
    ELSE LET s == site.stack[i]
             r == Obtained(m, ArgumentRegisters)
         IN  IF s \in Wide
             THEN Scratch(Scratch(m, ArgumentRegisters), ArgumentRegisters \cup {r})
             ELSE Reads(LoadWord(Obtain(m, ArgumentRegisters), s, r, ArgumentRegisters),
                        "operand", {<<r, s>>})

VectorArgument(m, site, i) ==
    IF i > Len(site.vector) THEN m
    ELSE LET r == Obtained(m, ArgumentRegisters)
         IN  Reads(LoadWord(Obtain(m, ArgumentRegisters), site.vector[i], r,
                            ArgumentRegisters),
                   "operand", {<<r, site.vector[i]>>})

\* (a slip: liveness alone)
SpilledIfLive(live) == live \ AddressTaken

\* spillCallerSavedRegisters; live is what may be read after the call
SpilledBeforeCall(live) == live \cup MayAlias \cup (Sym \ Temp)

\* emitCallArguments and the target of emitCall, up to the call instruction.  The
\* address of a memory return is loaded twice (nothing is left to be stored in its
\* register the second time).
CallArguments(site, live) ==
    LET sret(m) == IF site.sret = None THEN m
                   ELSE Write(StoreRegisterValue(m, ArgRegs[1]), ArgRegs[1], site.sret)
        ints == RegisterArgument(RegisterArgument(sret(Start), site, 1), site, 2)
        spilled == SpillHolders(StoreRegisterValue(ints, Rax), CallerSaved,
                                SpilledBeforeCall(live))
        stacked == StackArgument(StackArgument(spilled, site, 1), site, 2)
        vectors == VectorArgument(VectorArgument(stacked, site, 1), site, 2)
        counted == sret(Write(vectors, Rax, VectorCount))
    IN  IF site.target = None THEN counted ELSE LoadWord(counted, site.target, Target, {})

\* what the callee finds in registers.  The count of vector registers of a call
\* through a global is reported apart (see EveryReadCurrent)
CallReads(m, site) ==
    LET registers == {<<ArgReg(site, i), site.ints[i]>> : i \in DOMAIN site.ints}
            \cup {<<ArgRegs[1], s>> : s \in Written(site)}
            \cup {<<Target, s>> : s \in {site.target} \cap Sym}
    IN  Reads(Reads(m, "call", registers),
              IF site.target \in Global THEN "callGlobal" ELSE "call",
              {<<Rax, VectorCount>>})

\* the callee reads and writes object, may use every register a call does not
\* preserve, and returns: dropCallerSavedBindings
Called(m, site, object) ==
    LET written == Written(site) \cup ({object} \cap Sym)
        after == ReadsHomes(m, "callee", {object} \cap Sym)
        dropped == {r \in CallerSaved : m.held[r] # None}
    IN  [after EXCEPT
            !.home = @ \cup written,
            !.value = [r \in Reg |-> IF r \notin CalleeSaved \/ @[r] \in written
                                       THEN Junk ELSE @[r]],
            !.held = [r \in Reg |-> IF r \in dropped THEN None ELSE @[r]],
            !.bound = [s \in Sym |-> IF @[s] \in dropped /\ m.held[@[s]] = s
                                       THEN None ELSE @[s]]]

\* what a call's result is retrieved into: a temp of its own, which nothing has
\* been bound to since the last label, or a multi-word object
Retrieved == (Temp \cup Wide) \ Global

\* callProcedure, callProcedureIndirect
Call(site, object, returns) ==
    /\ phase \in {"body", "label"}
    /\ Passed(site) \cup Written(site) \subseteq needed
    /\ returns => \E result \in Retrieved : InMemory(cache, result)
    /\ \E dying \in SUBSET (Temp \cap Passed(site)) :
        LET ready == CallReads(CallArguments(site, needed \ dying), site)
        IN  /\ cache' = Settle(FinishInstruction(Called(ready, site, object), dying))
            /\ needed' = needed \ dying
    /\ phase' = IF returns THEN "retrieve" ELSE "body"
    /\ UNCHANGED exposed

\* a narrow value that reached its home unextended is loaded and bound
BindGprExtended(m, s) ==
    IF s \notin Narrow THEN m
    ELSE LET r == Obtained(m, {})
             loaded == LoadWord(Obtain(m, {}), s, r, {})
         IN  BindResult(Reads(loaded, "operand", {<<r, s>>}), r, s)

\* retrieveProcedureReturnValue: from rax and rdx, or from vector registers
Retrieve(result, vector) ==
    /\ phase = "retrieve"
    /\ InMemory(cache, result)
    /\ LET from == IF vector THEN Scratch(Start, {Rax, Rdx}) ELSE Start
       IN  cache' = Settle(BindGprExtended(DefineInMemory(from, result), result))
    /\ needed' = needed \cup {result}
    /\ phase' = "body"
    /\ UNCHANGED exposed

\* returnFromProcedure: in rax and rdx, in a vector register, on the x87 stack,
\* or through the pointer kept for a memory return
ReturnKind == {"void", "integer", "vector", "x87", "memory"}
Returned(operand, kind) ==
    LET words == IF operand \in Wide THEN {Rax, Rdx} ELSE {Rax}
        rax == LoadWord(Start, operand, Rax, {Rax, Rdx})
        integer == IF operand \in Wide THEN LoadWord(rax, operand, Rdx, {Rax, Rdx}) ELSE rax
        r == Obtained(Start, {Rax, Rdx})
        vector == LoadWord(Obtain(Start, {Rax, Rdx}), operand, r, {Rax, Rdx})
        hold == Obtained(Start, {Rax})
        stored == StoreInMemory(Write(Obtain(Start, {Rax}), hold, Junk), operand)
    IN  CASE kind = "void" -> Start
          [] kind = "integer" -> Reads(integer, "operand", words \X {operand})
          [] kind = "vector" -> Reads(vector, "operand", {<<r, operand>>})
          [] kind = "x87" -> ReadsHomes(StoreInMemory(Start, operand), "operand", {operand})
          [] kind = "memory" -> ReadsHomes(Scratch(stored, {hold}), "operand", {operand})

\* only the globals are read after it
Return(operand, kind) ==
    /\ phase \in {"body", "label"}
    /\ cache' = Settle(Returned(operand, kind))
    /\ needed' = Global
    /\ phase' = "returned"
    /\ UNCHANGED exposed

----------------------------------------------------------------------------
(* Control flow: homes agree, and nothing is in a register, at a label.    *)

\* live: liveInAtLabel_, which has every AddressTaken symbol
LiveIn == {Always \cup named : named \in SUBSET (needed \ Always)}

AcrossEdge(m, live) == SpillHolders(m, Reg, live)
DropDeadBindings(m) == FreeHolders(m, Reg, Sym)

\* (a slip: what falls into the label is not written back)
LabelUnspilled(live) ==
    /\ phase \in {"body", "label"}
    /\ cache' = Settle(DropDeadBindings(Start))
    /\ needed' = live
    /\ phase' = "label"
    /\ UNCHANGED exposed

Label(live) ==
    /\ phase \in {"body", "label"}
    /\ cache' = Settle(DropDeadBindings(AcrossEdge(Start, live)))
    /\ needed' = live
    /\ phase' = "label"
    /\ UNCHANGED exposed

\* a taken jump continues at its label, where DropDeadBindings was applied
Jump(live, taken) ==
    /\ phase \in {"body", "label"}
    /\ LET m == AcrossEdge(Start, live)
       IN  cache' = Settle(IF taken THEN DropDeadBindings(m) ELSE m)
    /\ needed' = IF taken THEN live ELSE needed
    /\ phase' = IF taken THEN "label" ELSE "body"
    /\ UNCHANGED exposed

----------------------------------------------------------------------------
(* Procedures.                                                             *)

Unbound == [held |-> [r \in Reg |-> None], bound |-> [s \in Sym |-> None],
            value |-> [r \in Reg |-> Junk], home |-> Sym, misread |-> {}, dirtied |-> {}]

\* the formals in registers: words are bound to the register they arrive in,
\* narrow ones are stored to their homes and loaded back.  A variadic
\* procedure stores all of them.
Entered(formals, first, variadic) ==
    LET register == [s \in Sym |->
            IF \E i \in DOMAIN formals : formals[i] = s /\ s \notin Narrow
              THEN ArgRegs[first + (CHOOSE i \in DOMAIN formals : formals[i] = s)]
              ELSE None]
        arrived == [r \in Reg |-> IF \E s \in Sym : register[s] = r
                                    THEN CHOOSE s \in Sym : register[s] = r ELSE None]
        bound == [Unbound EXCEPT
            !.held = arrived, !.bound = register,
            !.value = [r \in Reg |-> IF arrived[r] = None THEN Junk ELSE arrived[r]],
            !.home = {s \in Sym : register[s] = None}]
    IN  IF variadic THEN EmptyGeneralPurposeRegisters(SpillGeneralPurposeRegisters(bound))
        ELSE bound

Formal(m, formals, i) == IF i > Len(formals) THEN m ELSE BindGprExtended(m, formals[i])

StartProcedure(formals, sret, variadic) ==
    LET first == IF sret THEN 1 ELSE 0
        names == {formals[i] : i \in DOMAIN formals}
        m == Formal(Formal(Entered(formals, first, variadic), formals, 1), formals, 2)
    IN  /\ phase = "idle"
        /\ first + Len(formals) <= Len(ArgRegs)
        /\ Cardinality(names) = Len(formals)
        /\ cache' = Settle(m)
        /\ \E live \in SUBSET names : needed' = Always \cup live
        /\ phase' = "body"
        /\ UNCHANGED exposed

EndProcedure ==
    /\ phase = "returned"
    /\ cache' = Unbound
    /\ needed' = Always
    /\ exposed' = Global
    /\ phase' = "idle"

----------------------------------------------------------------------------
(* The machine compiles one procedure after another.                       *)

Init ==
    /\ cache = Unbound
    /\ needed = Always
    /\ exposed = Global
    /\ phase = "idle"

Word == needed \ Wide
MultiWord == needed \cap Wide
Destination == Computed \ Wide
Pointee(pointer) == (exposed \ {pointer}) \cup {None}
Formals == {<<>>} \cup {<<s>> : s \in Cacheable \ Temp} \cup
           ((Cacheable \ Temp) \X (Cacheable \ Temp))

IntegerStep ==
    \/ \E left, right \in Word, result \in Destination :
            \/ GprBinary(left, right, result)
            \/ Mul(left, right, result)
            \/ Div(left, right, result)
            \/ Mod(left, right, result)
            \/ Shift(left, right, result)
    \/ \E operand \in Word, result \in Destination : Unary(operand, result)
    \/ \E operand \in Word, result \in Destination \cup Wide :
            WidenInteger(operand, result)
    \/ \E left, right \in Word : Compare(left, right)
    \/ \E operand \in Word : ZeroCompare(operand) \/ StepLvalue(operand)
    \/ \E operand \in Word, result \in Sym \ Wide : AssignSymbol(operand, result)
    \/ \E result \in Sym \ Wide : AssignConstant(result)

FloatStep ==
    \/ \E left, right \in Word, result \in Destination : FloatBinary(left, right, result)
    \/ \E left, right \in Word : FloatCompare(left, right)
    \/ \E operand \in Word : FloatZeroCompare(operand)
    \/ \E operand \in Word, result \in Destination :
            \/ FloatMinus(operand, result)
            \/ \E conversion \in Conversion : NumericConvert(operand, result, conversion)

AddressStep ==
    \/ \E result \in Destination : LoadAddress(result)
    \/ \E base \in needed, result \in Destination, lea \in BOOLEAN :
            /\ base \in Wide => lea
            /\ \/ FieldAddress(base, result, lea)
               \/ \E index \in Word, bytes \in BOOLEAN :
                       IndexAddress(base, index, result, lea, bytes)
    \/ \E left, right \in Word, result \in Destination, bytes \in BOOLEAN :
            PointerDifference(left, right, result, bytes)
    \/ \E operand \in needed, result \in Destination : AddressOf(operand, result)
    \/ \E size \in Word, result \in Destination : AllocaBytes(size, result)
    \/ \E pointer \in Word, result \in Destination \cup Wide :
            \E object \in Pointee(pointer) : Dereference(pointer, result, object)
    \/ \E operand \in needed, pointer \in Word :
            \E object \in Pointee(pointer) : LvalueAssign(operand, pointer, object)

WideStep ==
    \/ \E left, right \in MultiWord, result \in Wide : WideBinary(left, right, result)
    \/ \E operand \in MultiWord, count \in needed, result \in Wide :
            WideShift(operand, count, result)
    \/ \E left, right \in MultiWord : WideCompare(left, right)
    \/ \E operand \in MultiWord : WideZeroCompare(operand)
    \/ \E operand \in MultiWord, result \in Wide : WideMinus(operand, result)
    \/ \E operand \in MultiWord, result \in Wide \cup (Computed \cap Temp) :
            WideCopy(operand, result)
    \/ \E left, right \in needed, result \in Destination \cup Wide :
            InMemoryOperation({left, right}, result)
    \/ \E list \in needed : VaStart(list)
    \/ \E list \in needed, result \in Computed \cap Temp : VaArg(list, result)
    \/ \E to, from \in needed : VaCopy(to, from)

ControlStep ==
    \/ \E site \in CallSites, object \in exposed \cup {None}, returns \in BOOLEAN :
            Call(site, object, returns)
    \/ \E result \in Retrieved, vector \in BOOLEAN : Retrieve(result, vector)
    \/ \E operand \in needed \cup {None}, kind \in ReturnKind :
            (operand = None <=> kind = "void") /\ Return(operand, kind)
    \/ \E live \in LiveIn : Label(live) \/ \E taken \in BOOLEAN : Jump(live, taken)
    \/ \E formals \in Formals, sret, variadic \in BOOLEAN :
            StartProcedure(formals, sret, variadic)
    \/ EndProcedure

Next == IntegerStep \/ FloatStep \/ AddressStep \/ WideStep \/ ControlStep

Spec == Init /\ [][Next]_vars

----------------------------------------------------------------------------
(* Properties.                                                             *)

TypeOK ==
    /\ cache \in CacheType
    /\ needed \subseteq Sym /\ exposed \subseteq Always
    /\ phase \in {"idle", "body", "label", "retrieve", "returned"}

\* The two books agree: a symbol that is said to live in a register is what
\* that register holds, so no two symbols ever share one.  Register::assign and
\* Register::free keep the two pointers, and every handler that moves a symbol
\* (shiftBy, stepLvalue, bindResult) leaves a stale valueHeld behind.
BoundIsHeld ==
    \A s \in Sym : cache.bound[s] # None => cache.held[cache.bound[s]] = s

\* Globals and multi-word objects always live in memory: bindResult writes
\* through to a global home, assignRegisterTo loads one without binding it.
MemoryObjectsUnbound == \A s \in Wide \cup Global : InMemory(cache, s)

\* Between instructions, every symbol the rest of the path may read is where
\* the machine says it is: its register has its current value, or its home has.
\* With callee-saved registers in use a local whose address the path has taken is
\* not covered: it may live in one across a call that changes it (see the README).
Exempt == IF UseCalleeSaved THEN (exposed \cap AddressTaken) \ Wide ELSE {}
Current(m, s) == IF InMemory(m, s) THEN s \in m.home ELSE m.value[m.bound[s]] = s
Coherent == \A s \in needed \ Exempt : Current(cache, s)

\* No handler reads an operand out of a register or a home that does not have
\* its current value: neither is it stale, nor was the register taken for
\* another operand, a scratch value or an implicit operand (rax, rdx, rcx) after
\* the operand was loaded into it.
OperandsCurrent ==
    \A s \in Sym : <<"operand", s>> \in cache.misread => s \in Exempt

\* No scratch register of a handler overlays a word already loaded of a
\* multi-word operand that is not global.
WideOperandsIntact == \A s \in Sym : <<"wide", s>> \in cache.misread => s \in Exempt

\* At the call instruction each argument register, the target register and,
\* unless the call goes through a global pointer, the count of vector registers
\* in rax have what emitCallArguments and emitCall put there: loading one does
\* not overwrite another.
CallRegistersIntact ==
    \A s \in Sym \cup {VectorCount} : <<"call", s>> \in cache.misread => s \in Exempt

\* A callee that reads an object of the caller through a pointer finds what the
\* caller last wrote to it (spillCallerSavedRegisters).
CalleeSeesCallerWrites ==
    \A s \in Sym : <<"callee", s>> \in cache.misread => s \in Exempt

\* Whatever an instruction, a call or the callee reads is the current value of
\* what it means to read, but for the reads that EveryReadCurrent has besides.
EachReadCurrent ==
    OperandsCurrent /\ WideOperandsIntact /\ CallRegistersIntact /\ CalleeSeesCallerWrites

\* A procedure that does not save the callee-saved registers on entry (level 0)
\* never writes one.
CalleeSavedPreserved == UseCalleeSaved \/ cache.dirtied = {}

\* Whatever path reaches a label, its code starts with every symbol in memory,
\* and with the current value of every symbol live there in its home: the
\* state the code after the label was generated for (label, jump).
JoinFindsHomes ==
    phase = "label" =>
        /\ \A s \in Sym : InMemory(cache, s)
        /\ needed \ Exempt \subseteq cache.home

\* Whatever an instruction, a call or its callee reads is current: also what a
\* load through a pointer finds in memory (dereference), the accumulator of a
\* multi-word operation on globals (wideIntegerBinary), and the count of vector
\* registers at a call through a global (emitCall).
EveryReadCurrent == cache.misread = {}

============================================================================
