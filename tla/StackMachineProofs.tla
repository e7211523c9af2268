------------------------- MODULE StackMachineProofs -------------------------
(***************************************************************************)
(* What StackMachine promises, proved for every set of registers and       *)
(* symbols and every program. First the lemmas the proofs rest on: what    *)
(* the operators that move symbols between registers and memory keep of    *)
(* the machine's books and of the current values of the symbols. They end  *)
(* with the inductive invariant, Inv. Then one lemma per action: every     *)
(* instruction that stays within the procedure keeps it, and so do calls,  *)
(* labels, jumps and procedure boundaries. The properties follow from it.  *)
(***************************************************************************)
EXTENDS StackMachine, TLAPS, WellFoundedInduction, FiniteSetTheorems

\* The machine's own books agree with each other: a symbol lives in the register
\* that was last assigned to it, in one the code may allocate, and objects that
\* stay in memory live in none.
Books(m) ==
    /\ m \in CacheType
    /\ \A s \in Sym : m.bound[s] # None =>
           m.held[m.bound[s]] = s /\ m.bound[s] \in Allocatable
    /\ \A s \in Wide \cup Global : m.bound[s] = None
    /\ m.dirtied \subseteq Allocatable

\* Every symbol of K is current where the machine says it is.
Intact(m, K) == \A s \in K : Current(m, s)

\* No symbol of S lives in r.
Vacant(m, r, S) == \A s \in S : m.bound[s] # r

\* From m to n symbols have at most been stored: none has been moved to a register.
OnlyFreed(m, n) ==
    /\ \A s \in Sym : n.bound[s] \in {m.bound[s], None}
    /\ \A r \in Reg : n.held[r] \in {m.held[r], None}

\* The reads EachReadCurrent is about have all been of current values, but for the
\* symbols it leaves out.
Watched == {"operand", "wide", "call", "callee"}
ReadsCurrent(m) ==
    \A reader \in Watched : \A s \in Sym \cup {VectorCount} :
        <<reader, s>> \in m.misread => s \in Exempt

\* What the handlers keep of the machine, K being what must not be lost.
Good(m, K) == K \subseteq Sym /\ Books(m) /\ Intact(m, K) /\ ReadsCurrent(m)

\* An instruction that reads s in r reads its current value (unless s is left out).
Carries(m, r, s) == m.value[r] = s \/ s \in Exempt

\* Every operand is carried by the register it is read in.
Carried(m, operands) ==
    \A o \in operands : o[2] \in Sym \cup {VectorCount} /\ Carries(m, o[1], o[2])

\* The machine says the same of where symbols live.
SameBooks(m, n) == n.held = m.held /\ n.bound = m.bound

----------------------------------------------------------------------------
\* Every set of numbers has a least element: there is a first register.
LEMMA LeastElement ==
    ASSUME NEW S \in SUBSET Nat, S # {}
    PROVE  \E least \in S : \A n \in S : least <= n
<1> DEFINE Below == {p \in Nat \X Nat : p[1] < p[2]}
<1>1. IsWellFoundedOn(Below, Nat)
  BY NatLessThanWellFounded, Zenon DEF OpToRel
<1> HIDE DEF Below
<1>2. PICK least \in S : \A n \in S : <<n, least>> \notin Below
  BY <1>1, WFMin, Zenon
<1>3. ASSUME NEW n \in S PROVE least <= n
  <2>1. \A a, b \in Nat : a < b => <<a, b>> \in Below
    BY DEF Below
  <2>2. ~(n < least)
    BY <1>2, <2>1
  <2> QED  BY <2>2
<1> QED  BY <1>3

\* Registers are numbers, and "in memory" is not a register.
LEMMA RegisterNumbers ==
    Reg \subseteq Nat /\ None \notin Reg
BY Registers, Symbols

\* The caller-saved and the special registers may be allocated at every level
\* (callerSavedRegisters, getRetrievalRegister, getCounterRegister).
LEMMA AllocatableRegisters ==
    /\ Allocatable \subseteq Reg
    /\ CallerSaved \cup {Rax, Rdx, Rcx, Target} \subseteq Allocatable
BY Registers DEF Allocatable

\* get64BitRegisterExcluding returns an allocatable register that is not excluded.
LEMMA ObtainedAllocatable ==
    ASSUME NEW m, NEW X, Allocatable \ X # {}
    PROVE  Obtained(m, X) \in Allocatable \ X
BY LeastElement, Registers, AllocatableRegisters DEF First, Obtained

----------------------------------------------------------------------------
\* Storing symbols, and storing more of them, stores symbols.
LEMMA FreedIsTransitive ==
    ASSUME NEW m, NEW n, NEW p, OnlyFreed(m, n), OnlyFreed(n, p)
    PROVE  OnlyFreed(m, p)
BY DEF OnlyFreed

\* A register nobody lives in stays so while symbols are only stored.
LEMMA VacantIfFreed ==
    ASSUME NEW m, NEW n, OnlyFreed(m, n), NEW r \in Reg, NEW S \in SUBSET Sym,
           Vacant(m, r, S)
    PROVE  Vacant(n, r, S)
BY Symbols DEF OnlyFreed, Vacant

\* A symbol in memory stays there while symbols are only stored.
LEMMA InMemoryIfFreed ==
    ASSUME NEW m, NEW n, OnlyFreed(m, n), NEW s \in Sym, InMemory(m, s)
    PROVE  InMemory(n, s)
BY DEF OnlyFreed, InMemory

\* What keeps a set of symbols intact keeps every part of it intact.
LEMMA GoodOfFewer ==
    ASSUME NEW m, NEW K, NEW L, Good(m, K), L \subseteq K
    PROVE  Good(m, L)
BY DEF Good, Intact

----------------------------------------------------------------------------
(* Instructions.                                                           *)

\* An instruction may write any allocatable register in which no symbol lives
\* that is still read.
LEMMA WriteGood ==
    ASSUME NEW m, NEW K, Good(m, K), NEW r \in Allocatable,
           NEW v \in Sym \cup {Junk, VectorCount}, Vacant(m, r, K)
    PROVE  Good(Write(m, r, v), K) /\ OnlyFreed(m, Write(m, r, v))
<1>1. Books(Write(m, r, v))
  BY AllocatableRegisters DEF Good, Books, CacheType, Write
<1>2. Intact(Write(m, r, v), K) /\ OnlyFreed(m, Write(m, r, v))
  BY AllocatableRegisters
  DEF Good, Books, CacheType, Write, Intact, Current, InMemory, Vacant, OnlyFreed
<1>3. ReadsCurrent(Write(m, r, v))
  BY DEF Good, Books, CacheType, Write, ReadsCurrent
<1> QED  BY <1>1, <1>2, <1>3 DEF Good

\* A load is such a write.
LEMMA LoadGood ==
    ASSUME NEW m, NEW K, Good(m, K), NEW s \in Sym, NEW r \in Allocatable,
           Vacant(m, r, K)
    PROVE  Good(Load(m, s, r), K) /\ OnlyFreed(m, Load(m, s, r))
BY WriteGood DEF Load

\* A copy from a register or a home is such a write.
LEMMA CopyToRegisterGood ==
    ASSUME NEW m, NEW K, Good(m, K), NEW s \in Sym, NEW r \in Allocatable,
           Vacant(m, r, K)
    PROVE  /\ Good(CopyToRegister(m, s, r), K)
           /\ OnlyFreed(m, CopyToRegister(m, s, r))
BY WriteGood, LoadGood DEF CopyToRegister, OnlyFreed

\* Reading registers changes nothing but the record of what was misread, and not
\* that if they carry the operands.
LEMMA ReadsGood ==
    ASSUME NEW m, NEW K, Good(m, K), NEW reader \in Reader, NEW operands,
           \A o \in operands : o[2] \in Sym \cup {VectorCount},
           reader \in Watched => Carried(m, operands)
    PROVE  LET n == Reads(m, reader, operands)
           IN  Good(n, K) /\ OnlyFreed(m, n) /\ n.value = m.value
<1> DEFINE stale == {<<reader, o[2]>> : o \in {p \in operands : m.value[p[1]] # p[2]}}
           n == Reads(m, reader, operands)
<1>1. stale \subseteq Reader \X (Sym \cup {VectorCount})
  OBVIOUS
<1>2. ASSUME NEW q \in Watched, NEW s \in Sym \cup {VectorCount}, <<q, s>> \in stale
      PROVE  s \in Exempt BY <1>2 DEF Carried, Carries
<1> HIDE DEF stale
<1>3. /\ n.misread = m.misread \cup stale /\ n.value = m.value /\ n.held = m.held
      /\ n.bound = m.bound /\ n.home = m.home /\ n.dirtied = m.dirtied
      /\ n \in CacheType
  BY <1>1 DEF Good, Books, CacheType, Reads, stale
<1> HIDE DEF n
<1>4. ReadsCurrent(n)
  BY <1>2, <1>3 DEF Good, ReadsCurrent
<1> QED
  BY <1>3, <1>4 DEF n, Good, Books, CacheType, Intact, Current, InMemory, OnlyFreed

\* Reading homes changes nothing but the record of what was misread, and not that
\* if they are current.
LEMMA ReadsHomesGood ==
    ASSUME NEW m, NEW K, Good(m, K), NEW reader \in Reader, NEW S \in SUBSET Sym,
           reader \in Watched => S \subseteq m.home \cup Exempt
    PROVE  /\ Good(ReadsHomes(m, reader, S), K)
           /\ OnlyFreed(m, ReadsHomes(m, reader, S))
<1> DEFINE stale == {reader} \X (S \ m.home)
           n == ReadsHomes(m, reader, S)
<1>1. stale \subseteq Reader \X (Sym \cup {VectorCount})
  OBVIOUS
<1>2. \A q \in Watched, s \in Sym \cup {VectorCount} : <<q, s>> \in stale => s \in Exempt
  OBVIOUS
<1> HIDE DEF stale
<1>3. /\ n.misread = m.misread \cup stale /\ n.value = m.value /\ n.held = m.held
      /\ n.bound = m.bound /\ n.home = m.home /\ n.dirtied = m.dirtied
      /\ n \in CacheType
  BY <1>1 DEF Good, Books, CacheType, ReadsHomes, stale
<1> HIDE DEF n
<1>4. ReadsCurrent(n)
  BY <1>2, <1>3 DEF Good, ReadsCurrent
<1> QED
  BY <1>3, <1>4 DEF n, Good, Books, CacheType, Intact, Current, InMemory, OnlyFreed

\* A new value may be written to the home of a symbol that is in memory.
LEMMA DefineInMemoryGood ==
    ASSUME NEW m, NEW K, Good(m, K), NEW s \in Sym, InMemory(m, s)
    PROVE  /\ Good(DefineInMemory(m, s), K \cup {s})
           /\ OnlyFreed(m, DefineInMemory(m, s))
<1>1. Books(DefineInMemory(m, s))
  BY DEF Good, Books, CacheType, DefineInMemory, Outdate
<1>2. Intact(DefineInMemory(m, s), K \cup {s})
  BY DEF Good, Books, CacheType, DefineInMemory, Outdate, Intact, Current, InMemory
<1>3. OnlyFreed(m, DefineInMemory(m, s))
  BY DEF Good, Books, CacheType, DefineInMemory, Outdate, OnlyFreed
<1>4. ReadsCurrent(DefineInMemory(m, s))
  BY DEF Good, Books, CacheType, DefineInMemory, Outdate, ReadsCurrent
<1> QED  BY <1>1, <1>2, <1>3, <1>4 DEF Good

----------------------------------------------------------------------------
(* Registers changing hands.                                               *)

\* Register::free leaves no symbol in the register it frees.
LEMMA FreeBooks ==
    ASSUME NEW m, Books(m), NEW r \in Reg
    PROVE  LET n == Free(m, r)
           IN  /\ Books(n) /\ OnlyFreed(m, n) /\ Vacant(n, r, Sym)
               /\ n.value = m.value /\ n.misread = m.misread /\ n.held[r] = None
BY Symbols DEF Books, CacheType, Free, OnlyFreed, Vacant

\* storeRegisterValue leaves no symbol in the register it is given.
LEMMA StoreRegisterValueBooks ==
    ASSUME NEW m, Books(m), NEW r \in Reg
    PROVE  LET n == StoreRegisterValue(m, r)
           IN  /\ Books(n) /\ OnlyFreed(m, n) /\ Vacant(n, r, Sym)
               /\ n.value = m.value /\ n.misread = m.misread /\ ~ContainsUnstored(n, r)
<1>1. CASE ContainsUnstored(m, r)
  <2> DEFINE n == EmitStore(m, r, m.held[r])
  <2>1. m.held[r] \in Sym
    BY <1>1 DEF ContainsUnstored, Books, CacheType
  <2>2. /\ Books(n) /\ n.bound = m.bound /\ n.held = m.held
        /\ n.value = m.value /\ n.misread = m.misread
    BY <2>1 DEF Books, CacheType, EmitStore
  <2> HIDE DEF n
  <2>3. LET f == Free(n, r)
        IN  /\ Books(f) /\ OnlyFreed(n, f) /\ Vacant(f, r, Sym)
            /\ f.value = n.value /\ f.misread = n.misread /\ f.held[r] = None
    BY <2>2, FreeBooks
  <2>4. StoreRegisterValue(m, r) = Free(n, r)
    BY <1>1 DEF StoreRegisterValue, n
  <2> QED  BY <2>2, <2>3, <2>4 DEF OnlyFreed, ContainsUnstored
<1>2. CASE ~ContainsUnstored(m, r)
  <2>1. Vacant(m, r, Sym)
    BY <1>2, Registers, Symbols DEF ContainsUnstored, Vacant, Books, CacheType, InMemory
  <2> QED  BY <1>2, <2>1 DEF StoreRegisterValue, OnlyFreed
<1> QED  BY <1>1, <1>2

\* storeRegisterValue loses no current value: the home is written before the
\* symbol is moved there, and only when the symbol still lives in the register.
LEMMA StoreRegisterValueIntact ==
    ASSUME NEW m, Books(m), NEW r \in Reg, NEW K \in SUBSET Sym, Intact(m, K)
    PROVE  Intact(StoreRegisterValue(m, r), K)
<1>1. CASE ContainsUnstored(m, r)
  <2> DEFINE h == m.held[r]
             n == Free(EmitStore(m, r, h), r)
  <2>1. h \in Sym /\ m.bound[h] # None
    BY <1>1 DEF ContainsUnstored, InMemory, Books, CacheType
  <2>2. ASSUME NEW s \in K, s # h PROVE Current(n, s)
    BY <2>1, <2>2 DEF Intact, Current, InMemory, Books, CacheType, Free, EmitStore
  <2>3. ASSUME h \in K PROVE Current(n, h)
    BY <2>1, <2>3 DEF Intact, Current, InMemory, EmitStore, Books, CacheType, Free
  <2> QED BY <2>2, <2>3, <1>1 DEF Intact, StoreRegisterValue
<1>2. CASE ~ContainsUnstored(m, r)
  BY <1>2 DEF StoreRegisterValue
<1> QED  BY <1>1, <1>2

\* Both together.
LEMMA StoreRegisterValueGood ==
    ASSUME NEW m, NEW K, Good(m, K), NEW r \in Reg
    PROVE  LET n == StoreRegisterValue(m, r)
           IN  /\ Good(n, K) /\ OnlyFreed(m, n) /\ Vacant(n, r, Sym)
               /\ n.value = m.value /\ ~ContainsUnstored(n, r)
BY StoreRegisterValueBooks, StoreRegisterValueIntact DEF Good, ReadsCurrent

\* storeInMemory moves a symbol to its home and loses no current value.
LEMMA StoreInMemoryGood ==
    ASSUME NEW m, NEW K, Good(m, K), NEW s \in Sym
    PROVE  LET n == StoreInMemory(m, s)
           IN  Good(n, K) /\ OnlyFreed(m, n) /\ InMemory(n, s) /\ n.value = m.value
BY StoreRegisterValueGood DEF StoreInMemory, OnlyFreed, InMemory, Good, Books, CacheType,
   Vacant

\* Obtaining a register stores what lives in it, and nothing lives there then.
LEMMA ObtainGood ==
    ASSUME NEW m, NEW K, Good(m, K), NEW X, Allocatable \ X # {}
    PROVE  /\ Obtained(m, X) \in Allocatable \ X
           /\ Good(Obtain(m, X), K)
           /\ OnlyFreed(m, Obtain(m, X))
           /\ Vacant(Obtain(m, X), Obtained(m, X), Sym)
           /\ Obtain(m, X).value = m.value
BY ObtainedAllocatable, AllocatableRegisters, StoreRegisterValueGood DEF Obtain

\* A scratch register may be taken and overwritten between any two instructions
\* of a handler.
LEMMA ScratchGood ==
    ASSUME NEW m, NEW K, Good(m, K), NEW X, Allocatable \ X # {}
    PROVE  /\ Obtained(m, X) \in Allocatable \ X
           /\ Good(Scratch(m, X), K)
           /\ OnlyFreed(m, Scratch(m, X))
           /\ Vacant(Scratch(m, X), Obtained(m, X), Sym)
           /\ \A q \in Reg : q \in X => Scratch(m, X).value[q] = m.value[q]
<1> DEFINE n == Obtain(m, X)
           r == Obtained(m, X)
<1>1. /\ r \in Allocatable \ X /\ r \in Reg /\ Good(n, K) /\ OnlyFreed(m, n)
      /\ Vacant(n, r, Sym) /\ n.value = m.value
  BY ObtainGood, AllocatableRegisters
<1>2. Vacant(n, r, K)
  BY <1>1 DEF Vacant, Good
<1> HIDE DEF n, r
<1>3. Good(Write(n, r, Junk), K) /\ OnlyFreed(n, Write(n, r, Junk))
  BY <1>1, <1>2, WriteGood
<1>4. OnlyFreed(m, Write(n, r, Junk)) /\ Vacant(Write(n, r, Junk), r, Sym)
  BY <1>1, <1>3, FreedIsTransitive, VacantIfFreed
<1>5. \A q \in Reg : q \in X => Write(n, r, Junk).value[q] = m.value[q]
  BY <1>1 DEF Write, Good, Books, CacheType
<1> QED  BY <1>1, <1>3, <1>4, <1>5 DEF Scratch, n, r

\* The loops that free registers (finishInstruction, emptyGeneralPurposeRegisters,
\* label) leave the symbols they are about in memory, and no others.
LEMMA FreeHoldersBooks ==
    ASSUME NEW m, Books(m), NEW regs \in SUBSET Reg, NEW S \in SUBSET Sym
    PROVE  LET n == FreeHolders(m, regs, S)
           IN  /\ Books(n) /\ OnlyFreed(m, n)
               /\ \A s \in S : m.bound[s] \in regs => InMemory(n, s)
               /\ \A s \in Sym \ S : n.bound[s] = m.bound[s]
               /\ n.home = m.home /\ n.value = m.value /\ n.misread = m.misread
<1> DEFINE n == FreeHolders(m, regs, S)
<1>1. n \in CacheType
  BY DEF Books, CacheType, FreeHolders
<1>2. \A s \in Sym : n.bound[s] =
          IF s \in S /\ m.bound[s] \in Visited(m, regs, s) THEN None ELSE m.bound[s]
  BY DEF Books, CacheType, FreeHolders
<1>3. \A r \in Reg : n.held[r] =
          IF \E s \in S : r \in Visited(m, regs, s) THEN None ELSE m.held[r]
  BY DEF Books, CacheType, FreeHolders
<1>4. /\ n.home = m.home /\ n.value = m.value /\ n.dirtied = m.dirtied
      /\ n.misread = m.misread
  BY DEF Books, CacheType, FreeHolders
<1>5. ASSUME NEW s \in S, m.bound[s] \in regs
      PROVE  m.bound[s] \in Visited(m, regs, s)
  <2>1. m.bound[s] \in Nat /\ m.bound[s] # None /\ m.held[m.bound[s]] = s
    BY <1>5, RegisterNumbers DEF Books
  <2>2. m.bound[s] <= m.bound[s]
    BY <2>1
  <2> QED  BY <1>5, <2>1, <2>2 DEF Visited
<1>6. \A s, q \in Sym : m.bound[s] # None /\ m.bound[s] \in Visited(m, regs, q) => s = q
  BY DEF Books, CacheType, Visited
<1> HIDE DEF n
<1>7. ASSUME NEW s \in Sym, n.bound[s] # None
      PROVE  n.held[n.bound[s]] = s /\ n.bound[s] \in Allocatable
  BY <1>2, <1>7, <1>3, <1>6 DEF Books, CacheType
<1>8. Books(n)
  BY <1>1, <1>2, <1>4, <1>7, Symbols DEF Books
<1>9. OnlyFreed(m, n)
  BY <1>2, <1>3 DEF OnlyFreed
<1> QED
  BY <1>2, <1>4, <1>5, <1>8, <1>9 DEF n, InMemory

\* They lose the current values of those symbols unless their homes have them.
LEMMA FreeHoldersGood ==
    ASSUME NEW m, NEW K, Good(m, K), NEW regs \in SUBSET Reg, NEW S \in SUBSET Sym
    PROVE  LET n == FreeHolders(m, regs, S)
           IN  /\ Good(n, (K \ S) \cup (K \cap m.home)) /\ OnlyFreed(m, n)
               /\ n.value = m.value
<1> DEFINE n == FreeHolders(m, regs, S)
<1>0. Books(m)
  BY DEF Good
<1>1. /\ Books(n) /\ OnlyFreed(m, n)
      /\ \A s \in S : m.bound[s] \in regs => InMemory(n, s)
      /\ \A s \in Sym \ S : n.bound[s] = m.bound[s]
      /\ n.home = m.home /\ n.value = m.value /\ n.misread = m.misread
  BY <1>0, FreeHoldersBooks, ZenonT(60)
<1> HIDE DEF n
<1>2. \A s \in K \ S : Current(n, s)
  BY <1>1 DEF Good, Intact, Current, InMemory
<1>3. \A s \in K \cap m.home : Current(n, s)
  BY <1>1 DEF Good, Intact, Current, InMemory, OnlyFreed
<1>4. ReadsCurrent(n)
  BY <1>1 DEF Good, ReadsCurrent
<1> QED  BY <1>1, <1>2, <1>3, <1>4 DEF n, Good, Intact

\* The loops that store registers lose nothing, even when a symbol is what several
\* registers were last assigned: the register it lives in is stored last.
LEMMA SpillHoldersGood ==
    ASSUME NEW m, NEW K, Good(m, K), NEW regs \in SUBSET Reg, NEW S \in SUBSET Sym
    PROVE  LET n == SpillHolders(m, regs, S)
           IN  /\ Good(n, K) /\ OnlyFreed(m, n) /\ n.value = m.value
               /\ \A s \in S : n.bound[s] \notin regs
<1> DEFINE f == FreeHolders(m, regs, S)
           n == SpillHolders(m, regs, S)
           stored(s) == s \in S /\ Visited(m, regs, s) # {}
<1>1. /\ Books(f) /\ OnlyFreed(m, f)
      /\ \A s \in S : m.bound[s] \in regs => InMemory(f, s)
      /\ \A s \in Sym \ S : f.bound[s] = m.bound[s]
      /\ f.home = m.home /\ f.value = m.value /\ f.misread = m.misread
  <2>1. Books(m)
    BY DEF Good
  <2> QED  BY <2>1, FreeHoldersBooks, ZenonT(60)
<1>2. /\ n.bound = f.bound /\ n.value = f.value /\ n.held = f.held
      /\ n.misread = f.misread
      /\ n.home = {s \in Sym : IF stored(s)
                                 THEN m.value[Last(Visited(m, regs, s))] = s
                                 ELSE s \in m.home}
      /\ Books(n)
  BY <1>1 DEF SpillHolders, Books, CacheType
<1> HIDE DEF f, n
<1>3. ASSUME NEW s \in S PROVE n.bound[s] \notin regs
  BY <1>1, <1>2, Symbols DEF OnlyFreed, InMemory
<1>4. ASSUME NEW s \in K PROVE Current(n, s)
  <2>1. s \in Sym /\ Current(m, s)
    BY DEF Good, Intact
  <2>2. CASE m.bound[s] = None
    BY <2>2, <1>1, <1>2, <2>1 DEF Visited, Current, InMemory, OnlyFreed
  <2>3. CASE m.bound[s] # None /\ n.bound[s] = m.bound[s]
    BY <1>1, <1>2, <2>1, <2>3 DEF Current, InMemory
  <2>4. CASE m.bound[s] # None /\ n.bound[s] # m.bound[s]
    <3>1. s \in S /\ m.bound[s] \in Reg /\ m.held[m.bound[s]] = s /\ n.bound[s] = None
      BY <1>1, <1>2, <2>1, <2>4 DEF Good, Books, CacheType, OnlyFreed
    <3>2. m.bound[s] \in Visited(m, regs, s)
      BY <1>2, <2>1, <2>4, <3>1 DEF Good, Books, CacheType, FreeHolders, f
    <3>3. \A r \in Visited(m, regs, s) : r \in Nat /\ r <= m.bound[s]
      BY <3>2, Registers DEF Visited
    <3>4. Last(Visited(m, regs, s)) = m.bound[s] BY <3>2, <3>3 DEF Last
    <3>5. m.value[m.bound[s]] = s
      BY <2>1, <2>4 DEF Current, InMemory
    <3> QED  BY <1>2, <2>1, <3>1, <3>2, <3>4, <3>5 DEF Current, InMemory
  <2> QED  BY <2>2, <2>3, <2>4
<1>5. ReadsCurrent(n) /\ OnlyFreed(m, n)
  BY <1>1, <1>2 DEF Good, ReadsCurrent, OnlyFreed
<1> QED  BY <1>1, <1>2, <1>3, <1>4, <1>5 DEF n, Good, Intact

\* No symbol lives in a register.
AllInMemory(m) == \A s \in Sym : InMemory(m, s)

\* spillGeneralPurposeRegisters moves every symbol to its home.
LEMMA SpillGeneralPurposeRegistersGood ==
    ASSUME NEW m, NEW K, Good(m, K)
    PROVE  LET n == SpillGeneralPurposeRegisters(m)
           IN  Good(n, K) /\ OnlyFreed(m, n) /\ AllInMemory(n)
<1>1. /\ Good(SpillHolders(m, Reg, Sym), K)
      /\ SpillHolders(m, Reg, Sym).value = m.value
      /\ OnlyFreed(m, SpillHolders(m, Reg, Sym))
      /\ \A s \in Sym : SpillHolders(m, Reg, Sym).bound[s] \notin Reg
  BY SpillHoldersGood
<1> QED
  BY <1>1 DEF SpillGeneralPurposeRegisters, Good, Books, CacheType, AllInMemory, InMemory

\* Emptying the registers after that changes nothing.
LEMMA EmptyGeneralPurposeRegistersGood ==
    ASSUME NEW m, NEW K, Good(m, K), AllInMemory(m)
    PROVE  LET n == EmptyGeneralPurposeRegisters(m)
           IN  Good(n, K) /\ OnlyFreed(m, n) /\ AllInMemory(n)
<1> DEFINE n == EmptyGeneralPurposeRegisters(m)
<1>1. /\ \A s \in Sym : n.bound[s] = None
      /\ \A r \in Reg : n.held[r] = None
      /\ n.home = m.home /\ n.dirtied = m.dirtied /\ n.misread = m.misread
      /\ n \in CacheType
  BY DEF EmptyGeneralPurposeRegisters, AllInMemory, InMemory, Good, Books, CacheType
<1> HIDE DEF n
<1>2. Books(n)
  BY <1>1, Symbols DEF Good, Books
<1>3. Intact(n, K)
  BY <1>1 DEF Good, Intact, Current, AllInMemory, InMemory
<1>4. ReadsCurrent(n)
  BY <1>1 DEF Good, ReadsCurrent
<1> QED  BY <1>1, <1>2, <1>3, <1>4 DEF n, Good, OnlyFreed, AllInMemory, InMemory

\* What is lost between instructions is only in registers no symbol lives in.
LEMMA SettleGood ==
    ASSUME NEW m, NEW K, Good(m, K)
    PROVE  Good(Settle(m), K) /\ SameBooks(m, Settle(m)) /\ Settle(m).home = m.home
<1> DEFINE n == Settle(m)
<1>1. /\ n.held = m.held /\ n.bound = m.bound /\ n.home = m.home /\ n.dirtied = m.dirtied
      /\ n.misread = m.misread
      /\ \A r \in Reg : n.value[r] = IF m.held[r] # None /\ m.bound[m.held[r]] = r
                                        /\ m.value[r] = m.held[r]
                                       THEN m.value[r] ELSE Junk
  BY DEF Settle, Good, Books, CacheType
<1>2. n \in CacheType
  BY DEF Settle, Good, Books, CacheType
<1> HIDE DEF n
<1>3. Books(n)
  BY <1>1, <1>2 DEF Good, Books
<1>4. ASSUME NEW s \in K PROVE Current(n, s)
  BY <1>1, Symbols DEF Good, Intact, Current, InMemory, Books, CacheType
<1>5. ReadsCurrent(n)
  BY <1>1 DEF Good, ReadsCurrent
<1> QED  BY <1>1, <1>3, <1>4, <1>5 DEF n, Good, Intact, SameBooks

----------------------------------------------------------------------------
(* Operands and results.                                                   *)

\* Register::assign keeps the books if no other symbol lives in the register.
LEMMA AssignBooks ==
    ASSUME NEW m, Books(m), NEW r \in Allocatable, NEW s \in Cacheable,
           Vacant(m, r, Sym \ {s})
    PROVE  Books(Assign(m, r, s))
<1> DEFINE n == Assign(m, r, s)
<1>1. r \in Reg /\ s \in Sym /\ s \notin Wide \cup Global
  BY AllocatableRegisters DEF Cacheable
<1>2. /\ n \in CacheType /\ n.dirtied = m.dirtied
      /\ \A q \in Sym : n.bound[q] = IF q = s THEN r ELSE m.bound[q]
      /\ \A q \in Reg : n.held[q] = IF q = r THEN s ELSE m.held[q]
  BY <1>1 DEF Books, CacheType, Assign
<1> HIDE DEF n
<1>3. ASSUME NEW q \in Sym, n.bound[q] # None
      PROVE  n.held[n.bound[q]] = q /\ n.bound[q] \in Allocatable
  BY <1>1, <1>2, <1>3 DEF Vacant, Books, CacheType
<1> QED  BY <1>1, <1>2, <1>3, Symbols DEF n, Books

\* A symbol may be moved to a register that has its current value.
LEMMA AssignGood ==
    ASSUME NEW m, NEW K \in SUBSET Sym, NEW s \in Cacheable, Good(m, K \ {s}),
           NEW r \in Allocatable, Vacant(m, r, Sym \ {s}), s \in K => m.value[r] = s
    PROVE  Good(Assign(m, r, s), K) /\ Assign(m, r, s).value = m.value
<1> DEFINE n == Assign(m, r, s)
<1>1. r \in Reg /\ r # None /\ s \in Sym
  BY AllocatableRegisters, Registers, Symbols DEF Cacheable
<1>2. Books(n)
  BY AssignBooks DEF Good
<1>3. /\ n.home = m.home /\ n.value = m.value /\ n.misread = m.misread
      /\ \A q \in Sym : n.bound[q] = IF q = s THEN r ELSE m.bound[q]
  BY <1>1 DEF Good, Books, CacheType, Assign
<1> HIDE DEF n
<1>4. \A q \in K : Current(n, q)
  BY <1>1, <1>3 DEF Good, Intact, Current, InMemory
<1>5. ReadsCurrent(n)
  BY <1>3 DEF Good, ReadsCurrent
<1> QED  BY <1>2, <1>3, <1>4, <1>5 DEF n, Good, Intact

\* A symbol that is about to get a new value may be told to leave its register
\* (shiftBy, stepLvalue, assign).
LEMMA FreeGood ==
    ASSUME NEW m, NEW K, Good(m, K), NEW s \in Sym, ~InMemory(m, s)
    PROVE  LET n == Free(m, m.bound[s])
           IN  Good(n, K \ {s}) /\ OnlyFreed(m, n) /\ n.value = m.value
<1> DEFINE r == m.bound[s]
           n == Free(m, r)
<1>1. r \in Reg /\ m.held[r] = s
  BY DEF Good, Books, CacheType, InMemory
<1>2. Books(n) /\ OnlyFreed(m, n) /\ n.misread = m.misread
  BY <1>1, FreeBooks DEF Good
<1>3. /\ n.home = m.home /\ n.value = m.value
      /\ \A q \in Sym \ {s} : n.bound[q] = m.bound[q]
  BY <1>1 DEF Good, Books, CacheType, Free
<1> HIDE DEF n
<1>4. \A q \in K \ {s} : Current(n, q)
  BY <1>3 DEF Good, Intact, Current, InMemory
<1>5. ReadsCurrent(n)
  BY <1>2 DEF Good, ReadsCurrent
<1> QED  BY <1>2, <1>3, <1>4, <1>5 DEF n, r, Good, Intact

\* A copy of a current value is current.
LEMMA CopiedValue ==
    ASSUME NEW m, NEW K, Good(m, K), NEW s \in K, NEW r \in Allocatable
    PROVE  CopyToRegister(m, s, r).value[r] = s
BY AllocatableRegisters DEF Good, Intact, CopyToRegister, Load, Write, Current, Books,
   CacheType

\* What a register carries it carries as long as it is not written.
LEMMA StillCarries ==
    ASSUME NEW m, NEW n, NEW r, NEW s, Carries(m, r, s), n.value[r] = m.value[r]
    PROVE  Carries(n, r, s)
BY DEF Carries

\* A write changes one register.
LEMMA WriteValues ==
    ASSUME NEW m, NEW K, Good(m, K), NEW r \in Reg, NEW v
    PROVE  LET n == Write(m, r, v)
           IN  n.value[r] = v /\ \A q \in Reg : q # r => n.value[q] = m.value[q]
BY DEF Write, Good, Books, CacheType

\* So does a load; and the register then carries a symbol whose home is current.
LEMMA LoadValues ==
    ASSUME NEW m, NEW K, Good(m, K), NEW s \in Sym, NEW r \in Reg, InMemory(m, s)
    PROVE  LET n == Load(m, s, r)
           IN  /\ s \in K \cup Exempt => Carries(n, r, s)
               /\ \A q \in Reg : q # r => n.value[q] = m.value[q]
<1> DEFINE v == IF s \in m.home THEN s ELSE Junk
           n == Write(m, r, v)
<1>1. n.value[r] = v /\ \A q \in Reg : q # r => n.value[q] = m.value[q]
  BY WriteValues
<1>2. s \in K \cup Exempt => v = s \/ s \in Exempt
  BY DEF Good, Intact, Current
<1> HIDE DEF v
<1>3. s \in K \cup Exempt => Carries(n, r, s)
  BY <1>1, <1>2 DEF Carries
<1> QED  BY <1>1, <1>3 DEF Load, v

\* The register a symbol lives in carries it.
LEMMA BoundCarries ==
    ASSUME NEW m, NEW K, Good(m, K), NEW s \in K \cup Exempt, ~InMemory(m, s)
    PROVE  Carries(m, m.bound[s], s)
BY DEF Carries, Good, Intact, Current

\* A copy changes one register, which then carries the symbol.
LEMMA CopyToRegisterValues ==
    ASSUME NEW m, NEW K, Good(m, K), NEW s \in Sym, NEW r \in Reg
    PROVE  LET n == CopyToRegister(m, s, r)
           IN  /\ s \in K \cup Exempt => Carries(n, r, s)
               /\ \A q \in Reg : q # r => n.value[q] = m.value[q]
BY LoadValues, BoundCarries, WriteValues DEF CopyToRegister, Carries

\* bindResult makes the result current, wherever it puts it, and disturbs no other
\* symbol.
LEMMA BindResultGood ==
    ASSUME NEW m, NEW K, Good(m, K), NEW r \in Allocatable, NEW s \in Sym \ Wide,
           Vacant(m, r, Sym \ {s})
    PROVE  Good(BindResult(m, r, s), K \cup {s})
<1> DEFINE outdated == Outdate(m, s)
           computed == Write(outdated, r, s)
           stored == [computed EXCEPT !.home = @ \cup {s}]
<1>1. r \in Reg
  BY AllocatableRegisters
<1>2. /\ Books(outdated) /\ outdated.bound = m.bound /\ outdated.misread = m.misread
      /\ \A q \in Sym \ {s} : q \in m.home => q \in outdated.home
      /\ \A q \in Reg : m.value[q] # s => outdated.value[q] = m.value[q]
  BY DEF Good, Books, CacheType, Outdate
<1>3. Good(outdated, K \ {s})
  BY <1>2 DEF Good, Books, CacheType, Intact, Current, InMemory, ReadsCurrent
<1> HIDE DEF outdated
<1>4. Vacant(outdated, r, Sym \ {s}) /\ Vacant(outdated, r, K \ {s})
  BY <1>2 DEF Vacant, Good
<1>5. Good(computed, K \ {s}) /\ computed.bound = m.bound /\ computed.value[r] = s
  BY <1>3, <1>4, WriteGood, <1>1, <1>2 DEF Write, Books, CacheType
<1> HIDE DEF computed
<1>6. /\ Good(stored, K \ {s}) /\ stored.bound = m.bound /\ stored.value[r] = s
      /\ s \in stored.home
  BY <1>5 DEF Good, Books, CacheType, Intact, Current, InMemory, ReadsCurrent
<1> HIDE DEF stored
<1>7. CASE s \in Global
  BY <1>6, <1>7 DEF BindResult, Good, Books, Intact, Current, InMemory, stored, computed, outdated
<1>8. ASSUME s \notin Global, NEW n, Good(n, K \ {s}), n.bound = m.bound, n.value[r] = s
      PROVE  Good(Assign(n, r, s), K \cup {s}) BY <1>8, AssignGood DEF Vacant, Cacheable, Good
<1> QED
  BY <1>5, <1>6, <1>7, <1>8 DEF BindResult, stored, computed, outdated

\* materialize disturbs no symbol, and keeps the excluded registers vacant that no
\* symbol lives in.
LEMMA MaterializeGood ==
    ASSUME NEW m, NEW K, Good(m, K), NEW s \in Sym \ Wide, NEW X, Allocatable \ X # {}
    PROVE  /\ Good(Materialize(m, s, X), K)
           /\ MaterializedIn(m, s, X) \in Allocatable
           /\ \A r \in Reg : r \in X /\ Vacant(m, r, Sym) =>
                  Vacant(Materialize(m, s, X), r, Sym)
           /\ \A q \in Sym : q # s /\ InMemory(m, q) => InMemory(Materialize(m, s, X), q)
           /\ s \in K \cup Exempt =>
                  Carries(Materialize(m, s, X), MaterializedIn(m, s, X), s)
           /\ \A q \in Reg : q \in X => Materialize(m, s, X).value[q] = m.value[q]
<1>1. CASE ~InMemory(m, s)
  BY <1>1, BoundCarries DEF Materialize, MaterializedIn, InMemory, Good, Books
<1>2. CASE InMemory(m, s)
  <2> DEFINE r == Obtained(m, X)
             n == Load(Obtain(m, X), s, r)
  <2>1. /\ r \in Allocatable \ X /\ r \in Reg
        /\ Good(Obtain(m, X), K) /\ OnlyFreed(m, Obtain(m, X))
        /\ Vacant(Obtain(m, X), r, Sym) /\ Obtain(m, X).value = m.value
    BY ObtainGood, AllocatableRegisters
  <2>2. Vacant(Obtain(m, X), r, K)
    BY <2>1 DEF Vacant, Good
  <2> HIDE DEF r
  <2>3. Good(n, K) /\ OnlyFreed(Obtain(m, X), n)
    BY <2>1, <2>2, LoadGood
  <2>4. OnlyFreed(m, n) /\ Vacant(n, r, Sym)
    BY <2>1, <2>3, FreedIsTransitive, VacantIfFreed
  <2>5. InMemory(n, s)
    BY <1>2, <2>4, InMemoryIfFreed
  <2>9. /\ s \in K \cup Exempt => Carries(n, r, s)
        /\ \A q \in Reg : q \in X => n.value[q] = m.value[q]
    BY <1>2, <2>1, InMemoryIfFreed, LoadValues
  <2> HIDE DEF n
  <2>6. MaterializedIn(m, s, X) = r
        /\ Materialize(m, s, X) = IF s \in Global THEN n ELSE Assign(n, r, s)
    BY <1>2 DEF Materialize, MaterializedIn, AssignRegisterTo, r, n
  <2>7. CASE s \in Global
    BY <2>1, <2>3, <2>4, <2>6, <2>7, <2>9, VacantIfFreed, InMemoryIfFreed
  <2>8. CASE s \notin Global
    <3> DEFINE a == Assign(n, r, s)
    <3>1. ASSUME s \in K PROVE n.value[r] = s
      BY <1>2, <3>1, <2>1, InMemoryIfFreed DEF Good, Intact, Current, n, Load, Write, Books,
         CacheType
    <3>2. \A q \in Sym : a.bound[q] = IF q = s THEN r ELSE n.bound[q]
      BY <2>3 DEF Good, Books, CacheType, Assign
    <3>3. Good(n, K \ {s}) /\ K \in SUBSET Sym /\ Vacant(n, r, Sym \ {s}) /\ s \in Cacheable
      BY <2>3, <2>4, <2>8, GoodOfFewer DEF Good, Vacant, Cacheable
    <3>4. Good(a, K) /\ a.value = n.value
      BY <2>1, <3>1, <3>3, AssignGood
    <3> HIDE DEF a
    <3>7. /\ s \in K \cup Exempt => Carries(a, r, s)
          /\ \A q \in Reg : q \in X => a.value[q] = m.value[q]
      BY <2>9, <3>4 DEF Carries
    <3>5. ASSUME NEW q \in Reg, q \in X, Vacant(m, q, Sym) PROVE Vacant(a, q, Sym)
      BY <2>1, <2>4, <3>2, <3>5, VacantIfFreed DEF Vacant
    <3>6. ASSUME NEW q \in Sym, q # s, InMemory(m, q) PROVE InMemory(a, q)
      BY <2>4, <3>2, <3>6, InMemoryIfFreed DEF InMemory
    <3> QED  BY <2>1, <2>6, <2>8, <3>4, <3>5, <3>6, <3>7 DEF a
  <2> QED  BY <2>7, <2>8
<1> QED  BY <1>1, <1>2

\* loadWord disturbs no symbol: it spills what is in the address register of a
\* global before it overwrites it.
LEMMA LoadWordGood ==
    ASSUME NEW m, NEW K, Good(m, K), NEW s \in Sym, NEW r \in Allocatable,
           Vacant(m, r, K), NEW X, Allocatable \ (X \cup {r}) # {}
    PROVE  Good(LoadWord(m, s, r, X), K) /\ OnlyFreed(m, LoadWord(m, s, r, X))
<1>1. CASE ~InMemory(m, s)
  BY <1>1, CopyToRegisterGood DEF LoadWord
<1>2. CASE InMemory(m, s) /\ s \in Global
  <2> DEFINE n == Scratch(m, X \cup {r})
  <2>1. Good(n, K) /\ OnlyFreed(m, n)
    BY ScratchGood
  <2>2. Vacant(n, r, K)
    BY <2>1, AllocatableRegisters, VacantIfFreed DEF Good
  <2> HIDE DEF n
  <2>3. Good(Load(n, s, r), K) /\ OnlyFreed(n, Load(n, s, r))
    BY <2>1, <2>2, LoadGood
  <2> QED  BY <1>2, <2>1, <2>3, FreedIsTransitive DEF LoadWord, n
<1>3. CASE InMemory(m, s) /\ s \notin Global
  BY <1>3, LoadGood DEF LoadWord
<1> QED  BY <1>1, <1>2, <1>3

\* The word is carried by its register, and only the address register of a global
\* is written besides.
LEMMA LoadWordValues ==
    ASSUME NEW m, NEW K, Good(m, K), NEW s \in Sym, NEW r \in Reg, NEW X,
           Allocatable \ (X \cup {r}) # {}
    PROVE  LET n == LoadWord(m, s, r, X)
           IN  /\ s \in K \cup Exempt => Carries(n, r, s)
               /\ \A q \in Reg : q # r /\ (q \in X \/ s \notin Global) =>
                      n.value[q] = m.value[q]
<1>1. CASE ~InMemory(m, s)
  BY <1>1, CopyToRegisterValues DEF LoadWord
<1>2. CASE InMemory(m, s) /\ s \in Global
  <2> DEFINE n == Scratch(m, X \cup {r})
  <2>1. /\ Good(n, K) /\ OnlyFreed(m, n)
        /\ \A q \in Reg : q \in X => n.value[q] = m.value[q]
    BY ScratchGood
  <2>2. LoadWord(m, s, r, X) = Load(n, s, r) /\ InMemory(n, s)
    BY <1>2, <2>1, InMemoryIfFreed DEF LoadWord
  <2> HIDE DEF n
  <2> QED  BY <1>2, <2>1, <2>2, LoadValues
<1>3. CASE InMemory(m, s) /\ s \notin Global
  BY <1>3, LoadValues DEF LoadWord
<1> QED  BY <1>1, <1>2, <1>3

\* storeWord of every word of a symbol in memory makes its home current.
LEMMA StoreWordsGood ==
    ASSUME NEW m, NEW K, Good(m, K), NEW s \in Sym, InMemory(m, s), NEW r,
           Allocatable \ {r} # {}
    PROVE  Good(StoreWords(m, s, r), K \cup {s}) /\ OnlyFreed(m, StoreWords(m, s, r))
<1> DEFINE n == IF s \in Global THEN Scratch(m, {r}) ELSE m
<1>1. Good(n, K) /\ OnlyFreed(m, n)
  BY ScratchGood DEF OnlyFreed
<1>2. InMemory(n, s)
  BY <1>1, InMemoryIfFreed
<1> HIDE DEF n
<1>3. Good(DefineInMemory(n, s), K \cup {s}) /\ OnlyFreed(n, DefineInMemory(n, s))
  BY <1>1, <1>2, DefineInMemoryGood
<1> QED  BY <1>1, <1>3, FreedIsTransitive DEF StoreWords, n

\* A value is copied to a register that is obtained for it.
LEMMA ObtainedCopyGood ==
    ASSUME NEW m, NEW K, Good(m, K), NEW s \in Sym, NEW X, Allocatable \ X # {}
    PROVE  LET r == Obtained(m, X)
               n == CopyToRegister(Obtain(m, X), s, r)
           IN  /\ r \in Allocatable \ X
               /\ Good(n, K) /\ OnlyFreed(m, n) /\ Vacant(n, r, Sym)
               /\ s \in K \cup Exempt => Carries(n, r, s)
               /\ \A q \in Reg : q \in X => n.value[q] = m.value[q]
<1> DEFINE r == Obtained(m, X)
           o == Obtain(m, X)
           n == CopyToRegister(o, s, r)
<1>1. /\ r \in Allocatable \ X /\ r \in Reg
      /\ Good(o, K) /\ OnlyFreed(m, o) /\ Vacant(o, r, Sym)
      /\ o.value = m.value
  BY ObtainGood, AllocatableRegisters
<1>2. Vacant(o, r, K)
  BY <1>1 DEF Vacant, Good
<1> HIDE DEF r, o
<1>3. Good(n, K) /\ OnlyFreed(o, n)
  BY <1>1, <1>2, CopyToRegisterGood
<1>4. OnlyFreed(m, n) /\ Vacant(n, r, Sym)
  BY <1>1, <1>3, FreedIsTransitive, VacantIfFreed
<1>5. /\ s \in K \cup Exempt => Carries(n, r, s)
      /\ \A q \in Reg : q # r => n.value[q] = o.value[q]
  BY <1>1, CopyToRegisterValues
<1> HIDE DEF n
<1> QED  BY <1>1, <1>3, <1>4, <1>5 DEF r, o, n

\* A word is loaded into a register that is obtained for it.
LEMMA ObtainedLoadWordGood ==
    ASSUME NEW m, NEW K, Good(m, K), NEW s \in Sym, NEW X, NEW Y, Allocatable \ X # {},
           \A r \in Allocatable : Allocatable \ (Y \cup {r}) # {}
    PROVE  LET r == Obtained(m, X)
               n == LoadWord(Obtain(m, X), s, r, Y)
           IN  /\ r \in Allocatable \ X
               /\ Good(n, K) /\ OnlyFreed(m, n) /\ Vacant(n, r, Sym)
               /\ s \in K \cup Exempt => Carries(n, r, s)
               /\ \A q \in Reg : q \in X /\ (q \in Y \/ s \notin Global) =>
                      n.value[q] = m.value[q]
<1> DEFINE r == Obtained(m, X)
           o == Obtain(m, X)
           n == LoadWord(o, s, r, Y)
<1>1. /\ r \in Allocatable \ X /\ r \in Reg
      /\ Good(o, K) /\ OnlyFreed(m, o) /\ Vacant(o, r, Sym)
      /\ o.value = m.value
  BY ObtainGood, AllocatableRegisters
<1>2. Vacant(o, r, K)
  BY <1>1 DEF Vacant, Good
<1> HIDE DEF r, o
<1>3. Good(n, K) /\ OnlyFreed(o, n)
  BY <1>1, <1>2, LoadWordGood
<1>4. OnlyFreed(m, n) /\ Vacant(n, r, Sym)
  BY <1>1, <1>3, FreedIsTransitive, VacantIfFreed
<1>5. /\ s \in K \cup Exempt => Carries(n, r, s)
      /\ \A q \in Reg : q # r /\ (q \in Y \/ s \notin Global) => n.value[q] = o.value[q]
  BY <1>1, LoadWordValues
<1> HIDE DEF n
<1> QED  BY <1>1, <1>3, <1>4, <1>5 DEF r, o, n

----------------------------------------------------------------------------
(* The inductive invariant.                                                *)

\* The symbols whose values must not be lost.
Live == needed \ Exempt

\* The inductive invariant.  Coherent alone is not inductive: a register that is
\* spilled is written to the home of the symbol it was last assigned, which is
\* the symbol that lives in it only if the books agree; and what a callee, a
\* store through a pointer or the next procedure may read is not lost only
\* because it stays needed.
Inv ==
    /\ Good(cache, Live)
    /\ needed \subseteq Sym /\ exposed \subseteq Always
    /\ phase \in {"idle", "body", "label", "retrieve", "returned"}
    /\ phase # "returned" => Always \subseteq needed
    /\ phase = "label" => AllInMemory(cache)

\* No handler of the code excludes every register.
LEMMA EnoughAllocatable ==
    /\ Allocatable \ {} # {}
    /\ \A p \in Reg : Allocatable \ {p} # {}
    /\ \A p, q \in Reg : Allocatable \ {p, q} # {}
    /\ \A p, q, r \in Reg : Allocatable \ {p, q, r} # {}
    /\ Allocatable \ ArgumentRegisters # {}
    /\ \A r \in Reg : Allocatable \ (ArgumentRegisters \cup {r}) # {}
    /\ \A r \in Reg : Allocatable \ ({} \cup {r}) # {}
    /\ \A p, q, r \in Reg : Allocatable \ ({p, q} \cup {r}) # {}
<1>1. /\ \A p, q, r \in Reg : Allocatable \ {p, q, r} # {}
      /\ \A r \in Reg : Allocatable \ ({r} \cup ArgumentRegisters) # {}
  BY EnoughRegisters DEF Allocatable, ArgumentRegisters
<1>2. PICK r \in Reg : TRUE
  BY Registers
<1> QED  BY <1>1, <1>2

\* The invariant holds after a step, said of the variables of the state after it.
LEMMA InvAfter ==
    ASSUME exposed \subseteq exposed', exposed' \subseteq Always, needed' \subseteq Sym,
           Good(cache', needed' \ Exempt),
           phase' \in {"idle", "body", "label", "retrieve", "returned"},
           phase' # "returned" => Always \subseteq needed',
           phase' = "label" => AllInMemory(cache')
    PROVE  Inv'
<1>1. Exempt \subseteq Exempt'
  BY DEF Exempt
<1>2. \A s \in needed' \ Exempt' : Current(cache', s)
  BY <1>1 DEF Good, Intact
<1>3. \A reader \in Watched : \A s \in Sym \cup {VectorCount} :
          <<reader, s>> \in cache'.misread => s \in Exempt'
  BY <1>1 DEF Good, ReadsCurrent
<1>4. Books(cache')
  BY DEF Good
<1>5. ReadsCurrent(cache)'
  BY <1>3 DEF ReadsCurrent
<1>6. Intact(cache, Live)' /\ Live' \subseteq Sym
  BY <1>2 DEF Intact, Live, Current, InMemory
<1>7. Books(cache)'
  BY <1>4 DEF Books, CacheType
<1>8. Good(cache, Live)'
  BY <1>5, <1>6, <1>7 DEF Good
<1> QED  BY <1>8 DEF Inv, AllInMemory, InMemory

\* A handler starts from the invariant.
LEMMA StartGood ==
    ASSUME Inv
    PROVE  Good(Start, Live) /\ SameBooks(cache, Start)
BY DEF Inv, Good, Books, CacheType, Start, Intact, Current, InMemory, SameBooks,
       ReadsCurrent

\* every instruction ends in the invariant if its handler leaves the symbols
\* current that the rest of the path may read
LEMMA EmitGood ==
    ASSUME Inv, NEW objects \in SUBSET Always, NEW m, NEW K, Good(m, K),
           NEW uses, NEW defs \in SUBSET Sym, (needed \cup defs) \ Exempt \subseteq K,
           EmitExposing(objects, m, uses, defs)
    PROVE  Inv'
<1>1. PICK dying \in SUBSET (Temp \cap (uses \cup defs)) :
          /\ cache' = Settle(FinishInstruction(m, dying))
          /\ needed' = (needed \cup defs) \ dying
  BY DEF EmitExposing
<1>2. exposed' = exposed \cup objects /\ phase' = "body" /\ phase # "returned"
  BY DEF EmitExposing
<1> DEFINE n == FreeHolders(m, Reg, dying)
<1>3. dying \in SUBSET Sym /\ dying \cap Always = {}
  BY Symbols
<1>4. Good(n, (K \ dying) \cup (K \cap m.home))
  BY <1>3, FreeHoldersGood
<1>5. needed' \ Exempt \subseteq (K \ dying) \cup (K \cap m.home)
  BY <1>1
<1>6. Good(n, needed' \ Exempt)
  BY <1>4, <1>5, GoodOfFewer
<1> HIDE DEF n
<1>7. Good(cache', needed' \ Exempt)
  BY <1>1, <1>6, SettleGood DEF n, FinishInstruction
<1>8. needed' \subseteq Sym /\ exposed' \subseteq Always /\ Always \subseteq needed'
  BY <1>1, <1>2, <1>3, Symbols DEF Inv
<1> QED  BY <1>2, <1>7, <1>8, InvAfter

\* The steps that end an instruction.  It computes its result in r ...
LEMMA BoundKeeps ==
    ASSUME Inv, NEW objects \in SUBSET Always, NEW m, NEW r \in Allocatable,
           NEW result \in Sym \ Wide, Good(m, Live \ {result}),
           Vacant(m, r, Sym \ {result}), NEW uses,
           EmitExposing(objects, BindResult(m, r, result), uses, {result})
    PROVE  Inv'
<1> DEFINE n == BindResult(m, r, result)
<1>1. Good(n, (Live \ {result}) \cup {result})
  BY BindResultGood
<1> HIDE DEF n
<1>2. (needed \cup {result}) \ Exempt \subseteq (Live \ {result}) \cup {result}
  BY DEF Live
<1> QED  BY <1>1, <1>2, EmitGood DEF n

\* What two operands are read in, and what one is.
LEMMA CarriedPair ==
    ASSUME NEW m, NEW a, NEW s \in Sym, Carries(m, a, s),
           NEW b, NEW q \in Sym, Carries(m, b, q)
    PROVE  Carried(m, {<<a, s>>, <<b, q>>})
BY DEF Carried

LEMMA CarriedOne ==
    ASSUME NEW m, NEW a, NEW s \in Sym, Carries(m, a, s)
    PROVE  Carried(m, {<<a, s>>})
BY DEF Carried

\* Reading word operands in registers disturbs nothing.
LEMMA OperandsReadGood ==
    ASSUME NEW m, NEW K, Good(m, K), NEW operands, Carried(m, operands)
    PROVE  LET n == Reads(m, "operand", operands)
           IN  Good(n, K) /\ OnlyFreed(m, n) /\ n.value = m.value
BY ReadsGood DEF Reader, Carried

\* ... from operands it reads in registers ...
LEMMA ComputedKeeps ==
    ASSUME Inv, NEW objects \in SUBSET Always, NEW m, NEW operands,
           Carried(m, operands),
           NEW r \in Allocatable, NEW result \in Sym \ Wide, Good(m, Live \ {result}),
           Vacant(m, r, Sym), NEW uses,
           EmitExposing(objects, BindResult(Reads(m, "operand", operands), r, result),
                        uses, {result})
    PROVE  Inv'
<1> DEFINE n == Reads(m, "operand", operands)
<1>1. Good(n, Live \ {result}) /\ OnlyFreed(m, n)
  BY OperandsReadGood
<1>2. Vacant(n, r, Sym \ {result})
  BY <1>1, AllocatableRegisters, VacantIfFreed DEF Vacant
<1> HIDE DEF n
<1> QED  BY <1>1, <1>2, BoundKeeps DEF n

\* ... or writes the result to its home ...
LEMMA StoredKeeps ==
    ASSUME Inv, NEW objects \in SUBSET Always, NEW m, Good(m, Live),
           NEW result \in Sym, InMemory(m, result), NEW uses,
           EmitExposing(objects, DefineInMemory(m, result), uses, {result})
    PROVE  Inv'
<1> DEFINE n == DefineInMemory(m, result)
<1>1. Good(n, Live \cup {result})
  BY DefineInMemoryGood
<1> HIDE DEF n
<1> QED  BY <1>1, EmitGood DEF n, Live

\* ... or stores it word by word ...
LEMMA WordsStoredKeeps ==
    ASSUME Inv, NEW m, Good(m, Live), NEW result \in Sym, InMemory(m, result),
           NEW r \in Reg, NEW uses,
           Emit(StoreWords(m, result, r), uses, {result})
    PROVE  Inv'
<1> DEFINE n == StoreWords(m, result, r)
<1>1. Good(n, Live \cup {result})
  BY StoreWordsGood, EnoughAllocatable
<1> HIDE DEF n
<1>2. (needed \cup {result}) \ Exempt \subseteq Live \cup {result}
  BY DEF Live
<1> QED  BY <1>1, <1>2, EmitGood DEF n, Emit

\* ... or has no result.
LEMMA NothingDefinedKeeps ==
    ASSUME Inv, NEW m, Good(m, Live), NEW uses, Emit(m, uses, {})
    PROVE  Inv'
BY EmitGood DEF Live, Emit

\* It may read operands and define nothing (comparisons).
LEMMA ReadKeeps ==
    ASSUME Inv, NEW m, Good(m, Live), NEW operands, Carried(m, operands),
           NEW uses, Emit(Reads(m, "operand", operands), uses, {})
    PROVE  Inv'
BY OperandsReadGood, NothingDefinedKeeps

\* What the operands of a step are.
LEMMA Operands ==
    ASSUME Inv
    PROVE  /\ Word \subseteq Sym \ Wide /\ Destination \subseteq Sym \ Wide
           /\ MultiWord \subseteq Sym /\ MultiWord \subseteq Wide /\ Wide \subseteq Sym
           /\ Good(Start, Live)
           /\ Allocatable \subseteq Reg /\ {Rax, Rdx, Rcx} \subseteq Allocatable
           /\ \A S : Good(Start, Live \ S)
           /\ needed \subseteq Live \cup Exempt /\ Word \subseteq Live \cup Exempt
           /\ MultiWord \subseteq Live \cup Exempt
BY StartGood, GoodOfFewer, Symbols, AllocatableRegisters DEF Inv, Word, MultiWord, Destination,
   Live

----------------------------------------------------------------------------
(* Integer and pointer instructions on word operands.                      *)

\* emitGprBinary: the accumulator is excluded when the right operand is loaded.
LEMMA GprBinaryKeeps ==
    ASSUME Inv, NEW left \in Word, NEW right \in Word, NEW result \in Destination,
           GprBinary(left, right, result)
    PROVE  Inv'
<1> DEFINE acc == Obtained(Start, {})
           copied == CopyToRegister(Obtain(Start, {}), left, acc)
           rhs == MaterializedIn(copied, right, {acc})
           ready == Materialize(copied, right, {acc})
           operands == {<<acc, left>>, <<rhs, right>>}
<1>1. /\ left \in Sym /\ right \in Sym \ Wide /\ result \in Sym \ Wide /\ Good(Start, Live)
      /\ left \in Live \cup Exempt /\ right \in Live \cup Exempt
  BY Operands
<1>2. /\ acc \in Allocatable /\ acc \in Reg /\ Good(copied, Live) /\ Vacant(copied, acc, Sym)
      /\ Carries(copied, acc, left)
  BY <1>1, ObtainedCopyGood, EnoughAllocatable, AllocatableRegisters
<1>3. Emit(BindResult(Reads(ready, "operand", operands), acc, result),
           {left, right}, {result})
  BY DEF GprBinary
<1> HIDE DEF acc, copied
<1>4. /\ Good(ready, Live) /\ Vacant(ready, acc, Sym)
      /\ ready.value[acc] = copied.value[acc] /\ Carries(ready, rhs, right)
  BY <1>1, <1>2, EnoughAllocatable, MaterializeGood
<1>5. Good(ready, Live \ {result}) 
  BY <1>4, GoodOfFewer
<1> HIDE DEF ready, rhs
<1>6. Carried(ready, operands)
  BY <1>1, <1>2, <1>4, StillCarries, CarriedPair
<1> HIDE DEF operands
<1> QED  BY <1>1, <1>2, <1>3, <1>4, <1>5, <1>6, ComputedKeeps DEF Emit

\* mul, div and mod work in rax and rdx, which are stored first.
LEMMA InRaxRdxGood ==
    ASSUME Inv, NEW left \in Word, NEW right \in Word, NEW dividing \in BOOLEAN
    PROVE  LET n == InRaxRdx(left, right, dividing)
           IN  Good(n, Live) /\ Vacant(n, Rax, Sym) /\ Vacant(n, Rdx, Sym)
<1> DEFINE spilled == StoreRegisterValue(StoreRegisterValue(Start, Rax), Rdx)
           copied == CopyToRegister(spilled, left, Rax)
           rhs == Obtained(copied, {Rax, Rdx})
           ready == CopyToRegister(Obtain(copied, {Rax, Rdx}), right, rhs)
           extended == IF dividing THEN Write(ready, Rdx, Junk) ELSE ready
           operands == {<<Rax, left>>, <<rhs, right>>}
           read == Reads(extended, "operand", operands)
           first == Write(read, Rdx, Junk)
<1>1. /\ left \in Sym /\ right \in Sym /\ Good(Start, Live) /\ Live \subseteq Sym
      /\ left \in Live \cup Exempt /\ right \in Live \cup Exempt /\ Rax # Rdx
      /\ Rax \in Reg /\ Rdx \in Reg /\ Rax \in Allocatable /\ Rdx \in Allocatable
      /\ Allocatable \ {Rax, Rdx} # {}
  BY Operands, EnoughAllocatable, Registers DEF Good
<1>2. Good(spilled, Live) /\ Vacant(spilled, Rax, Sym) /\ Vacant(spilled, Rdx, Sym)
  BY <1>1, StoreRegisterValueGood, VacantIfFreed
<1> HIDE DEF spilled
<1>3. /\ Good(copied, Live) /\ Vacant(copied, Rax, Sym) /\ Vacant(copied, Rdx, Sym)
      /\ Carries(copied, Rax, left)
  BY <1>1, <1>2, CopyToRegisterGood, CopyToRegisterValues, VacantIfFreed DEF Vacant
<1> HIDE DEF copied
<1>4. /\ Good(ready, Live) /\ Vacant(ready, Rax, Sym) /\ Vacant(ready, Rdx, Sym)
      /\ Carries(ready, rhs, right) /\ ready.value[Rax] = copied.value[Rax]
      /\ rhs \in Allocatable \ {Rax, Rdx}
  BY <1>1, <1>3, ObtainedCopyGood, VacantIfFreed
<1> HIDE DEF ready, rhs
<1>5. Good(extended, Live) /\ Vacant(extended, Rax, Sym) /\ Vacant(extended, Rdx, Sym)
  BY <1>1, <1>4, WriteGood, VacantIfFreed DEF Vacant
<1>6. Carried(extended, operands)
  <2>1. /\ extended.value[Rax] = ready.value[Rax] /\ extended.value[rhs] = ready.value[rhs]
    BY <1>1, <1>4, WriteValues, AllocatableRegisters
  <2> HIDE DEF extended
  <2>2. Carries(extended, Rax, left) /\ Carries(extended, rhs, right)
    BY <1>3, <1>4, <2>1, StillCarries
  <2> QED  BY <1>1, <2>2, CarriedPair
<1> HIDE DEF extended, operands
<1>7. Good(read, Live) /\ Vacant(read, Rax, Sym) /\ Vacant(read, Rdx, Sym)
  BY <1>1, <1>5, <1>6, OperandsReadGood, VacantIfFreed
<1> HIDE DEF read
<1>8. Good(first, Live) /\ Vacant(first, Rax, Sym) /\ Vacant(first, Rdx, Sym)
  BY <1>1, <1>7, WriteGood, VacantIfFreed DEF Vacant
<1> HIDE DEF first
<1>9. LET n == Write(first, Rax, Junk)
      IN  Good(n, Live) /\ Vacant(n, Rax, Sym) /\ Vacant(n, Rdx, Sym)
  BY <1>1, <1>8, WriteGood, VacantIfFreed DEF Vacant
<1> QED
  BY <1>9 DEF InRaxRdx, first, read, extended, operands, ready, rhs, copied, spilled

\* mul, div, mod.
LEMMA MulDivModKeeps ==
    ASSUME Inv, NEW left \in Word, NEW right \in Word, NEW result \in Destination,
           Mul(left, right, result) \/ Div(left, right, result) \/ Mod(left, right, result)
    PROVE  Inv'
<1>1. ASSUME NEW r \in {Rax, Rdx}, NEW dividing \in BOOLEAN,
             Emit(BindResult(InRaxRdx(left, right, dividing), r, result),
                  {left, right}, {result})
      PROVE  Inv'
  <2> DEFINE n == InRaxRdx(left, right, dividing)
  <2>1. Good(n, Live) /\ Vacant(n, r, Sym)
    BY InRaxRdxGood
  <2>2. result \in Sym \ Wide /\ r \in Allocatable
    BY Operands
  <2>3. Good(n, Live \ {result}) /\ Vacant(n, r, Sym \ {result})
    BY <2>1, GoodOfFewer DEF Vacant
  <2> HIDE DEF n
  <2> QED  BY <1>1, <2>2, <2>3, BoundKeeps DEF n, Emit
<1> QED  BY <1>1 DEF Mul, Div, Mod

\* shiftBy: the count moves to rcx, and its former register is freed.
LEMMA ShiftKeeps ==
    ASSUME Inv, NEW left \in Word, NEW count \in Word, NEW result \in Destination,
           Shift(left, count, result)
    PROVE  Inv'
<1> DEFINE spilled == StoreRegisterValue(Start, Rcx)
           copied == CopyToRegister(spilled, count, Rcx)
           moved == IF InMemory(copied, count) THEN copied
                    ELSE Free(copied, copied.bound[count])
           counted == IF count \in Global THEN copied ELSE Assign(moved, Rcx, count)
           dest == Obtained(counted, {Rcx})
           ready == CopyToRegister(Obtain(counted, {Rcx}), left, dest)
           operands == {<<Rcx, count>>, <<dest, left>>}
<1>1. /\ left \in Sym /\ count \in Sym \ Wide /\ result \in Sym \ Wide
      /\ Good(Start, Live) /\ Rcx \in Allocatable /\ Rcx \in Reg /\ Live \subseteq Sym
      /\ left \in Live \cup Exempt /\ count \in Live \cup Exempt
  BY Operands DEF Good
<1>2. Good(spilled, Live) /\ Vacant(spilled, Rcx, Sym)
  BY <1>1, StoreRegisterValueGood
<1>3. Emit(BindResult(Reads(ready, "operand", operands), dest, result),
           {left, count}, {result})
  BY DEF Shift
<1> HIDE DEF spilled
<1>4. /\ Good(copied, Live) /\ Vacant(copied, Rcx, Sym)
      /\ count \in Live => copied.value[Rcx] = count
      /\ Carries(copied, Rcx, count)
  BY <1>1, <1>2, CopyToRegisterGood, CopyToRegisterValues, CopiedValue, VacantIfFreed
  DEF Vacant
<1> HIDE DEF copied
<1>5. /\ Good(moved, Live \ {count}) /\ Vacant(moved, Rcx, Sym)
      /\ count \in Live => moved.value[Rcx] = count
      /\ moved.value = copied.value
  <2>1. CASE InMemory(copied, count)
    BY <1>4, <2>1, GoodOfFewer
  <2>2. CASE ~InMemory(copied, count)
    BY <1>1, <1>4, <2>2, FreeGood, VacantIfFreed
  <2> QED  BY <2>1, <2>2
<1> HIDE DEF moved
<1>6. Good(counted, Live) /\ counted.value = copied.value
  BY <1>4, <1>1, <1>5, AssignGood DEF Cacheable, Vacant
<1> HIDE DEF counted
<1>7. /\ dest \in Allocatable /\ Good(ready, Live) /\ Vacant(ready, dest, Sym)
      /\ Carries(ready, dest, left) /\ ready.value[Rcx] = counted.value[Rcx]
  BY <1>1, <1>6, ObtainedCopyGood, EnoughAllocatable
<1>8. Good(ready, Live \ {result})
  BY <1>7, GoodOfFewer
<1> HIDE DEF ready, dest
<1>9. Carried(ready, operands)
  BY <1>1, <1>4, <1>6, <1>7, StillCarries, CarriedPair
<1> HIDE DEF operands
<1> QED  BY <1>1, <1>3, <1>7, <1>8, <1>9, ComputedKeeps DEF Emit

\* unaryMinus, unaryNot.
LEMMA UnaryKeeps ==
    ASSUME Inv, NEW operand \in Word, NEW result \in Destination, Unary(operand, result)
    PROVE  Inv'
<1> DEFINE dest == Obtained(Start, {})
           ready == CopyToRegister(Obtain(Start, {}), operand, dest)
           operands == {<<dest, operand>>}
<1>1. /\ operand \in Sym /\ result \in Sym \ Wide /\ Good(Start, Live)
      /\ operand \in Live \cup Exempt
  BY Operands
<1>2. /\ dest \in Allocatable /\ Good(ready, Live) /\ Vacant(ready, dest, Sym)
      /\ Carries(ready, dest, operand)
  BY <1>1, ObtainedCopyGood, EnoughAllocatable
<1>3. Good(ready, Live \ {result}) /\ Carried(ready, operands)
  BY <1>1, <1>2, GoodOfFewer, CarriedOne
<1>4. Emit(BindResult(Reads(ready, "operand", operands), dest, result),
           {operand}, {result})
  BY DEF Unary
<1> HIDE DEF dest, ready, operands
<1> QED  BY <1>1, <1>2, <1>3, <1>4, ComputedKeeps DEF Emit

\* inc, dec: the operand moves to the register of its new value.
LEMMA StepLvalueKeeps ==
    ASSUME Inv, NEW operand \in Word, StepLvalue(operand)
    PROVE  Inv'
<1> DEFINE dest == Obtained(Start, {})
           copied == CopyToRegister(Obtain(Start, {}), operand, dest)
           freed == IF InMemory(copied, operand) THEN copied
                    ELSE Free(copied, copied.bound[operand])
           operands == {<<dest, operand>>}
<1>1. operand \in Sym \ Wide /\ operand \in Live \cup Exempt /\ Good(Start, Live)
  BY Operands
<1>2. /\ dest \in Allocatable /\ dest \in Reg /\ Good(copied, Live)
      /\ Vacant(copied, dest, Sym) /\ Carries(copied, dest, operand)
  BY <1>1, ObtainedCopyGood, EnoughAllocatable, AllocatableRegisters
<1>3. Emit(BindResult(Reads(freed, "operand", operands), dest, operand),
           {operand}, {operand})
  BY DEF StepLvalue
<1> HIDE DEF dest, copied
<1>4. /\ Good(freed, Live \ {operand}) /\ Vacant(freed, dest, Sym)
      /\ freed.value = copied.value
  BY <1>1, <1>2, FreeGood, GoodOfFewer, VacantIfFreed
<1> HIDE DEF freed
<1>5. Carried(freed, operands)
  BY <1>1, <1>2, <1>4, StillCarries, CarriedOne
<1> HIDE DEF operands
<1> QED  BY <1>1, <1>2, <1>3, <1>4, <1>5, ComputedKeeps DEF Emit

\* A symbol that lives in a register lives there alone.
LEMMA BoundAlone ==
    ASSUME NEW m, NEW K, Good(m, K), NEW s \in Sym, ~InMemory(m, s)
    PROVE  m.bound[s] \in Allocatable /\ Vacant(m, m.bound[s], Sym \ {s})
BY DEF Good, Books, InMemory, Vacant

\* an instruction that overwrites the register its result lives in
LEMMA OverwrittenKeeps ==
    ASSUME Inv, NEW m, Good(m, Live), NEW operands, Carried(m, operands),
           NEW result \in Sym \ Wide, ~InMemory(m, result), NEW uses,
           Emit(BindResult(Reads(m, "operand", operands), m.bound[result], result),
                uses, {result})
    PROVE  Inv'
<1> DEFINE n == Reads(m, "operand", operands)
           r == m.bound[result]
<1>1. r \in Allocatable /\ Vacant(m, r, Sym \ {result})
  BY BoundAlone
<1>2. Good(n, Live) /\ OnlyFreed(m, n)
  BY OperandsReadGood
<1>3. Good(n, Live \ {result}) /\ Vacant(n, r, Sym \ {result})
  BY <1>1, <1>2, VacantIfFreed, AllocatableRegisters, GoodOfFewer
<1> HIDE DEF n
<1> QED  BY <1>1, <1>3, BoundKeeps DEF n, Emit

\* assign: the result stays in its register, or moves to one of its own.
LEMMA AssignSymbolKeeps ==
    ASSUME Inv, NEW operand \in Word, NEW result \in Sym \ Wide,
           AssignSymbol(operand, result)
    PROVE  Inv'
<1> DEFINE m == Start
           r == Obtained(m, {})
           loaded == Load(Obtain(m, {}), operand, r)
           into == Load(m, operand, m.bound[result])
<1>1. /\ operand \in Sym /\ Good(m, Live) /\ operand \in Live \cup Exempt
      /\ Emit(Assigned(operand, result), {operand}, {result})
  BY Operands DEF AssignSymbol
<1> HIDE DEF m
<1>2. CASE InMemory(m, operand) /\ InMemory(m, result)
  <2> DEFINE operands == {<<r, operand>>}
             n == Reads(loaded, "operand", operands)
  <2>1. r \in Allocatable /\ Good(Obtain(m, {}), Live) /\ OnlyFreed(m, Obtain(m, {}))
        /\ Vacant(Obtain(m, {}), r, Live)
    BY <1>1, ObtainGood, EnoughAllocatable DEF Good, Vacant
  <2>2. Good(loaded, Live) /\ OnlyFreed(Obtain(m, {}), loaded)
    BY <1>1, <2>1, LoadGood
  <2>3. Carried(loaded, operands)
    BY <1>1, <1>2, <2>1, InMemoryIfFreed, AllocatableRegisters, LoadValues, CarriedOne
  <2> HIDE DEF loaded, operands
  <2>4. Good(n, Live) /\ OnlyFreed(loaded, n)
    BY <2>2, <2>3, OperandsReadGood
  <2>5. InMemory(n, result)
    BY <1>2, <2>1, <2>2, <2>4, InMemoryIfFreed
  <2>6. Emit(DefineInMemory(n, result), {operand}, {result})
    BY <1>1, <1>2 DEF Assigned, m, n, loaded, operands
  <2> HIDE DEF n
  <2> QED  BY <2>4, <2>5, <2>6, StoredKeeps DEF Emit
<1>3. CASE InMemory(m, operand) /\ ~InMemory(m, result)
  <2> DEFINE b == m.bound[result]
             operands == {<<b, operand>>}
  <2>1. b \in Allocatable /\ b \in Reg /\ Vacant(m, b, Sym \ {result})
        /\ Good(m, Live \ {result})
    BY <1>1, <1>3, BoundAlone, GoodOfFewer, AllocatableRegisters
  <2>2. Vacant(m, b, Live \ {result})
    BY <2>1 DEF Vacant, Good
  <2>3. Good(into, Live \ {result}) /\ OnlyFreed(m, into)
    BY <1>1, <2>1, <2>2, LoadGood
  <2>4. Carried(into, operands) BY <1>1, <1>3, <2>1, LoadValues, CarriedOne
  <2>5. Emit(BindResult(Reads(into, "operand", operands), b, result), {operand}, {result})
    BY <1>1, <1>3 DEF Assigned, m
  <2> HIDE DEF into, operands, b
  <2>6. LET n == Reads(into, "operand", operands)
        IN  Good(n, Live \ {result}) /\ Vacant(n, b, Sym \ {result})
    BY <2>1, <2>3, <2>4, OperandsReadGood, VacantIfFreed
  <2> QED  BY <2>1, <2>5, <2>6, BoundKeeps DEF Emit
<1>4. CASE ~InMemory(m, operand) /\ InMemory(m, result)
  <2> DEFINE operands == {<<m.bound[operand], operand>>}
             n == Reads(m, "operand", operands)
  <2>1. Carried(m, operands)
    BY <1>1, <1>4, BoundCarries, CarriedOne
  <2> HIDE DEF operands
  <2>2. Good(n, Live) /\ InMemory(n, result)
    BY <1>1, <1>4, <2>1, OperandsReadGood, InMemoryIfFreed
  <2>3. Emit(DefineInMemory(n, result), {operand}, {result})
    BY <1>1, <1>4 DEF Assigned, m, n, operands
  <2> HIDE DEF n
  <2> QED  BY <2>2, <2>3, StoredKeeps DEF Emit
<1>5. CASE ~InMemory(m, operand) /\ ~InMemory(m, result)
  <2> DEFINE operands == {<<m.bound[operand], operand>>}
  <2>1. Carried(m, operands)
    BY <1>1, <1>5, BoundCarries, CarriedOne
  <2>2. Emit(BindResult(Reads(m, "operand", operands), m.bound[result], result),
             {operand}, {result})
    BY <1>1, <1>5 DEF Assigned, m
  <2> HIDE DEF operands
  <2> QED  BY <1>1, <1>5, <2>1, <2>2, OverwrittenKeeps
<1> QED  BY <1>2, <1>3, <1>4, <1>5

\* assignConstant.
LEMMA AssignConstantKeeps ==
    ASSUME Inv, NEW result \in Sym \ Wide, AssignConstant(result)
    PROVE  Inv'
<1> DEFINE r == Obtained(Start, {})
           n == Write(Obtain(Start, {}), r, Junk)
<1>1. Good(Start, Live) /\ Good(Start, Live \ {result})
  BY Operands
<1>2. CASE InMemory(Start, result)
  <2>1. n = Scratch(Start, {})
    BY DEF Scratch
  <2>2. Good(n, Live) /\ OnlyFreed(Start, n)
    BY <1>1, <2>1, ScratchGood, EnoughAllocatable
  <2>3. Emit(DefineInMemory(n, result), {}, {result})
    BY <1>2 DEF AssignConstant
  <2> HIDE DEF n
  <2> QED  BY <1>2, <2>2, <2>3, InMemoryIfFreed, StoredKeeps DEF Emit
<1>3. CASE ~InMemory(Start, result)
  BY <1>1, <1>3, BoundAlone, BoundKeeps DEF AssignConstant, Emit
<1> QED  BY <1>2, <1>3

\* The address of a string, a function or a label value.
LEMMA LoadAddressKeeps ==
    ASSUME Inv, NEW result \in Destination, LoadAddress(result)
    PROVE  Inv'
<1> DEFINE r == Obtained(Start, {})
           n == Obtain(Start, {})
<1>1. result \in Sym \ Wide /\ Good(Start, Live)
  BY Operands
<1>2. r \in Allocatable /\ Good(n, Live) /\ Vacant(n, r, Sym)
  BY <1>1, ObtainGood, EnoughAllocatable
<1>3. Good(n, Live \ {result}) /\ Vacant(n, r, Sym \ {result})
  BY <1>2, GoodOfFewer DEF Vacant
<1>4. Emit(BindResult(n, r, result), {}, {result})
  BY DEF LoadAddress
<1> HIDE DEF r, n
<1> QED  BY <1>1, <1>2, <1>3, <1>4, BoundKeeps DEF Emit

\* compare.
LEMMA CompareKeeps ==
    ASSUME Inv, NEW left \in Word, NEW right \in Word, Compare(left, right)
    PROVE  Inv'
<1> DEFINE l == MaterializedIn(Start, left, {})
           m == Materialize(Start, left, {})
           r == MaterializedIn(m, right, {l})
           ready == Materialize(m, right, {l})
           operands == {<<l, left>>, <<r, right>>}
<1>1. /\ left \in Sym \ Wide /\ right \in Sym \ Wide /\ Good(Start, Live)
      /\ left \in Live \cup Exempt /\ right \in Live \cup Exempt
  BY Operands
<1>2. l \in Reg /\ Good(m, Live) /\ Carries(m, l, left)
  BY <1>1, MaterializeGood, EnoughAllocatable, AllocatableRegisters
<1>3. Emit(Reads(ready, "operand", operands), {left, right}, {})
  BY DEF Compare
<1> HIDE DEF l, m
<1>4. /\ Good(ready, Live) /\ ready.value[l] = m.value[l]
      /\ Carries(ready, r, right)
  BY <1>1, <1>2, MaterializeGood, EnoughAllocatable
<1> HIDE DEF ready, r
<1>5. Carried(ready, operands)
  BY <1>1, <1>2, <1>4, StillCarries, CarriedPair
<1> HIDE DEF operands
<1> QED  BY <1>3, <1>4, <1>5, ReadKeeps

\* zeroCompare.
LEMMA ZeroCompareKeeps ==
    ASSUME Inv, NEW operand \in Word, ZeroCompare(operand)
    PROVE  Inv'
<1> DEFINE r == MaterializedIn(Start, operand, {})
           ready == Materialize(Start, operand, {})
           operands == {<<r, operand>>}
<1>1. operand \in Sym \ Wide /\ Good(Start, Live) /\ operand \in Live \cup Exempt
  BY Operands
<1>2. Good(ready, Live) /\ Carried(ready, operands)
  BY <1>1, MaterializeGood, EnoughAllocatable, CarriedOne
<1>3. Emit(Reads(ready, "operand", operands), {operand}, {})
  BY DEF ZeroCompare
<1> HIDE DEF ready, operands
<1> QED  BY <1>2, <1>3, ReadKeeps

----------------------------------------------------------------------------
(* Floating operands.                                                      *)

\* loadValueToXmm goes through a scratch register of its own.
LEMMA LoadToXmmGood ==
    ASSUME NEW m, NEW K, Good(m, K), NEW s \in Sym,
           s \in K \cup Exempt
    PROVE  LET n == LoadToXmm(m, s, "operand") IN Good(n, K) /\ OnlyFreed(m, n)
<1> DEFINE tmp == Obtained(m, {})
           n == CopyToRegister(Obtain(m, {}), s, tmp)
           operands == {<<tmp, s>>}
<1>1. Good(n, K) /\ OnlyFreed(m, n) /\ Carries(n, tmp, s)
  BY ObtainedCopyGood, EnoughAllocatable
<1>2. Carried(n, operands)
  BY <1>1, CarriedOne
<1>3. LoadToXmm(m, s, "operand") = Reads(n, "operand", operands)
  BY DEF LoadToXmm
<1> HIDE DEF n, operands
<1> QED  BY <1>1, <1>2, <1>3, OperandsReadGood, FreedIsTransitive

\* emitSseBinary.
LEMMA FloatBinaryKeeps ==
    ASSUME Inv, NEW left \in Word, NEW right \in Word, NEW result \in Destination,
           FloatBinary(left, right, result)
    PROVE  Inv'
<1> DEFINE dest == Obtained(Start, {})
           n == Obtain(Start, {})
           one == LoadToXmm(n, left, "operand")
           loaded == LoadToXmm(one, right, "operand")
<1>1. /\ left \in Sym /\ right \in Sym /\ result \in Sym \ Wide /\ Good(Start, Live)
      /\ left \in Live \cup Exempt /\ right \in Live \cup Exempt
  BY Operands
<1>2. dest \in Allocatable /\ dest \in Reg /\ Good(n, Live) /\ Vacant(n, dest, Sym)
  BY <1>1, ObtainGood, EnoughAllocatable, AllocatableRegisters
<1>3. Emit(BindResult(loaded, dest, result), {left, right}, {result})
  BY DEF FloatBinary
<1> HIDE DEF dest, n
<1>4. Good(one, Live) /\ Vacant(one, dest, Sym)
  BY <1>1, <1>2, LoadToXmmGood, VacantIfFreed
<1> HIDE DEF one
<1>5. Good(loaded, Live) /\ Vacant(loaded, dest, Sym)
  BY <1>1, <1>2, <1>4, LoadToXmmGood, VacantIfFreed
<1>6. Good(loaded, Live \ {result}) /\ Vacant(loaded, dest, Sym \ {result})
  BY <1>5, GoodOfFewer DEF Vacant
<1> HIDE DEF loaded
<1> QED  BY <1>1, <1>2, <1>3, <1>6, BoundKeeps DEF Emit

\* emitSseCompare.
LEMMA FloatCompareKeeps ==
    ASSUME Inv, NEW left \in Word, NEW right \in Word, FloatCompare(left, right)
    PROVE  Inv'
<1> DEFINE one == LoadToXmm(Start, left, "operand")
           loaded == LoadToXmm(one, right, "operand")
<1>1. /\ left \in Sym /\ right \in Sym /\ Good(Start, Live)
      /\ left \in Live \cup Exempt /\ right \in Live \cup Exempt
  BY Operands
<1>2. Good(one, Live)
  BY <1>1, LoadToXmmGood
<1>3. Emit(loaded, {left, right}, {})
  BY DEF FloatCompare
<1> HIDE DEF one
<1>4. Good(loaded, Live)
  BY <1>1, <1>2, LoadToXmmGood
<1> HIDE DEF loaded
<1> QED  BY <1>3, <1>4, NothingDefinedKeeps

\* emitSseZeroCompare.
LEMMA FloatZeroCompareKeeps ==
    ASSUME Inv, NEW operand \in Word, FloatZeroCompare(operand)
    PROVE  Inv'
<1> DEFINE loaded == LoadToXmm(Start, operand, "operand")
           zeroed == Scratch(loaded, {})
<1>1. Good(loaded, Live)
  BY Operands, LoadToXmmGood
<1>2. Emit(zeroed, {operand}, {})
  BY DEF FloatZeroCompare
<1> HIDE DEF loaded
<1>3. Good(zeroed, Live)
  BY <1>1, ScratchGood, EnoughAllocatable
<1> HIDE DEF zeroed
<1> QED  BY <1>2, <1>3, NothingDefinedKeeps

\* the register an operand lives in, or none, is excluded
LEMMA ExcludingOperand ==
    ASSUME NEW m, NEW K, Good(m, K), NEW s \in Sym
    PROVE  LET X == IF InMemory(m, s) THEN {} ELSE {m.bound[s]}
           IN  Allocatable \ X # {}
BY EnoughAllocatable DEF Good, Books, CacheType, InMemory

\* emitSseUnaryMinus.
LEMMA FloatMinusKeeps ==
    ASSUME Inv, NEW operand \in Word, NEW result \in Destination,
           FloatMinus(operand, result)
    PROVE  Inv'
<1> DEFINE excluded == IF InMemory(Start, operand) THEN {} ELSE {Start.bound[operand]}
           dest == Obtained(Start, excluded)
           copied == CopyToRegister(Obtain(Start, excluded), operand, dest)
           masked == Scratch(copied, {dest})
           operands == {<<dest, operand>>}
<1>1. /\ operand \in Sym /\ result \in Sym \ Wide /\ Good(Start, Live)
      /\ operand \in Live \cup Exempt
  BY Operands
<1>2. Allocatable \ excluded # {}
  BY <1>1, ExcludingOperand
<1>3. Emit(BindResult(Reads(masked, "operand", operands), dest, result),
           {operand}, {result})
  BY DEF FloatMinus
<1> HIDE DEF excluded
<1>4. /\ dest \in Allocatable /\ dest \in Reg /\ Good(copied, Live)
      /\ Vacant(copied, dest, Sym) /\ Carries(copied, dest, operand)
  BY <1>1, <1>2, ObtainedCopyGood, AllocatableRegisters
<1> HIDE DEF dest, copied
<1>5. /\ Good(masked, Live) /\ Vacant(masked, dest, Sym)
      /\ masked.value[dest] = copied.value[dest]
  BY <1>4, ScratchGood, EnoughAllocatable, VacantIfFreed
<1> HIDE DEF masked
<1>6. Good(masked, Live \ {result}) /\ Carried(masked, operands)
  <2>1. Carries(masked, dest, operand)
    BY <1>4, <1>5, StillCarries
  <2> QED  BY <1>1, <1>5, <2>1, GoodOfFewer, CarriedOne
<1> HIDE DEF operands
<1> QED  BY <1>1, <1>3, <1>4, <1>5, <1>6, ComputedKeeps DEF Emit

\* numericConvert between integers and floating point numbers.
LEMMA NumericConvertKeeps ==
    ASSUME Inv, NEW operand \in Word, NEW result \in Destination,
           NEW conversion \in Conversion, NumericConvert(operand, result, conversion)
    PROVE  Inv'
<1> DEFINE src == MaterializedIn(Start, operand, {})
           m == Materialize(Start, operand, {})
           dst == IF InMemory(m, result) THEN Obtained(m, {src}) ELSE m.bound[result]
           chosen == IF InMemory(m, result) THEN Obtain(m, {src}) ELSE m
           to == Scratch(chosen, {src, dst})
           from == Scratch(chosen, {src})
           from2 == Scratch(from, {src, Obtained(chosen, {src})})
           ready == CASE conversion = "signed" -> chosen
                      [] conversion = "toUnsigned" -> to
                      [] conversion = "fromUnsigned" -> from2
           operands == {<<src, operand>>}
           read == Reads(ready, "operand", operands)
<1>1. /\ operand \in Sym \ Wide /\ result \in Sym \ Wide /\ Good(Start, Live)
      /\ operand \in Live \cup Exempt
  BY Operands
<1>2. src \in Reg /\ Good(m, Live) /\ Carries(m, src, operand)
  BY <1>1, MaterializeGood, EnoughAllocatable, AllocatableRegisters
<1>3. Emit(IF InMemory(read, result) THEN DefineInMemory(Write(read, dst, Junk), result)
           ELSE BindResult(read, dst, result), {operand}, {result})
  BY DEF NumericConvert
<1> HIDE DEF src, m
<1>4. /\ dst \in Allocatable /\ dst \in Reg /\ Good(chosen, Live) /\ OnlyFreed(m, chosen)
      /\ Vacant(chosen, dst, Sym \ {result})
      /\ \A s \in Sym : chosen.bound[s] \in {m.bound[s], None}
      /\ chosen.value = m.value
  <2>1. CASE InMemory(m, result)
    BY <1>1, <1>2, <2>1, ObtainGood, EnoughAllocatable, AllocatableRegisters DEF Vacant, OnlyFreed
  <2>2. CASE ~InMemory(m, result)
    BY <1>1, <1>2, <2>2, BoundAlone, AllocatableRegisters DEF OnlyFreed
  <2> QED  BY <2>1, <2>2
<1>5. InMemory(m, result) => Vacant(chosen, dst, Sym)
  BY <1>2, ObtainGood, EnoughAllocatable
<1>6. ~InMemory(m, result) => m.bound[result] = dst
  OBVIOUS
<1> HIDE DEF dst, chosen
<1>7. /\ Good(ready, Live) /\ OnlyFreed(chosen, ready)
      /\ ready.value[src] = chosen.value[src]
  <2>1. CASE conversion = "signed"
    BY <1>4, <2>1 DEF OnlyFreed
  <2>2. CASE conversion = "toUnsigned"
    BY <1>2, <1>4, <2>2, ScratchGood, EnoughAllocatable
  <2>3. CASE conversion = "fromUnsigned"
    <3>0. Allocatable \ {src} # {} /\ src \in {src}
      BY <1>2, EnoughAllocatable
    <3>1. /\ Good(from, Live) /\ OnlyFreed(chosen, from) /\ Obtained(chosen, {src}) \in Reg
          /\ from.value[src] = chosen.value[src]
      BY <1>2, <1>4, <3>0, ScratchGood, AllocatableRegisters
    <3> HIDE DEF from
    <3>2. Allocatable \ {src, Obtained(chosen, {src})} # {}
      BY <1>2, <3>1, EnoughAllocatable
    <3>3. /\ Good(from2, Live) /\ OnlyFreed(from, from2)
          /\ from2.value[src] = from.value[src]
      <4> DEFINE kept == {src, Obtained(chosen, {src})}
      <4>1. src \in kept /\ Allocatable \ kept # {}
        BY <3>2
      <4> HIDE DEF kept
      <4>2. LET n == Scratch(from, kept)
            IN  Good(n, Live) /\ OnlyFreed(from, n) /\ n.value[src] = from.value[src]
        BY <1>2, <3>1, <4>1, ScratchGood
      <4> QED  BY <4>2 DEF kept
    <3>4. ready = from2
      BY <2>3
    <3> QED  BY <3>1, <3>3, <3>4, FreedIsTransitive
  <2> QED  BY <2>1, <2>2, <2>3 DEF Conversion
<1> HIDE DEF ready
<1>8. Carried(ready, operands)
  BY <1>1, <1>2, <1>4, <1>7, StillCarries, CarriedOne
<1> HIDE DEF operands
<1>9. Good(read, Live) /\ OnlyFreed(m, read) /\ Vacant(read, dst, Sym \ {result})
  BY <1>4, <1>7, <1>8, OperandsReadGood, FreedIsTransitive, VacantIfFreed
<1>10. InMemory(read, result) => Vacant(read, dst, Sym)
  BY <1>4, <1>9, Symbols, Registers DEF Vacant, InMemory
<1> HIDE DEF read
<1>11. CASE InMemory(read, result)
  <2> DEFINE n == Write(read, dst, Junk)
  <2>1. Vacant(read, dst, Live)
    BY <1>9, <1>10, <1>11 DEF Vacant, Good
  <2>2. Good(n, Live) /\ OnlyFreed(read, n)
    BY <1>4, <1>9, <2>1, WriteGood
  <2>3. InMemory(n, result)
    BY <1>1, <1>11, <2>2, InMemoryIfFreed
  <2>4. Emit(DefineInMemory(n, result), {operand}, {result})
    BY <1>3, <1>11
  <2> HIDE DEF n
  <2> QED  BY <1>1, <2>2, <2>3, <2>4, StoredKeeps DEF Emit
<1>12. CASE ~InMemory(read, result)
  <2>1. Emit(BindResult(read, dst, result), {operand}, {result})
    BY <1>3, <1>12
  <2>2. Good(read, Live \ {result})
    BY <1>9, GoodOfFewer
  <2> QED  BY <1>1, <1>4, <1>9, <2>1, <2>2, BoundKeeps DEF Emit
<1> QED  BY <1>11, <1>12

----------------------------------------------------------------------------
(* Addresses.                                                              *)

\* The base address of a field or an element is left in a register no symbol
\* lives in.
LEMMA BaseAddressGood ==
    ASSUME NEW m, NEW K, Good(m, K), NEW s \in Sym, NEW lea \in BOOLEAN,
           NEW r \in Allocatable, Vacant(m, r, Sym)
    PROVE  LET n == BaseAddress(m, s, lea, r)
           IN  /\ Good(n, K) /\ OnlyFreed(m, n) /\ Vacant(n, r, Sym)
               /\ s \in K \cup Exempt => Carries(n, r, s)
               /\ \A q \in Reg : q # r => n.value[q] = m.value[q]
<1>1. r \in Reg
  BY AllocatableRegisters
<1>2. CASE lea
  <2> DEFINE n == StoreInMemory(m, s)
  <2>1. Good(n, K) /\ OnlyFreed(m, n) /\ Vacant(n, r, Sym) /\ n.value = m.value
    BY <1>1, StoreInMemoryGood, VacantIfFreed
  <2> HIDE DEF n
  <2>2. Good(Write(n, r, s), K) /\ OnlyFreed(n, Write(n, r, s))
    BY <2>1, WriteGood DEF Vacant, Good
  <2>3. BaseAddress(m, s, lea, r) = Write(n, r, s)
    BY <1>2 DEF BaseAddress, n
  <2>4. /\ Carries(Write(n, r, s), r, s)
        /\ \A q \in Reg : q # r => Write(n, r, s).value[q] = m.value[q]
    BY <1>1, <2>1, WriteValues DEF Carries
  <2> QED  BY <1>1, <2>1, <2>2, <2>3, <2>4, FreedIsTransitive, VacantIfFreed
<1>3. CASE ~lea
  BY <1>3, <1>1, CopyToRegisterGood, CopyToRegisterValues, VacantIfFreed DEF BaseAddress,
     Vacant, Good
<1> QED  BY <1>2, <1>3

\* fieldAddress.
LEMMA FieldAddressKeeps ==
    ASSUME Inv, NEW base \in needed, NEW result \in Destination, NEW lea \in BOOLEAN,
           FieldAddress(base, result, lea)
    PROVE  Inv'
<1> DEFINE dest == Obtained(Start, {})
           n == Obtain(Start, {})
           ready == BaseAddress(n, base, lea, dest)
           operands == {<<dest, base>>}
           objects == IF lea THEN {base} ELSE {}
           inPlace == base = result /\ ~lea /\ ~InMemory(Start, base)
<1>1. /\ base \in Sym /\ result \in Sym \ Wide /\ Good(Start, Live) /\ objects \in SUBSET Always
      /\ base \in Live \cup Exempt
  BY Operands DEF FieldAddress, Inv
<1>2. CASE inPlace
  <2> DEFINE own == {<<Start.bound[base], base>>}
  <2>1. Carried(Start, own)
    BY <1>1, <1>2, BoundCarries, CarriedOne
  <2>2. Emit(BindResult(Reads(Start, "operand", own), Start.bound[result], result),
             {base}, {result})
    BY <1>2 DEF FieldAddress, Emit
  <2> HIDE DEF own
  <2> QED  BY <1>1, <1>2, <2>1, <2>2, OverwrittenKeeps
<1>3. CASE ~inPlace
  <2>1. EmitExposing(objects, BindResult(Reads(ready, "operand", operands), dest, result),
                     {base}, {result})
    BY <1>3 DEF FieldAddress
  <2>2. dest \in Allocatable /\ Good(n, Live) /\ Vacant(n, dest, Sym)
    BY <1>1, ObtainGood, EnoughAllocatable
  <2> HIDE DEF n, dest, objects
  <2>3. Good(ready, Live) /\ Vacant(ready, dest, Sym) /\ Carries(ready, dest, base)
    BY <1>1, <2>2, BaseAddressGood
  <2>4. Good(ready, Live \ {result}) /\ Carried(ready, operands)
    BY <1>1, <2>3, GoodOfFewer, CarriedOne
  <2> HIDE DEF ready, operands
  <2> QED  BY <1>1, <2>1, <2>2, <2>3, <2>4, ComputedKeeps
<1> QED  BY <1>2, <1>3

\* indexAddress.
LEMMA IndexAddressKeeps ==
    ASSUME Inv, NEW base \in needed, NEW index \in Word, NEW result \in Destination,
           NEW lea \in BOOLEAN, NEW bytes \in BOOLEAN,
           IndexAddress(base, index, result, lea, bytes)
    PROVE  Inv'
<1> DEFINE first == StoreInMemory(Start, index)
           spilled == StoreRegisterValue(StoreRegisterValue(first, Rax), Rdx)
           loaded == LoadWord(spilled, index, Rax, {})
           factor == Scratch(loaded, {Rax})
           scaled == IF bytes THEN loaded ELSE Write(factor, Rdx, Junk)
           dest == Obtained(scaled, {Rax})
           n == Obtain(scaled, {Rax})
           ready == BaseAddress(n, base, lea, dest)
           operands == {<<Rax, index>>, <<dest, base>>}
           objects == IF lea THEN {base} ELSE {}
<1>1. /\ base \in Sym /\ index \in Sym /\ result \in Sym \ Wide /\ Good(Start, Live)
      /\ objects \in SUBSET Always /\ Live \subseteq Sym
      /\ base \in Live \cup Exempt /\ index \in Live \cup Exempt /\ Rax # Rdx
      /\ {Rax, Rdx} \subseteq Allocatable /\ {Rax, Rdx} \subseteq Reg
  BY Operands, Registers DEF IndexAddress, Inv, Good
<1>2. EmitExposing(objects, BindResult(Reads(ready, "operand", operands), dest, result),
                   {base, index}, {result})
  BY DEF IndexAddress
<1> HIDE DEF objects
<1>3. Good(first, Live)
  BY <1>1, StoreInMemoryGood
<1> HIDE DEF first
<1>4. Good(spilled, Live) /\ Vacant(spilled, Rax, Sym) /\ Vacant(spilled, Rdx, Sym)
  BY <1>1, <1>3, StoreRegisterValueGood, VacantIfFreed
<1> HIDE DEF spilled
<1>5. Good(loaded, Live) /\ Vacant(loaded, Rdx, Sym) /\ Carries(loaded, Rax, index)
  BY <1>1, <1>4, EnoughAllocatable, LoadWordGood, LoadWordValues, VacantIfFreed DEF Vacant
<1> HIDE DEF loaded
<1>6. Good(scaled, Live) /\ scaled.value[Rax] = loaded.value[Rax]
  <2>1. /\ Good(factor, Live) /\ Vacant(factor, Rdx, Sym)
        /\ factor.value[Rax] = loaded.value[Rax]
    BY <1>1, <1>5, ScratchGood, EnoughAllocatable, VacantIfFreed
  <2> HIDE DEF factor
  <2>2. Good(Write(factor, Rdx, Junk), Live)
    BY <1>1, <2>1, WriteGood DEF Vacant
  <2>3. Write(factor, Rdx, Junk).value[Rax] = factor.value[Rax]
    BY <1>1, <2>1, WriteValues
  <2> QED  BY <1>5, <2>1, <2>2, <2>3
<1> HIDE DEF scaled
<1>7. /\ dest \in Allocatable \ {Rax} /\ Good(n, Live) /\ Vacant(n, dest, Sym)
      /\ n.value = scaled.value
  BY <1>1, <1>6, ObtainGood, EnoughAllocatable
<1> HIDE DEF n, dest
<1>8. /\ Good(ready, Live) /\ Vacant(ready, dest, Sym) /\ Carries(ready, dest, base)
      /\ ready.value[Rax] = n.value[Rax]
  BY <1>1, <1>7, BaseAddressGood
<1>9. Good(ready, Live \ {result}) /\ Carried(ready, operands)
  BY <1>5, <1>6, <1>7, <1>8, StillCarries, <1>1, GoodOfFewer, CarriedPair
<1> HIDE DEF ready, operands
<1> QED  BY <1>1, <1>2, <1>7, <1>8, <1>9, ComputedKeeps

\* pointerDifference.
LEMMA PointerDifferenceKeeps ==
    ASSUME Inv, NEW left \in Word, NEW right \in Word, NEW result \in Destination,
           NEW bytes \in BOOLEAN, PointerDifference(left, right, result, bytes)
    PROVE  Inv'
<1> DEFINE dest == Obtained(Start, {Rax})
           copied == CopyToRegister(Obtain(Start, {Rax}), left, dest)
           rhs == MaterializedIn(copied, right, {dest})
           both == Materialize(copied, right, {dest})
           operands == {<<dest, left>>, <<rhs, right>>}
           ready == Reads(both, "operand", operands)
           diff == Write(ready, dest, Junk)
           spilled == StoreRegisterValue(StoreRegisterValue(diff, Rax), Rdx)
           high == Write(spilled, Rax, Junk)
           extended == Write(high, Rdx, Junk)
           divided == Scratch(extended, {Rax, Rdx, dest})
<1>1. /\ left \in Sym /\ right \in Sym \ Wide /\ result \in Sym \ Wide /\ Good(Start, Live)
      /\ {Rax, Rdx} \subseteq Allocatable /\ {Rax, Rdx} \subseteq Reg
      /\ Live \subseteq Sym /\ left \in Live \cup Exempt /\ right \in Live \cup Exempt
  BY Operands DEF Good
<1>2. /\ dest \in Allocatable \ {Rax} /\ dest \in Reg
      /\ Good(copied, Live) /\ Vacant(copied, dest, Sym) /\ Carries(copied, dest, left)
  BY <1>1, EnoughAllocatable, ObtainedCopyGood, AllocatableRegisters
<1>3. Emit(BindResult(IF bytes THEN ready ELSE divided, dest, result),
           {left, right}, {result})
  BY DEF PointerDifference
<1> HIDE DEF dest, copied
<1>4. Good(both, Live) /\ Vacant(both, dest, Sym) /\ Carried(both, operands)
  <2>1. /\ Good(both, Live) /\ Vacant(both, dest, Sym)
        /\ both.value[dest] = copied.value[dest] /\ Carries(both, rhs, right)
    BY <1>1, <1>2, EnoughAllocatable, MaterializeGood
  <2> HIDE DEF both, rhs
  <2> QED  BY <1>1, <1>2, <2>1, StillCarries, CarriedPair
<1> HIDE DEF both, operands
<1>5. Good(ready, Live) /\ Vacant(ready, dest, Sym)
  BY <1>2, <1>4, OperandsReadGood, VacantIfFreed
<1> HIDE DEF ready
<1>6. Good(diff, Live) /\ Vacant(diff, dest, Sym)
  BY <1>1, <1>2, <1>5, WriteGood, VacantIfFreed DEF Vacant
<1> HIDE DEF diff
<1>7. /\ Good(spilled, Live) /\ Vacant(spilled, dest, Sym)
      /\ Vacant(spilled, Rax, Sym) /\ Vacant(spilled, Rdx, Sym)
  BY <1>1, <1>2, <1>6, StoreRegisterValueGood, VacantIfFreed
<1> HIDE DEF spilled
<1>8. Good(high, Live) /\ Vacant(high, dest, Sym) /\ Vacant(high, Rdx, Sym)
  BY <1>1, <1>2, <1>7, WriteGood, VacantIfFreed DEF Vacant
<1> HIDE DEF high
<1>9. Good(extended, Live) /\ Vacant(extended, dest, Sym)
  BY <1>1, <1>2, <1>8, WriteGood, VacantIfFreed DEF Vacant
<1> HIDE DEF extended
<1>10. Good(divided, Live) /\ Vacant(divided, dest, Sym)
  BY <1>1, <1>2, EnoughAllocatable, <1>9, ScratchGood, VacantIfFreed
<1> DEFINE n == IF bytes THEN ready ELSE divided
<1>11. Good(n, Live \ {result}) /\ Vacant(n, dest, Sym \ {result})
  BY <1>5, <1>10, GoodOfFewer DEF Vacant
<1> HIDE DEF divided, n
<1> QED  BY <1>1, <1>2, <1>3, <1>11, BoundKeeps DEF Emit, n

\* addressOf: the object is in memory once its address is known.
LEMMA AddressOfKeeps ==
    ASSUME Inv, NEW operand \in needed, NEW result \in Destination,
           AddressOf(operand, result)
    PROVE  Inv'
<1> DEFINE stored == StoreInMemory(Start, operand)
           r == Obtained(stored, {})
           n == Obtain(stored, {})
           objects == {operand}
<1>1. operand \in Sym /\ result \in Sym \ Wide /\ Good(Start, Live) /\ objects \in SUBSET Always
  BY Operands DEF AddressOf, Inv
<1>2. EmitExposing(objects, BindResult(n, r, result), {operand}, {result})
  BY DEF AddressOf
<1>3. Good(stored, Live)
  BY <1>1, StoreInMemoryGood
<1> HIDE DEF stored, objects
<1>4. r \in Allocatable /\ Good(n, Live) /\ Vacant(n, r, Sym)
  BY <1>3, ObtainGood, EnoughAllocatable
<1>5. Good(n, Live \ {result}) /\ Vacant(n, r, Sym \ {result})
  BY <1>4, GoodOfFewer DEF Vacant
<1> HIDE DEF n, r
<1> QED  BY <1>1, <1>2, <1>4, <1>5, BoundKeeps

\* allocaBytes.
LEMMA AllocaBytesKeeps ==
    ASSUME Inv, NEW size \in Word, NEW result \in Destination, AllocaBytes(size, result)
    PROVE  Inv'
<1> DEFINE excluded == IF InMemory(Start, size) THEN {} ELSE {Start.bound[size]}
           sum == Obtained(Start, excluded)
           copied == CopyToRegister(Obtain(Start, excluded), size, sum)
           scratched == Scratch(copied, {sum})
           operands == {<<sum, size>>}
           masked == Reads(scratched, "operand", operands)
           r == Obtained(masked, {sum})
           n == Obtain(masked, {sum})
<1>1. size \in Sym /\ result \in Sym \ Wide /\ Good(Start, Live) /\ size \in Live \cup Exempt
  BY Operands
<1>2. Allocatable \ excluded # {}
  BY <1>1, ExcludingOperand
<1>3. Emit(BindResult(n, r, result), {size}, {result})
  BY DEF AllocaBytes
<1> HIDE DEF excluded
<1>4. sum \in Reg /\ Good(copied, Live) /\ Carries(copied, sum, size)
  BY <1>1, <1>2, ObtainedCopyGood, AllocatableRegisters
<1> HIDE DEF sum, copied
<1>5. Good(scratched, Live) /\ Carried(scratched, operands)
  BY <1>4, ScratchGood, EnoughAllocatable, <1>1, StillCarries, CarriedOne
<1> HIDE DEF scratched, operands
<1>6. Good(masked, Live)
  BY <1>5, OperandsReadGood
<1> HIDE DEF masked
<1>7. r \in Allocatable /\ Good(n, Live) /\ Vacant(n, r, Sym)
  BY <1>4, <1>6, ObtainGood, EnoughAllocatable
<1>8. Good(n, Live \ {result}) /\ Vacant(n, r, Sym \ {result})
  BY <1>7, GoodOfFewer DEF Vacant
<1> HIDE DEF n, r
<1> QED  BY <1>1, <1>3, <1>7, <1>8, BoundKeeps DEF Emit

\* dereference.
LEMMA DereferenceKeeps ==
    ASSUME Inv, NEW pointer \in Word, NEW result \in Destination \cup Wide,
           NEW object, Dereference(pointer, result, object)
    PROVE  Inv'
<1> DEFINE ptr == MaterializedIn(Start, pointer, {})
           based == Materialize(Start, pointer, {})
           operands == {<<ptr, pointer>>}
           m == Reads(based, "operand", operands)
           read == ReadsHomes(m, "load", {object} \cap Sym)
           base == StoreInMemory(read, result)
           r == Obtained(read, {ptr})
           one == Scratch(base, {ptr})
           two == Scratch(one, {ptr, Obtained(base, {ptr})})
<1>1. pointer \in Sym \ Wide /\ result \in Sym /\ Good(Start, Live) /\ pointer \in Live \cup Exempt
  BY Operands
<1>2. Emit(IF result \in Wide THEN DefineInMemory(two, result)
           ELSE BindResult(Obtain(read, {ptr}), r, result), {pointer}, {result})
  BY DEF Dereference
<1>3. ptr \in Reg /\ Good(based, Live) /\ Carried(based, operands)
  BY EnoughAllocatable, <1>1, MaterializeGood, AllocatableRegisters, CarriedOne
<1> HIDE DEF based, ptr, operands
<1>4. Good(m, Live)
  BY <1>3, OperandsReadGood
<1> HIDE DEF m
<1>5. Good(read, Live) BY <1>4, ReadsHomesGood DEF Reader, Watched
<1> HIDE DEF read
<1>6. CASE result \in Wide
  <2>1. Good(base, Live) /\ InMemory(base, result)
    BY <1>1, <1>5, StoreInMemoryGood
  <2> HIDE DEF base
  <2>2. Good(one, Live) /\ InMemory(one, result) /\ Obtained(base, {ptr}) \in Reg
    BY <1>1, <1>3, <2>1, ScratchGood, EnoughAllocatable, InMemoryIfFreed, AllocatableRegisters
  <2> HIDE DEF one
  <2>3. Allocatable \ {ptr, Obtained(base, {ptr})} # {}
    BY <1>3, <2>2, EnoughAllocatable
  <2>4. Good(two, Live) /\ InMemory(two, result)
    BY <2>2, <2>3, ScratchGood, <1>1, InMemoryIfFreed
  <2> HIDE DEF two
  <2> QED  BY <1>1, <1>2, <1>6, <2>4, StoredKeeps DEF Emit
<1>7. CASE result \notin Wide
  <2> DEFINE n == Obtain(read, {ptr})
  <2>1. r \in Allocatable /\ Good(n, Live) /\ Vacant(n, r, Sym)
    BY <1>3, <1>5, ObtainGood, EnoughAllocatable
  <2>2. Good(n, Live \ {result}) /\ Vacant(n, r, Sym \ {result})
    BY <2>1, GoodOfFewer DEF Vacant
  <2>3. Emit(BindResult(n, r, result), {pointer}, {result})
    BY <1>2, <1>7
  <2> HIDE DEF n, r
  <2> QED  BY <1>1, <1>7, <2>1, <2>2, <2>3, BoundKeeps DEF Emit
<1> QED  BY <1>6, <1>7

\* The object stored to is spilled first, and only the operand and the pointer
\* are bound after that: it is in memory when its home is written.
LEMMA LvalueAssignKeeps ==
    ASSUME Inv, NEW operand \in needed, NEW pointer \in Word,
           NEW object \in Pointee(pointer), LvalueAssign(operand, pointer, object)
    PROVE  Inv'
<1> DEFINE spilled == SpillHolders(Start, Reg, Aliased(pointer))
           src == MaterializedIn(spilled, operand, {})
           m == Materialize(spilled, operand, {})
           ptr == MaterializedIn(m, pointer, {src})
           both == Materialize(m, pointer, {src})
           operands == {<<src, operand>>, <<ptr, pointer>>}
           native == Reads(both, "operand", operands)
           to == MaterializedIn(spilled, pointer, {})
           base == Materialize(spilled, pointer, {})
           one == Scratch(base, {to})
           copy == Scratch(one, {to, Obtained(base, {to})})
           through == {<<to, pointer>>}
           wide == Reads(copy, "operand", through)
           ready == IF operand \in Wide THEN wide ELSE native
<1>1. /\ operand \in Sym /\ pointer \in Sym \ Wide /\ Good(Start, Live)
      /\ Live \subseteq Sym /\ Live \subseteq needed
      /\ operand \in Live \cup Exempt /\ pointer \in Live \cup Exempt
  BY Operands DEF Inv, Good, Live
<1>2. Emit(CASE object = None -> ready
             [] object = operand -> [ready EXCEPT !.home = @ \cup {object}]
             [] OTHER -> DefineInMemory(ready, object), {operand, pointer}, {})
  BY DEF LvalueAssign
<1>3. object # None => object \in Sym /\ object \in Aliased(pointer)
  BY Symbols DEF Inv, Pointee, Aliased, Always, MayAlias
<1>4. /\ Good(spilled, Live)
      /\ object # None => InMemory(spilled, object)
  <2>1. Aliased(pointer) \in SUBSET Sym
    BY DEF Aliased
  <2>2. Good(spilled, Live) /\ \A s \in Aliased(pointer) : spilled.bound[s] \notin Reg
    BY <1>1, <2>1, SpillHoldersGood
  <2> QED  BY <1>3, <2>2 DEF Good, Books, CacheType, InMemory
<1> HIDE DEF spilled
<1>5. object # pointer
  BY Symbols DEF Pointee, Inv, Word
<1>6. Good(ready, Live) /\ (object # None /\ object # operand => InMemory(ready, object))
  <2>1. CASE operand \notin Wide
    <3>1. src \in Reg /\ Good(m, Live) /\ Carries(m, src, operand)
          /\ (object # None /\ object # operand => InMemory(m, object))
      BY <1>1, <1>3, <1>4, <2>1, MaterializeGood, EnoughAllocatable, AllocatableRegisters
    <3> HIDE DEF src, m
    <3>2. /\ Good(both, Live)
          /\ object # None /\ object # operand => InMemory(both, object)
          /\ both.value[src] = m.value[src] /\ Carries(both, ptr, pointer)
      BY <1>1, <1>3, <1>5, <3>1, MaterializeGood, EnoughAllocatable
    <3> HIDE DEF both, ptr
    <3>4. Carried(both, operands)
      BY <1>1, <3>1, <3>2, StillCarries, CarriedPair
    <3> HIDE DEF operands
    <3>3. Good(native, Live) /\ (object # None /\ object # operand => InMemory(native, object))
      BY <1>3, <3>2, <3>4, OperandsReadGood, InMemoryIfFreed
    <3> QED  BY <2>1, <3>3
  <2>2. CASE operand \in Wide
    <3>1. to \in Reg /\ Good(base, Live) /\ Carries(base, to, pointer) /\ (object # None => InMemory(base, object))
      BY <1>1, <1>3, <1>4, <1>5, MaterializeGood, EnoughAllocatable, AllocatableRegisters
    <3> HIDE DEF to, base
    <3>2. /\ Good(one, Live) /\ (object # None => InMemory(one, object))
          /\ Obtained(base, {to}) \in Reg /\ Carries(one, to, pointer)
      <4>1. Allocatable \ {to} # {}
        BY <3>1, EnoughAllocatable
      <4>2. /\ Good(one, Live) /\ OnlyFreed(base, one) /\ Obtained(base, {to}) \in Reg
            /\ one.value[to] = base.value[to]
        BY <3>1, <4>1, ScratchGood, AllocatableRegisters
      <4> QED  BY <1>1, <1>3, <3>1, <4>2, InMemoryIfFreed, StillCarries
    <3> HIDE DEF one
    <3>3. Allocatable \ {to, Obtained(base, {to})} # {}
      BY <3>1, <3>2, EnoughAllocatable
    <3>4. /\ Good(copy, Live) /\ (object # None => InMemory(copy, object))
          /\ Carried(copy, through)
      <4>1. /\ Good(copy, Live) /\ OnlyFreed(one, copy)
            /\ copy.value[to] = one.value[to]
        BY <3>1, <3>2, <3>3, ScratchGood
      <4> HIDE DEF copy
      <4> QED
        BY <1>1, <1>3, <3>2, <4>1, InMemoryIfFreed, StillCarries, CarriedOne
    <3> HIDE DEF copy, through
    <3>5. Good(wide, Live) /\ (object # None => InMemory(wide, object))
      BY <1>3, <3>2, <3>4, OperandsReadGood, InMemoryIfFreed
    <3> QED  BY <2>2, <3>5
  <2> QED  BY <2>1, <2>2
<1> HIDE DEF ready
<1>7. CASE object = None BY <1>1, <1>2, <1>7, Symbols, <1>6, NothingDefinedKeeps
<1>8. CASE object # None /\ object = operand
  <2> DEFINE n == [ready EXCEPT !.home = @ \cup {object}]
  <2>1. Good(n, Live)
    BY <1>3, <1>6, <1>8 DEF Good, Books, CacheType, Intact, Current, InMemory, ReadsCurrent
  <2>2. Emit(n, {operand, pointer}, {})
    BY <1>2, <1>8
  <2> HIDE DEF n
  <2> QED  BY <2>1, <2>2, NothingDefinedKeeps
<1>9. CASE object # None /\ object # operand
  <2> DEFINE n == DefineInMemory(ready, object)
  <2>1. Good(n, Live \cup {object})
    BY <1>3, <1>6, <1>9, DefineInMemoryGood
  <2>2. Emit(n, {operand, pointer}, {})
    BY <1>2, <1>9
  <2> HIDE DEF n
  <2> QED  BY <2>1, <2>2, GoodOfFewer, NothingDefinedKeeps
<1> QED  BY <1>7, <1>8, <1>9

----------------------------------------------------------------------------
(* Multi-word operands.                                                    *)

\* A multi-word object is always in memory.
LEMMA WideInMemory ==
    ASSUME NEW m, NEW K, Good(m, K), NEW s \in Wide
    PROVE  InMemory(m, s)
BY DEF Good, Books, InMemory

\* Reading the words of two operands disturbs nothing.
LEMMA WideReadsGood ==
    ASSUME NEW m, NEW K, Good(m, K), NEW l, NEW r, NEW left \in Sym, NEW right \in Sym,
           {left, right} \cap Global = {} => Carries(m, l, left) /\ Carries(m, r, right)
    PROVE  LET n == WideReads(m, l, left, r, right) IN Good(n, K) /\ OnlyFreed(m, n) /\ n.value = m.value
<1> DEFINE reader == IF {left, right} \cap Global = {} THEN "wide" ELSE "wideGlobal"
           operands == {<<l, left>>, <<r, right>>}
<1>1. reader \in Reader /\ \A o \in operands : o[2] \in Sym \cup {VectorCount}
  BY DEF Reader
<1>3. reader \in Watched => Carried(m, operands) BY CarriedPair DEF Watched
<1>2. WideReads(m, l, left, r, right) = Reads(m, reader, operands)
  BY DEF WideReads
<1> HIDE DEF reader, operands
<1> QED  BY <1>1, <1>2, <1>3, ReadsGood

\* The words of two operands in memory are loaded into two registers.
LEMMA WordPairGood ==
    ASSUME NEW m, NEW K, Good(m, K), NEW left \in Sym, NEW right \in Sym,
           NEW l \in Allocatable, NEW r \in Allocatable,
           Vacant(m, l, Sym), Vacant(m, r, Sym)
    PROVE  LET n == LoadWord(LoadWord(m, left, l, {}), right, r, {})
           IN  /\ Good(n, K) /\ OnlyFreed(m, n)
               /\ l # r /\ {left, right} \cap Global = {} /\ {left, right} \subseteq K \cup Exempt =>
                      /\ Carries(n, l, left) /\ Carries(n, r, right)
                      /\ \A q \in Reg \ {l, r} : n.value[q] = m.value[q]
<1> DEFINE one == LoadWord(m, left, l, {})
           two == LoadWord(one, right, r, {})
<1>1. l \in Reg /\ r \in Reg /\ K \subseteq Sym
      /\ Allocatable \ ({} \cup {l}) # {} /\ Allocatable \ ({} \cup {r}) # {}
  BY AllocatableRegisters, EnoughAllocatable DEF Good
<1>2. Vacant(m, l, K)
  BY <1>1 DEF Vacant
<1>3. Good(one, K) /\ OnlyFreed(m, one)
  BY <1>1, <1>2, LoadWordGood
<1>4. Vacant(one, r, K)
  BY <1>1, <1>3, VacantIfFreed DEF Vacant
<1> HIDE DEF one
<1>5. Good(two, K) /\ OnlyFreed(one, two)
  BY <1>1, <1>3, <1>4, LoadWordGood
<1>6. /\ left \in K \cup Exempt => Carries(one, l, left)
      /\ \A q \in Reg : q # l /\ left \notin Global => one.value[q] = m.value[q]
  BY <1>1, LoadWordValues DEF one
<1>7. /\ right \in K \cup Exempt => Carries(two, r, right)
      /\ \A q \in Reg : q # r /\ right \notin Global => two.value[q] = one.value[q]
  BY <1>1, <1>3, LoadWordValues
<1> HIDE DEF two
<1>8. ASSUME l # r, {left, right} \cap Global = {}, {left, right} \subseteq K \cup Exempt
      PROVE  /\ Carries(two, l, left) /\ Carries(two, r, right)
             /\ \A q \in Reg \ {l, r} : two.value[q] = m.value[q]
  BY <1>1, <1>7, <1>8, <1>6, StillCarries
<1> QED  BY <1>3, <1>5, <1>8, FreedIsTransitive DEF one, two

\* loadWideOperands leaves no symbol in its accumulator.
LEMMA WideLoadedGood ==
    ASSUME Inv, NEW left \in MultiWord, NEW right \in MultiWord
    PROVE  LET w == WideLoaded(left, right)
           IN  /\ Good(w.m, Live) /\ w.acc \in Allocatable /\ w.tmp \in Allocatable
               /\ Vacant(w.m, w.acc, Sym)
<1> DEFINE first == StoreInMemory(Start, left)
           stored == StoreInMemory(first, right)
           l == Obtained(stored, {})
           m == Obtain(stored, {})
           r == Obtained(m, {l})
           n == Obtain(m, {l})
           loaded == LoadWord(LoadWord(n, left, l, {}), right, r, {})
           read == WideReads(loaded, l, left, r, right)
<1>1. /\ left \in Sym /\ right \in Sym /\ Good(Start, Live)
      /\ {left, right} \subseteq Live \cup Exempt
  BY Operands
<1>2. Good(first, Live)
  BY <1>1, StoreInMemoryGood
<1> HIDE DEF first
<1>3. Good(stored, Live)
  BY <1>1, <1>2, StoreInMemoryGood
<1>4. WideLoaded(left, right) = [m |-> read, acc |-> l, tmp |-> r]
  BY DEF WideLoaded, first
<1> HIDE DEF stored
<1>5. l \in Allocatable /\ l \in Reg /\ Good(m, Live) /\ Vacant(m, l, Sym)
  BY <1>3, ObtainGood, EnoughAllocatable, AllocatableRegisters
<1> HIDE DEF l, m
<1>6. /\ r \in Allocatable \ {l} /\ Good(n, Live)
      /\ Vacant(n, l, Sym) /\ Vacant(n, r, Sym)
  BY <1>5, EnoughAllocatable, ObtainGood, VacantIfFreed
<1> HIDE DEF r, n
<1>7. /\ Good(loaded, Live) /\ Vacant(loaded, l, Sym)
      /\ {left, right} \cap Global = {} => Carries(loaded, l, left) /\ Carries(loaded, r, right)
  BY <1>1, <1>5, <1>6, WordPairGood, VacantIfFreed
<1> HIDE DEF loaded
<1>8. Good(read, Live) /\ Vacant(read, l, Sym)
  BY <1>1, <1>5, <1>7, WideReadsGood, VacantIfFreed
<1> HIDE DEF read
<1> QED  BY <1>4, <1>5, <1>6, <1>8

\* the result of a multi-word operation is stored from r
LEMMA WideResultKeeps ==
    ASSUME Inv, NEW m, Good(m, Live), NEW r \in Allocatable, Vacant(m, r, Sym),
           NEW result \in Wide, NEW uses,
           Emit(StoreWords(Write(m, r, Junk), result, r), uses, {result})
    PROVE  Inv'
<1> DEFINE n == Write(m, r, Junk)
<1>1. r \in Reg /\ Vacant(m, r, Live) /\ result \in Sym
  BY AllocatableRegisters, Symbols DEF Vacant, Good
<1>2. Good(n, Live)
  BY <1>1, WriteGood
<1> HIDE DEF n
<1> QED  BY <1>1, <1>2, WideInMemory, WordsStoredKeeps DEF n

\* Multi-word addition, subtraction and logic.
LEMMA WideBinaryKeeps ==
    ASSUME Inv, NEW left \in MultiWord, NEW right \in MultiWord, NEW result \in Wide,
           WideBinary(left, right, result)
    PROVE  Inv'
<1> DEFINE w == WideLoaded(left, right)
<1>1. Good(w.m, Live) /\ w.acc \in Allocatable /\ Vacant(w.m, w.acc, Sym)
  BY WideLoadedGood
<1>2. Emit(StoreWords(Write(w.m, w.acc, Junk), result, w.acc), {left, right}, {result})
  BY DEF WideBinary
<1> HIDE DEF w
<1> QED  BY <1>1, <1>2, WideResultKeeps

\* Multi-word comparison.
LEMMA WideCompareKeeps ==
    ASSUME Inv, NEW left \in MultiWord, NEW right \in MultiWord, WideCompare(left, right)
    PROVE  Inv'
<1> DEFINE w == WideLoaded(left, right)
           n == Scratch(w.m, {w.acc, w.tmp})
<1>1. Good(w.m, Live) /\ w.acc \in Reg /\ w.tmp \in Reg
  BY WideLoadedGood, AllocatableRegisters
<1>2. Emit(n, {left, right}, {})
  BY DEF WideCompare
<1> HIDE DEF w
<1>3. Allocatable \ {w.acc, w.tmp} # {}
  BY <1>1, EnoughAllocatable
<1>4. Good(n, Live)
  BY <1>1, <1>3, ScratchGood
<1> HIDE DEF n
<1> QED  BY <1>2, <1>4, NothingDefinedKeeps

\* Multi-word comparison with zero.
LEMMA WideZeroCompareKeeps ==
    ASSUME Inv, NEW operand \in MultiWord, WideZeroCompare(operand)
    PROVE  Inv'
BY WideLoadedGood, NothingDefinedKeeps DEF WideZeroCompare

\* Multi-word shift: the count goes to rcx.
LEMMA WideShiftKeeps ==
    ASSUME Inv, NEW operand \in MultiWord, NEW count \in needed, NEW result \in Wide,
           WideShift(operand, count, result)
    PROVE  Inv'
<1> DEFINE first == StoreInMemory(Start, operand)
           stored == StoreInMemory(first, count)
           spilled == StoreRegisterValue(stored, Rcx)
           counted == LoadWord(spilled, count, Rcx, {})
           lo == Obtained(counted, {Rcx})
           m == Obtain(counted, {Rcx})
           hi == Obtained(m, {Rcx, lo})
           n == Obtain(m, {Rcx, lo})
           loaded == LoadWord(LoadWord(n, operand, lo, {}), operand, hi, {})
           reader == IF {operand, count} \cap Global = {} THEN "wide" ELSE "wideGlobal"
           counts == {<<Rcx, count>>}
           words == WideReads(loaded, lo, operand, hi, operand)
           read == Reads(words, reader, counts)
<1>1. /\ operand \in Sym /\ count \in Sym /\ Good(Start, Live) /\ Live \subseteq Sym
      /\ operand \in Live \cup Exempt /\ count \in Live \cup Exempt
      /\ Rcx \in Allocatable /\ Rcx \in Reg
  BY Operands DEF Inv, Good
<1>2. Good(first, Live)
  BY <1>1, StoreInMemoryGood
<1> HIDE DEF first
<1>3. Good(stored, Live)
  BY <1>1, <1>2, StoreInMemoryGood
<1>4. Emit(StoreWords(Write(read, lo, Junk), result, lo), {operand, count}, {result})
  BY DEF WideShift, ShiftLoaded, first
<1> HIDE DEF stored
<1>5. Good(spilled, Live) /\ Vacant(spilled, Rcx, Sym)
  BY <1>1, <1>3, StoreRegisterValueGood
<1> HIDE DEF spilled
<1>6. Good(counted, Live) /\ Carries(counted, Rcx, count)
  BY <1>1, <1>5, EnoughAllocatable, LoadWordGood, LoadWordValues DEF Vacant
<1> HIDE DEF counted
<1>7. /\ lo \in Allocatable \ {Rcx} /\ lo \in Reg /\ Good(m, Live) /\ Vacant(m, lo, Sym)
      /\ m.value = counted.value
  BY <1>1, EnoughAllocatable, <1>6, ObtainGood, AllocatableRegisters
<1> HIDE DEF lo, m
<1>8. /\ hi \in Allocatable \ {Rcx, lo} /\ Good(n, Live)
      /\ Vacant(n, lo, Sym) /\ Vacant(n, hi, Sym) /\ n.value = m.value
  BY <1>1, <1>7, EnoughAllocatable, ObtainGood, VacantIfFreed
<1> HIDE DEF hi, n
<1>9. /\ Good(loaded, Live) /\ Vacant(loaded, lo, Sym)
      /\ operand \notin Global =>
             /\ Carries(loaded, lo, operand) /\ Carries(loaded, hi, operand)
             /\ loaded.value[Rcx] = n.value[Rcx]
  BY <1>1, <1>7, <1>8, WordPairGood, VacantIfFreed
<1> HIDE DEF loaded
<1>10. /\ Good(words, Live) /\ Vacant(words, lo, Sym)
       /\ words.value = loaded.value
  BY <1>1, <1>7, <1>9, WideReadsGood, VacantIfFreed
<1> HIDE DEF words
<1>11. Good(read, Live) /\ Vacant(read, lo, Sym)
  <2>1. reader \in Reader /\ \A o \in counts : o[2] \in Sym \cup {VectorCount}
    BY <1>1 DEF Reader
  <2>2. reader \in Watched => Carried(words, counts)
    <3>1. "wideGlobal" \notin Watched
      BY DEF Watched
    <3>2. reader \in Watched => operand \notin Global
      BY <3>1
    <3> HIDE DEF reader
    <3>3. operand \notin Global => Carries(words, Rcx, count)
      BY <1>6, <1>7, <1>8, <1>9, <1>10, StillCarries
    <3> QED  BY <1>1, <3>2, <3>3, CarriedOne
  <2> HIDE DEF reader, counts
  <2> QED  BY <1>7, <1>10, <2>1, <2>2, ReadsGood, VacantIfFreed
<1> HIDE DEF read
<1> QED  BY <1>4, <1>7, <1>11, WideResultKeeps

\* widenInteger.
LEMMA WidenIntegerKeeps ==
    ASSUME Inv, NEW operand \in Word, NEW result \in Destination \cup Wide,
           WidenInteger(operand, result)
    PROVE  Inv'
<1> DEFINE stored == StoreInMemory(Start, operand)
           dest == Obtained(stored, {})
           one == LoadWord(Obtain(stored, {}), operand, dest, {})
           operands == {<<dest, operand>>}
           spilled == StoreRegisterValue(StoreRegisterValue(stored, Rax), Rdx)
           pair == LoadWord(spilled, operand, Rax, {})
           inRax == {<<Rax, operand>>}
           read == Reads(pair, "operand", inRax)
           sign == Write(read, Rdx, Junk)
<1>1. /\ operand \in Sym /\ result \in Sym /\ Good(Start, Live) /\ Live \subseteq Sym
      /\ operand \in Live \cup Exempt
      /\ {Rax, Rdx} \subseteq Allocatable /\ {Rax, Rdx} \subseteq Reg
  BY Operands DEF Good
<1>2. Good(stored, Live)
  BY <1>1, StoreInMemoryGood
<1>3. Emit(IF result \in Wide THEN StoreWords(sign, result, Rax)
           ELSE BindResult(Reads(one, "operand", operands), dest, result),
           {operand}, {result})
  BY DEF WidenInteger
<1> HIDE DEF stored
<1>4. CASE result \in Wide
  <2>1. Good(spilled, Live) /\ Vacant(spilled, Rax, Sym) /\ Vacant(spilled, Rdx, Sym)
    BY <1>1, <1>2, StoreRegisterValueGood, VacantIfFreed
  <2> HIDE DEF spilled
  <2>2. Good(pair, Live) /\ Vacant(pair, Rdx, Sym) /\ Carries(pair, Rax, operand)
    BY <1>1, <2>1, EnoughAllocatable, LoadWordGood, LoadWordValues, VacantIfFreed DEF Vacant
  <2> HIDE DEF pair
  <2>3. Carried(pair, inRax)
    BY <1>1, <2>2, CarriedOne
  <2> HIDE DEF inRax
  <2>4. Good(read, Live) /\ Vacant(read, Rdx, Sym)
    BY <1>1, <2>2, <2>3, OperandsReadGood, VacantIfFreed
  <2> HIDE DEF read
  <2>5. Good(sign, Live)
    BY <1>1, <2>4, WriteGood DEF Vacant
  <2>6. Emit(StoreWords(sign, result, Rax), {operand}, {result})
    BY <1>3, <1>4
  <2> HIDE DEF sign
  <2> QED  BY <1>1, <1>4, <2>5, <2>6, WideInMemory, WordsStoredKeeps
<1>5. CASE result \notin Wide
  <2>1. /\ Allocatable \ {} # {}
        /\ \A r \in Allocatable : Allocatable \ ({} \cup {r}) # {}
    BY EnoughAllocatable, AllocatableRegisters
  <2>2. /\ dest \in Allocatable /\ Good(one, Live) /\ Vacant(one, dest, Sym)
        /\ Carries(one, dest, operand)
    BY <1>1, <1>2, <2>1, ObtainedLoadWordGood
  <2>3. Good(one, Live \ {result}) /\ Carried(one, operands)
    BY <1>1, <2>2, GoodOfFewer, CarriedOne
  <2>4. Emit(BindResult(Reads(one, "operand", operands), dest, result), {operand}, {result})
    BY <1>3, <1>5
  <2> HIDE DEF one, dest, operands
  <2> QED  BY <1>1, <1>5, <2>2, <2>3, <2>4, ComputedKeeps DEF Emit
<1> QED  BY <1>4, <1>5

\* Copies of multi-word objects.
LEMMA WideCopyKeeps ==
    ASSUME Inv, NEW operand \in MultiWord, NEW result \in Sym, WideCopy(operand, result)
    PROVE  Inv'
<1> DEFINE stored == StoreInMemory(Start, operand)
           r == Obtained(stored, {})
           loaded == LoadWord(Obtain(stored, {}), operand, r, {})
           operands == {<<r, operand>>}
           read == Reads(loaded, "wide", operands)
<1>1. /\ operand \in Sym /\ Good(Start, Live) /\ InMemory(Start, result)
      /\ operand \in Live \cup Exempt
  BY Operands DEF WideCopy
<1>2. Good(stored, Live) /\ InMemory(stored, result)
  BY <1>1, StoreInMemoryGood, InMemoryIfFreed
<1>3. Emit(StoreWords(read, result, r), {operand}, {result})
  BY DEF WideCopy
<1> HIDE DEF stored
<1>4. /\ Allocatable \ {} # {}
      /\ \A q \in Allocatable : Allocatable \ ({} \cup {q}) # {}
  BY EnoughAllocatable, AllocatableRegisters
<1>5. /\ r \in Reg /\ Good(loaded, Live) /\ InMemory(loaded, result)
      /\ Carried(loaded, operands)
  BY <1>1, <1>2, <1>4, ObtainedLoadWordGood, InMemoryIfFreed, AllocatableRegisters, CarriedOne
<1> HIDE DEF r, loaded
<1>6. Good(read, Live) /\ InMemory(read, result)
  <2>1. "wide" \in Reader /\ \A o \in operands : o[2] \in Sym \cup {VectorCount}
    BY <1>1 DEF Reader
  <2> HIDE DEF operands
  <2> QED  BY <1>5, <2>1, ReadsGood, InMemoryIfFreed
<1> HIDE DEF read
<1> QED  BY <1>3, <1>5, <1>6, WordsStoredKeeps

\* Multi-word negation.
LEMMA WideMinusKeeps ==
    ASSUME Inv, NEW operand \in MultiWord, NEW result \in Wide, WideMinus(operand, result)
    PROVE  Inv'
<1> DEFINE lo == Obtained(Start, {})
           first == Obtain(Start, {})
           hi == Obtained(first, {lo})
           m == Obtain(first, {lo})
           n == Obtain(m, {lo, hi})
           zero == Obtained(m, {lo, hi})
           loaded == LoadWord(LoadWord(n, operand, lo, {}), operand, hi, {})
           zeroed == Write(loaded, zero, Junk)
           read == WideReads(zeroed, lo, operand, hi, operand)
<1>1. /\ operand \in Sym /\ result \in Sym /\ Good(Start, Live) /\ Live \subseteq Sym
      /\ operand \in Live \cup Exempt
  BY Operands DEF Good
<1>2. lo \in Allocatable /\ lo \in Reg /\ Good(first, Live) /\ Vacant(first, lo, Sym)
  BY <1>1, ObtainGood, EnoughAllocatable, AllocatableRegisters
<1>3. Emit(StoreWords(read, result, lo), {operand}, {result})
  BY DEF WideMinus
<1> HIDE DEF lo, first
<1>4. /\ hi \in Allocatable \ {lo} /\ hi \in Reg /\ Good(m, Live)
      /\ Vacant(m, lo, Sym) /\ Vacant(m, hi, Sym)
  BY <1>2, EnoughAllocatable, ObtainGood, VacantIfFreed, AllocatableRegisters
<1> HIDE DEF hi, m
<1>5. /\ zero \in Allocatable \ {lo, hi} /\ zero \in Reg /\ Good(n, Live) /\ Vacant(n, zero, Sym)
      /\ Vacant(n, lo, Sym) /\ Vacant(n, hi, Sym)
  BY <1>2, <1>4, EnoughAllocatable, ObtainGood, VacantIfFreed, AllocatableRegisters
<1> HIDE DEF zero, n
<1>6. /\ Good(loaded, Live) /\ Vacant(loaded, zero, Sym)
      /\ operand \notin Global => Carries(loaded, lo, operand) /\ Carries(loaded, hi, operand)
  BY <1>1, <1>2, <1>4, <1>5, WordPairGood, VacantIfFreed
<1> HIDE DEF loaded
<1>7. /\ Good(zeroed, Live)
      /\ operand \notin Global => Carries(zeroed, lo, operand) /\ Carries(zeroed, hi, operand)
  BY <1>1, <1>5, <1>6, WriteGood, <1>2, <1>4, WriteValues, StillCarries DEF Vacant
<1> HIDE DEF zeroed
<1>8. Good(read, Live)
  BY <1>1, <1>7, WideReadsGood
<1> HIDE DEF read
<1> QED  BY <1>1, <1>2, <1>3, <1>8, WideInMemory, WordsStoredKeeps

\* x87 and complex operations: all operands are moved to their homes.
LEMMA InMemoryOperationKeeps ==
    ASSUME Inv, NEW operands \in SUBSET needed, NEW result \in Destination \cup Wide,
           InMemoryOperation(operands, result)
    PROVE  Inv'
<1> DEFINE all == operands \cup {result}
           regs == {Start.bound[s] : s \in all} \ {None}
           spilled == SpillHolders(Start, regs, all)
           addressed == IF all \cap Global = {} THEN spilled ELSE Scratch(spilled, {})
           read == ReadsHomes(addressed, "operand", operands)
<1>1. /\ result \in Sym /\ operands \in SUBSET Sym /\ all \in SUBSET Sym /\ Good(Start, Live)
      /\ operands \subseteq Live \cup Exempt
  BY Operands DEF Inv
<1>2. Emit(DefineInMemory(read, result), operands, {result})
  BY DEF InMemoryOperation
<1>3. regs \in SUBSET Reg
  BY <1>1 DEF Good, Books, CacheType
<1>4. \A s \in all : Start.bound[s] # None => Start.bound[s] \in regs
  OBVIOUS
<1> HIDE DEF regs
<1>5. Good(spilled, Live) /\ \A s \in all : InMemory(spilled, s)
  <2>1. /\ Good(spilled, Live) /\ OnlyFreed(Start, spilled)
        /\ \A s \in all : spilled.bound[s] \notin regs
    BY <1>1, <1>3, SpillHoldersGood
  <2> QED  BY <1>1, <1>4, <2>1 DEF OnlyFreed, InMemory
<1> HIDE DEF spilled, all
<1>6. Good(addressed, Live) /\ \A s \in operands \cup {result} : InMemory(addressed, s)
  BY <1>5, ScratchGood, EnoughAllocatable, <1>1, InMemoryIfFreed DEF all
<1> HIDE DEF addressed
<1>7. Good(read, Live) /\ InMemory(read, result)
  <2>1. "operand" \in Reader
    BY DEF Reader
  <2>2. operands \subseteq addressed.home \cup Exempt
    BY <1>1, <1>6 DEF Good, Intact, Current
  <2> QED  BY <1>1, <1>6, <2>1, <2>2, ReadsHomesGood, InMemoryIfFreed
<1> HIDE DEF read
<1> QED  BY <1>1, <1>2, <1>7, StoredKeeps DEF Emit

\* vaStart, vaArg, vaCopy: every symbol is moved to its home.
LEMMA VaOperationKeeps ==
    ASSUME Inv, NEW lists \in SUBSET needed, NEW written \in SUBSET Sym, NEW scratches,
           VaOperation(lists, written, scratches)
    PROVE  Inv'
<1> DEFINE spilled == SpillGeneralPurposeRegisters(Start)
           emptied == EmptyGeneralPurposeRegisters(spilled)
           used == {r \in Allocatable : Cardinality({q \in Allocatable : q < r}) < scratches}
           dirty == [emptied EXCEPT !.dirtied = @ \cup (used \cap CalleeSaved)]
           read == ReadsHomes(dirty, "operand", lists)
           done == [read EXCEPT !.home = @ \cup written, !.value = [r \in Reg |-> Junk]]
           n == EmptyGeneralPurposeRegisters(done)
<1>1. Good(Start, Live) /\ lists \in SUBSET Sym /\ lists \subseteq Live \cup Exempt
  BY Operands DEF Inv
<1>2. Emit(n, lists, written)
  BY DEF VaOperation
<1>3. Good(spilled, Live) /\ AllInMemory(spilled)
  BY <1>1, SpillGeneralPurposeRegistersGood
<1> HIDE DEF spilled
<1>4. Good(emptied, Live) /\ AllInMemory(emptied)
  BY <1>3, EmptyGeneralPurposeRegistersGood
<1> HIDE DEF emptied
<1>5. used \subseteq Allocatable
  OBVIOUS
<1> HIDE DEF used
<1>6. Good(dirty, Live) /\ AllInMemory(dirty)
  BY <1>4, <1>5 DEF Good, Books, CacheType, Intact, Current, InMemory, AllInMemory,
         ReadsCurrent
<1> HIDE DEF dirty
<1>7. Good(read, Live) /\ AllInMemory(read)
  <2>1. "operand" \in Reader
    BY DEF Reader
  <2>2. lists \subseteq dirty.home \cup Exempt
    BY <1>1, <1>6 DEF Good, Intact, Current, AllInMemory
  <2> QED  BY <1>1, <1>6, <2>1, <2>2, ReadsHomesGood, InMemoryIfFreed DEF AllInMemory
<1> HIDE DEF read
<1>8. Good(done, Live \cup written) /\ AllInMemory(done)
  BY <1>7 DEF Good, Books, CacheType, Intact, Current, InMemory, AllInMemory,
         ReadsCurrent
<1> HIDE DEF done
<1>9. Good(n, Live \cup written)
  BY <1>8, EmptyGeneralPurposeRegistersGood
<1> HIDE DEF n
<1>10. (needed \cup written) \ Exempt \subseteq Live \cup written
  BY DEF Live
<1> QED  BY <1>2, <1>9, <1>10, EmitGood DEF Emit


----------------------------------------------------------------------------
(* Calls.                                                                  *)

\* Arguments are passed in caller-saved registers.
LEMMA CallSiteRegisters ==
    ASSUME NEW site \in CallSites
    PROVE  /\ site.sret # None => ArgRegs[1] \in ArgumentRegisters /\ site.sret \in Sym
           /\ \A i \in DOMAIN site.ints : ArgReg(site, i) \in ArgumentRegisters
           /\ \A i, j \in DOMAIN site.ints : ArgReg(site, i) = ArgReg(site, j) => i = j
           /\ site.sret # None => \A i \in DOMAIN site.ints : ArgReg(site, i) # ArgRegs[1]
           /\ Written(site) \subseteq Wide
<1>1. /\ site.ints \in Seq(Sym \ Wide) /\ site.sret \in Wide \cup {None}
      /\ Len(site.ints) + Cardinality(Written(site)) <= Len(ArgRegs)
  BY Calls DEF CallSite
<1>2. /\ ArgRegs \in Seq(CallerSaved)
      /\ \A i, j \in DOMAIN ArgRegs : ArgRegs[i] = ArgRegs[j] => i = j
  BY Registers
<1>3. CASE site.sret = None
  <2>1. Written(site) = {}
    BY <1>3, Symbols DEF Written
  <2>2. Cardinality(Written(site)) = 0
    BY <2>1, FS_EmptySet
  <2>3. ASSUME NEW i \in DOMAIN site.ints
        PROVE  i \in DOMAIN ArgRegs /\ ArgReg(site, i) = ArgRegs[i]
    BY <1>1, <1>2, <2>2 DEF ArgReg
  <2> QED  BY <1>2, <1>3, <2>1, <2>3 DEF ArgumentRegisters
<1>4. CASE site.sret # None
  <2>1. site.sret \in Sym /\ Written(site) = {site.sret}
    BY <1>1, <1>4, Symbols DEF Written
  <2>2. Cardinality(Written(site)) = 1
    BY <2>1, FS_Singleton
  <2>3. 1 \in DOMAIN ArgRegs
    BY <1>1, <1>2, <2>2
  <2>4. ASSUME NEW i \in DOMAIN site.ints
        PROVE  /\ i + 1 \in DOMAIN ArgRegs /\ ArgReg(site, i) = ArgRegs[i + 1]
               /\ i \in Nat /\ i + 1 # 1
    BY <1>1, <1>2, <2>2 DEF ArgReg
  <2>5. ASSUME NEW i \in DOMAIN site.ints, NEW j \in DOMAIN site.ints,
               ArgReg(site, i) = ArgReg(site, j)
        PROVE  i = j BY <1>2, <2>4, <2>5
  <2> QED  BY <1>1, <1>2, <1>4, <2>1, <2>3, <2>4, <2>5 DEF ArgumentRegisters
<1> QED  BY <1>3, <1>4

\* Neither the return register nor the one an indirect call goes through passes an
\* argument.
LEMMA ArgumentsApart ==
    /\ ArgumentRegisters \subseteq Allocatable /\ ArgumentRegisters \subseteq Reg
    /\ Rax \notin ArgumentRegisters /\ Target \notin ArgumentRegisters /\ Rax # Target
BY Registers, AllocatableRegisters DEF ArgumentRegisters

\* What an argument register has got is still there.
ArgumentsKept(m, n) == \A q \in ArgumentRegisters : n.value[q] = m.value[q]

\* What the call instruction finds in registers (see CallReads).
CallRegisters(site) ==
    {<<ArgReg(site, i), site.ints[i]>> : i \in DOMAIN site.ints}
        \cup {<<ArgRegs[1], s>> : s \in Written(site)}
        \cup {<<Target, s>> : s \in {site.target} \cap Sym}

\* The address of the object returned in memory is the first argument.
LEMMA SretGood ==
    ASSUME NEW m, NEW K, Good(m, K), NEW site \in CallSites, site.sret # None
    PROVE  LET n == Write(StoreRegisterValue(m, ArgRegs[1]), ArgRegs[1], site.sret)
           IN  /\ Good(n, K) /\ OnlyFreed(m, n) /\ n.value[ArgRegs[1]] = site.sret
               /\ \A q \in Reg : q # ArgRegs[1] => n.value[q] = m.value[q]
<1> DEFINE r == ArgRegs[1]
           n == StoreRegisterValue(m, r)
<1>1. r \in Reg /\ r \in Allocatable /\ site.sret \in Sym
  BY CallSiteRegisters, ArgumentsApart
<1> HIDE DEF r
<1>2. Good(n, K) /\ OnlyFreed(m, n) /\ Vacant(n, r, Sym) /\ n.value = m.value
  BY <1>1, StoreRegisterValueGood
<1> HIDE DEF n
<1>3. LET w == Write(n, r, site.sret) IN Good(w, K) /\ OnlyFreed(n, w)
  BY <1>1, <1>2, WriteGood DEF Vacant, Good
<1>4. LET w == Write(n, r, site.sret)
      IN  w.value[r] = site.sret /\ \A q \in Reg : q # r => w.value[q] = n.value[q]
  BY <1>1, <1>2, WriteValues
<1> QED  BY <1>2, <1>3, <1>4, FreedIsTransitive DEF n, r

\* Storing what is in an argument register, then loading the argument there,
\* disturbs no symbol.
LEMMA RegisterArgumentGood ==
    ASSUME NEW m, NEW K, Good(m, K), NEW site \in CallSites, NEW i \in {1, 2},
           Passed(site) \subseteq K \cup Exempt
    PROVE  LET n == RegisterArgument(m, site, i)
           IN  /\ Good(n, K)
               /\ i \in DOMAIN site.ints => Carries(n, ArgReg(site, i), site.ints[i])
               /\ \A q \in ArgumentRegisters :
                      (i \in DOMAIN site.ints => q # ArgReg(site, i)) =>
                          n.value[q] = m.value[q]
<1>0. site.ints \in Seq(Sym \ Wide)
  BY Calls DEF CallSite
<1>1. CASE i > Len(site.ints)
  BY <1>0, <1>1 DEF RegisterArgument
<1>2. CASE ~(i > Len(site.ints))
  <2> DEFINE r == ArgReg(site, i)
             s == site.ints[i]
             n == StoreRegisterValue(m, r)
             w == LoadWord(n, s, r, ArgumentRegisters)
  <2>1. i \in DOMAIN site.ints
    BY <1>0, <1>2
  <2>2. s \in Sym /\ s \in Passed(site)
    BY <1>0, <2>1 DEF Passed
  <2>3. r \in Reg /\ r \in Allocatable
    BY <2>1, CallSiteRegisters, ArgumentsApart
  <2>4. RegisterArgument(m, site, i) = w
    BY <1>2 DEF RegisterArgument
  <2> HIDE DEF r, s
  <2>5. Good(n, K) /\ Vacant(n, r, Sym) /\ n.value = m.value
    BY <2>3, StoreRegisterValueGood
  <2> HIDE DEF n
  <2>6. Vacant(n, r, K) /\ Allocatable \ (ArgumentRegisters \cup {r}) # {}
    BY <2>3, <2>5, EnoughAllocatable DEF Vacant, Good
  <2>7. Good(w, K)
    BY <2>2, <2>3, <2>5, <2>6, LoadWordGood
  <2>8. /\ Carries(w, r, s)
        /\ \A q \in Reg : q # r /\ q \in ArgumentRegisters => w.value[q] = n.value[q]
    BY <2>2, <2>3, <2>5, <2>6, LoadWordValues
  <2> HIDE DEF w
  <2> QED  BY <2>1, <2>4, <2>5, <2>7, <2>8, ArgumentsApart DEF r, s
<1> QED  BY <1>1, <1>2

\* An argument loaded into a scratch register disturbs no symbol.
LEMMA ScratchArgumentGood ==
    ASSUME NEW m, NEW K, Good(m, K), NEW s \in Sym, s \in K \cup Exempt
    PROVE  LET r == Obtained(m, ArgumentRegisters)
               n == Reads(LoadWord(Obtain(m, ArgumentRegisters), s, r, ArgumentRegisters),
                          "operand", {<<r, s>>})
           IN  Good(n, K) /\ OnlyFreed(m, n) /\ ArgumentsKept(m, n)
<1> DEFINE r == Obtained(m, ArgumentRegisters)
           loaded == LoadWord(Obtain(m, ArgumentRegisters), s, r, ArgumentRegisters)
           operands == {<<r, s>>}
<1>1. /\ Allocatable \ ArgumentRegisters # {}
      /\ \A q \in Allocatable : Allocatable \ (ArgumentRegisters \cup {q}) # {}
  BY EnoughAllocatable, AllocatableRegisters
<1>2. /\ Good(loaded, K) /\ OnlyFreed(m, loaded) /\ Carries(loaded, r, s)
      /\ \A q \in Reg : q \in ArgumentRegisters => loaded.value[q] = m.value[q]
  BY <1>1, ObtainedLoadWordGood
<1> HIDE DEF loaded, r
<1>3. Carried(loaded, operands) /\ ArgumentsKept(m, loaded)
  BY <1>2, CarriedOne, ArgumentsApart DEF ArgumentsKept
<1> HIDE DEF operands
<1>4. LET n == Reads(loaded, "operand", operands)
      IN  Good(n, K) /\ OnlyFreed(loaded, n) /\ n.value = loaded.value
  BY <1>2, <1>3, OperandsReadGood
<1> QED
  BY <1>2, <1>3, <1>4, FreedIsTransitive DEF loaded, operands, r, ArgumentsKept

\* Arguments on the stack go through scratch registers.
LEMMA StackArgumentGood ==
    ASSUME NEW m, NEW K, Good(m, K), NEW site \in CallSites, NEW i \in {1, 2},
           Passed(site) \subseteq K \cup Exempt
    PROVE  LET n == StackArgument(m, site, i)
           IN  Good(n, K) /\ OnlyFreed(m, n) /\ ArgumentsKept(m, n)
<1> DEFINE s == site.stack[i]
           r == Obtained(m, ArgumentRegisters)
           one == Scratch(m, ArgumentRegisters)
           two == Scratch(one, ArgumentRegisters \cup {r})
<1>1. CASE i > Len(site.stack)
  BY <1>1 DEF StackArgument, OnlyFreed, ArgumentsKept
<1>2. CASE ~(i > Len(site.stack)) /\ s \in Wide
  <2>1. Allocatable \ ArgumentRegisters # {}
    BY EnoughAllocatable
  <2>2. Good(one, K) /\ OnlyFreed(m, one) /\ r \in Reg /\ ArgumentsKept(m, one)
    BY <2>1, ScratchGood, AllocatableRegisters, ArgumentsApart DEF ArgumentsKept
  <2>3. StackArgument(m, site, i) = two
    BY <1>2 DEF StackArgument
  <2> HIDE DEF one, r
  <2> DEFINE kept == ArgumentRegisters \cup {r}
  <2>4. Allocatable \ kept # {}
    BY <2>2, EnoughAllocatable
  <2>5. ArgumentRegisters \subseteq kept
    OBVIOUS
  <2> HIDE DEF kept
  <2>6. LET n == Scratch(one, kept)
        IN  Good(n, K) /\ OnlyFreed(one, n) /\ ArgumentsKept(one, n)
    BY <2>2, <2>4, <2>5, ScratchGood, ArgumentsApart DEF ArgumentsKept
  <2> QED  BY <2>2, <2>3, <2>6, FreedIsTransitive DEF kept, ArgumentsKept
<1>3. CASE ~(i > Len(site.stack)) /\ s \notin Wide
  BY Calls, <1>3, ScratchArgumentGood DEF CallSite, Passed, StackArgument
<1> QED  BY <1>1, <1>2, <1>3

\* Arguments in vector registers go through scratch registers.
LEMMA VectorArgumentGood ==
    ASSUME NEW m, NEW K, Good(m, K), NEW site \in CallSites, NEW i \in {1, 2},
           Passed(site) \subseteq K \cup Exempt
    PROVE  LET n == VectorArgument(m, site, i)
           IN  Good(n, K) /\ OnlyFreed(m, n) /\ ArgumentsKept(m, n)
<1>1. CASE i > Len(site.vector)
  BY <1>1 DEF VectorArgument, OnlyFreed, ArgumentsKept
<1>2. CASE ~(i > Len(site.vector))
  BY Calls, <1>2, ScratchArgumentGood DEF CallSite, Passed, VectorArgument
<1> QED  BY <1>1, <1>2

\* rax is the least register: once nothing lives there, it is the first obtained.
LEMMA SpareRax ==
    ASSUME NEW m, ~ContainsUnstored(m, Rax)
    PROVE  Obtained(m, {Target}) = Rax
<1> DEFINE free == {r \in Allocatable \ {Target} : ~ContainsUnstored(m, r)}
<1>1. Rax \in free /\ free \subseteq Nat
  BY AllocatableRegisters, RegisterNumbers, ArgumentsApart
<1>2. \A r \in free : Rax <= r
  BY Registers, AllocatableRegisters
<1>3. Obtained(m, {Target}) = First(free)
  BY <1>1 DEF Obtained
<1> HIDE DEF free
<1>4. \A r \in free : (\A q \in free : r <= q) => r = Rax
  BY <1>1, <1>2
<1> QED  BY <1>1, <1>2, <1>3, <1>4 DEF First

\* The register of an indirect call is loaded last, and no other register of the
\* call changes with it; a global's address goes through rax.
LEMMA TargetLoaded ==
    ASSUME NEW m, NEW L, Good(m, L), NEW s \in Sym, s \in L \cup Exempt,
           ~ContainsUnstored(m, Rax)
    PROVE  LET n == LoadWord(m, s, Target, {})
           IN  /\ Carries(n, Target, s) /\ ArgumentsKept(m, n)
               /\ s \notin Global => n.value[Rax] = m.value[Rax]
<1> DEFINE n == LoadWord(m, s, Target, {})
<1>1. Target \in Reg /\ Rax \in Reg /\ Target \in Allocatable
  BY AllocatableRegisters
<1>2. Allocatable \ ({} \cup {Target}) # {} /\ Allocatable \ {Target} # {}
  BY <1>1, EnoughAllocatable
<1>3. Carries(n, Target, s)
  BY <1>1, <1>2, LoadWordValues
<1>4. CASE s \notin Global
  <2>1. \A q \in Reg : q # Target => n.value[q] = m.value[q]
    BY <1>1, <1>2, <1>4, LoadWordValues
  <2> HIDE DEF n
  <2> QED  BY <1>1, <1>3, <2>1, ArgumentsApart DEF ArgumentsKept, n
<1>5. CASE s \in Global
  <2> DEFINE o == Obtain(m, {Target})
             w == Write(o, Rax, Junk)
  <2>1. Good(o, L) /\ o.value = m.value /\ OnlyFreed(m, o)
    BY <1>2, ObtainGood
  <2>2. Obtained(m, {Target}) = Rax /\ InMemory(m, s)
    BY <1>5, SpareRax DEF Good, Books, InMemory
  <2>3. {} \cup {Target} = {Target}
    OBVIOUS
  <2>4. n = Load(w, s, Target)
    BY <1>5, <2>2, <2>3 DEF LoadWord, Scratch
  <2>5. Good(w, L) /\ InMemory(w, s)
    <3>1. Scratch(m, {Target}) = w
      BY <2>2 DEF Scratch
    <3>2. Good(Scratch(m, {Target}), L) /\ OnlyFreed(m, Scratch(m, {Target}))
      BY <1>2, ScratchGood
    <3> HIDE DEF w
    <3> QED  BY <2>2, <3>1, <3>2, InMemoryIfFreed
  <2> HIDE DEF o
  <2>6. \A q \in Reg : q # Rax => w.value[q] = o.value[q]
    BY <1>1, <2>1, WriteValues
  <2> HIDE DEF w
  <2>7. \A q \in Reg : q # Target => Load(w, s, Target).value[q] = w.value[q]
    BY <1>1, <2>5, LoadValues
  <2> HIDE DEF n
  <2> QED  BY <1>1, <1>3, <1>5, <2>1, <2>4, <2>6, <2>7, ArgumentsApart DEF ArgumentsKept, n
<1> QED  BY <1>4, <1>5

\* What has been passed in registers when the first k integer arguments are loaded.
PassedInRegisters(m, site, k) ==
    \A i \in DOMAIN site.ints : i <= k => Carries(m, ArgReg(site, i), site.ints[i])

\* It is still there while the argument registers are left alone.
LEMMA StillPassed ==
    ASSUME NEW m, NEW n, NEW site \in CallSites, NEW k, PassedInRegisters(m, site, k),
           ArgumentsKept(m, n)
    PROVE  PassedInRegisters(n, site, k)
BY CallSiteRegisters, StillCarries DEF PassedInRegisters, ArgumentsKept

\* Loading the integer arguments puts each in its register.
LEMMA RegisterArgumentsGood ==
    ASSUME NEW m, NEW K, Good(m, K), NEW site \in CallSites,
           Passed(site) \subseteq K \cup Exempt
    PROVE  LET n == RegisterArgument(RegisterArgument(m, site, 1), site, 2)
           IN  Good(n, K) /\ PassedInRegisters(n, site, 2)
<1> DEFINE one == RegisterArgument(m, site, 1)
           n == RegisterArgument(one, site, 2)
<1>1. \A i \in DOMAIN site.ints : i <= 2 => i \in {1, 2}
  BY Calls DEF CallSite
<1>2. /\ Good(one, K)
      /\ 1 \in DOMAIN site.ints => Carries(one, ArgReg(site, 1), site.ints[1])
  BY RegisterArgumentGood
<1> HIDE DEF one
<1>3. /\ Good(n, K)
      /\ 2 \in DOMAIN site.ints => Carries(n, ArgReg(site, 2), site.ints[2])
      /\ \A q \in ArgumentRegisters :
             (2 \in DOMAIN site.ints => q # ArgReg(site, 2)) => n.value[q] = one.value[q]
  BY <1>2, RegisterArgumentGood
<1> HIDE DEF n
<1>4. 1 \in DOMAIN site.ints => Carries(n, ArgReg(site, 1), site.ints[1])
  BY CallSiteRegisters, <1>3, <1>2, StillCarries
<1> QED  BY <1>1, <1>3, <1>4 DEF PassedInRegisters, n, one

\* At the call, no symbol that is read after it, or that the callee may reach,
\* lives in a register the callee may overwrite, and the registers the callee reads
\* have what they are to pass.
LEMMA CallArgumentsGood ==
    ASSUME NEW L, Good(Start, L), NEW K, K \subseteq L, NEW site \in CallSites,
           Passed(site) \subseteq L \cup Exempt,
           NEW live \in SUBSET Sym, K \subseteq live
    PROVE  LET n == CallArguments(site, live)
           IN  /\ Good(n, K) /\ Carried(n, CallRegisters(site))
               /\ site.target \notin Global => n.value[Rax] = VectorCount
               /\ \A s \in SpilledBeforeCall(live) : n.bound[s] \notin CallerSaved \cup {Rax}
<1> DEFINE sret(m) == IF site.sret = None THEN m
                      ELSE Write(StoreRegisterValue(m, ArgRegs[1]), ArgRegs[1], site.sret)
           first == sret(Start)
           ints == RegisterArgument(RegisterArgument(first, site, 1), site, 2)
           rax == StoreRegisterValue(ints, Rax)
           spilled == SpillHolders(rax, CallerSaved, SpilledBeforeCall(live))
           stack1 == StackArgument(spilled, site, 1)
           stacked == StackArgument(stack1, site, 2)
           vector1 == VectorArgument(stacked, site, 1)
           vectors == VectorArgument(vector1, site, 2)
           count == Write(vectors, Rax, VectorCount)
           counted == sret(count)
           n == IF site.target = None THEN counted
                ELSE LoadWord(counted, site.target, Target, {})
<1> DEFINE Out(m) == \A s \in SpilledBeforeCall(live) : m.bound[s] \notin CallerSaved \cup {Rax}
           Spare(m) == ~ContainsUnstored(m, Rax)
           InPlace(m) == PassedInRegisters(m, site, 2)
<1>1. CallArguments(site, live) = n
  BY DEF CallArguments
<1>2. \A m : Good(m, L) => Good(sret(m), L) /\ OnlyFreed(m, sret(m))
  BY SretGood DEF OnlyFreed
<1>3. /\ SpilledBeforeCall(live) \subseteq Sym /\ K \subseteq SpilledBeforeCall(live)
      /\ K \subseteq Sym
  BY Symbols DEF SpilledBeforeCall, MayAlias
<1>4. CallerSaved \subseteq Reg /\ Rax \in Reg /\ Rax \in Allocatable
      /\ None \notin Reg /\ Target \in CallerSaved /\ Target \in Allocatable
  BY AllocatableRegisters, Registers, Symbols
<1>5. /\ \A p, q : OnlyFreed(p, q) /\ Out(p) => Out(q)
      /\ \A p, q : OnlyFreed(p, q) /\ Spare(p) /\ Good(p, L) => Spare(q)
  BY <1>4, <1>3 DEF OnlyFreed, Good, Books, CacheType, ContainsUnstored, InMemory
<1>6. /\ \A m : site.sret # None /\ Good(m, L) => sret(m).value[ArgRegs[1]] = site.sret
      /\ \A m : Good(m, L) => sret(m).value[Rax] = m.value[Rax]
      /\ \A m : Good(m, L) /\ InPlace(m) => InPlace(sret(m))
  <2>1. ASSUME NEW m, Good(m, L), site.sret # None
        PROVE  /\ sret(m).value[ArgRegs[1]] = site.sret
               /\ \A q \in Reg : q # ArgRegs[1] => sret(m).value[q] = m.value[q]
    BY <2>1, SretGood
  <2>2. ASSUME NEW m, Good(m, L), site.sret = None PROVE sret(m) = m
    BY <2>2
  <2> HIDE DEF sret
  <2>3. ASSUME NEW m, Good(m, L), InPlace(m) PROVE InPlace(sret(m))
    BY <2>2, <2>3, <2>1, CallSiteRegisters, ArgumentsApart, StillCarries DEF PassedInRegisters
  <2>4. site.sret # None => ArgRegs[1] # Rax
    BY CallSiteRegisters, ArgumentsApart
  <2> QED  BY <1>4, <2>1, <2>2, <2>3, <2>4
<1>7. \A p, q : InPlace(p) /\ ArgumentsKept(p, q) => InPlace(q)
  BY StillPassed
<1> HIDE DEF sret, InPlace
<1>8. Good(first, L)
  BY <1>2
<1> HIDE DEF first
<1>9. Good(ints, L) /\ InPlace(ints)
  BY <1>8, RegisterArgumentsGood DEF InPlace
<1> HIDE DEF ints
<1>10. Good(rax, L) /\ Vacant(rax, Rax, Sym) /\ Spare(rax) /\ InPlace(rax)
  <2>1. /\ Good(rax, L) /\ Vacant(rax, Rax, Sym) /\ Spare(rax)
        /\ rax.value = ints.value
    BY <1>4, <1>9, StoreRegisterValueGood
  <2> HIDE DEF rax, Spare
  <2> QED  BY <1>7, <1>9, <2>1 DEF ArgumentsKept
<1> HIDE DEF rax
<1>11. /\ Good(spilled, L) /\ Out(spilled) /\ Vacant(spilled, Rax, Sym)
       /\ Spare(spilled) /\ InPlace(spilled)
  <2>1. /\ Good(spilled, L) /\ OnlyFreed(rax, spilled)
        /\ spilled.value = rax.value
        /\ \A s \in SpilledBeforeCall(live) : spilled.bound[s] \notin CallerSaved
    BY <1>3, <1>4, <1>10, SpillHoldersGood
  <2> HIDE DEF spilled
  <2>2. Vacant(spilled, Rax, Sym)
    BY <1>4, <1>10, <2>1, VacantIfFreed
  <2>3. Out(spilled)
    BY <1>3, <2>1, <2>2 DEF Vacant
  <2>4. ArgumentsKept(rax, spilled)
    BY <2>1 DEF ArgumentsKept
  <2> HIDE DEF Out, Spare
  <2> QED  BY <1>5, <1>7, <1>10, <2>1, <2>2, <2>3, <2>4
<1> HIDE DEF spilled, Out, Spare
<1>12. Good(stack1, L) /\ OnlyFreed(spilled, stack1) /\ ArgumentsKept(spilled, stack1)
  BY <1>11, StackArgumentGood
<1> HIDE DEF stack1
<1>13. Good(stacked, L) /\ OnlyFreed(stack1, stacked) /\ ArgumentsKept(stack1, stacked)
  BY <1>12, StackArgumentGood
<1> HIDE DEF stacked
<1>14. Good(vector1, L) /\ OnlyFreed(stacked, vector1) /\ ArgumentsKept(stacked, vector1)
  BY <1>13, VectorArgumentGood
<1> HIDE DEF vector1
<1>15. Good(vectors, L) /\ OnlyFreed(vector1, vectors) /\ ArgumentsKept(vector1, vectors)
  BY <1>14, VectorArgumentGood
<1> HIDE DEF vectors
<1>16. Out(vectors) /\ Spare(vectors) /\ InPlace(vectors) /\ Vacant(vectors, Rax, Sym)
  <2>1. InPlace(vectors)
    BY <1>7, <1>11, <1>12, <1>13, <1>14, <1>15
  <2> QED
    BY <1>4, <1>5, <1>11, <1>12, <1>13, <1>14, <1>15, <2>1, VacantIfFreed
<1>17. /\ Good(count, L) /\ OnlyFreed(vectors, count)
       /\ count.value[Rax] = VectorCount /\ InPlace(count)
  <2>1. Good(count, L) /\ OnlyFreed(vectors, count)
    BY <1>3, <1>4, <1>15, <1>16, WriteGood DEF Vacant, Good
  <2>2. /\ count.value[Rax] = VectorCount
        /\ \A q \in Reg : q # Rax => count.value[q] = vectors.value[q]
    BY <1>4, <1>15, WriteValues
  <2> HIDE DEF count
  <2>3. ArgumentsKept(vectors, count)
    BY <2>2, ArgumentsApart DEF ArgumentsKept
  <2> QED  BY <1>7, <1>16, <2>1, <2>2, <2>3
<1> HIDE DEF count
<1>18. /\ Good(counted, L) /\ Out(counted) /\ Spare(counted) /\ InPlace(counted)
       /\ counted.value[Rax] = VectorCount
       /\ site.sret # None => counted.value[ArgRegs[1]] = site.sret
  BY <1>2, <1>5, <1>6, <1>15, <1>16, <1>17
<1> HIDE DEF counted
<1>19. Good(n, K) /\ Out(n)
  <2>1. Good(counted, K)
    BY <1>18, GoodOfFewer
  <2>2. CASE site.target = None
    BY <1>18, <2>1, <2>2
  <2>3. CASE site.target # None
    <3>1. site.target \in Sym
      BY <2>3, Calls DEF CallSite
    <3>2. Vacant(counted, Target, K)
      BY <1>3, <1>4, <1>18 DEF Vacant, Out
    <3>3. Allocatable \ ({} \cup {Target}) # {}
      BY <1>4, AllocatableRegisters, EnoughAllocatable
    <3>4. Good(n, K) /\ OnlyFreed(counted, n)
      BY <1>4, <2>1, <2>3, <3>1, <3>2, <3>3, LoadWordGood
    <3> QED  BY <1>5, <1>18, <3>4
  <2> QED  BY <2>2, <2>3
<1>20. /\ InPlace(n)
       /\ site.sret # None => n.value[ArgRegs[1]] = site.sret
       /\ site.target # None => Carries(n, Target, site.target)
       /\ site.target \notin Global => n.value[Rax] = VectorCount
  <2>1. CASE site.target = None
    BY <1>18, <2>1
  <2>2. CASE site.target # None
    <3>1. site.target \in Sym /\ site.target \in Passed(site)
      BY <2>2, Calls DEF CallSite, Passed
    <3>2. /\ n = LoadWord(counted, site.target, Target, {})
          /\ ~ContainsUnstored(counted, Rax)
      BY <1>18, <2>2 DEF Spare
    <3>3. /\ Carries(n, Target, site.target) /\ ArgumentsKept(counted, n)
          /\ site.target \notin Global => n.value[Rax] = counted.value[Rax]
      BY <1>18, <3>1, <3>2, TargetLoaded
    <3> HIDE DEF n
    <3>4. site.sret # None => n.value[ArgRegs[1]] = site.sret
      BY <1>18, <3>3, CallSiteRegisters DEF ArgumentsKept
    <3> QED  BY <1>7, <1>18, <3>3, <3>4
  <2> QED  BY <2>1, <2>2
<1> HIDE DEF n
<1>21. Carried(n, CallRegisters(site))
  <2>1. /\ site.ints \in Seq(Sym \ Wide) /\ Len(site.ints) <= 2
        /\ Written(site) \subseteq Sym BY Calls DEF CallSite, MaxArgs, Written
  <2>2. \A i \in DOMAIN site.ints :
            site.ints[i] \in Sym /\ Carries(n, ArgReg(site, i), site.ints[i])
    BY <2>1, <1>20 DEF InPlace, PassedInRegisters
  <2>3. \A s \in Written(site) : Carries(n, ArgRegs[1], s)
    BY <1>20, Symbols DEF Written, Carries
  <2>4. \A s \in {site.target} \cap Sym : Carries(n, Target, s)
    BY <1>20, Symbols
  <2>5. ASSUME NEW o \in CallRegisters(site)
        PROVE  o[2] \in Sym \cup {VectorCount} /\ Carries(n, o[1], o[2])
    BY <2>1, <2>2, <2>3, <2>4 DEF CallRegisters
  <2> QED  BY <2>5 DEF Carried
<1> QED  BY <1>1, <1>19, <1>20, <1>21 DEF Out

\* The call instruction disturbs nothing itself.
LEMMA CallReadsGood ==
    ASSUME NEW m, NEW K, Good(m, K), NEW site \in CallSites,
           Carried(m, CallRegisters(site)),
           site.target \notin Global => m.value[Rax] = VectorCount
    PROVE  LET n == CallReads(m, site) IN Good(n, K) /\ OnlyFreed(m, n)
<1> DEFINE one == Reads(m, "call", CallRegisters(site))
           reader == IF site.target \in Global THEN "callGlobal" ELSE "call"
           count == {<<Rax, VectorCount>>}
           n == Reads(one, reader, count)
<1>1. /\ \A o \in CallRegisters(site) : o[2] \in Sym \cup {VectorCount}
      /\ \A o \in count : o[2] \in Sym \cup {VectorCount}
  BY DEF Carried
<1>2. /\ reader \in Reader /\ "call" \in Reader
      /\ reader \in Watched => site.target \notin Global
  BY DEF Reader, Watched
<1>3. CallReads(m, site) = n
  BY DEF CallReads, CallRegisters
<1> HIDE DEF reader
<1>4. Good(one, K) /\ OnlyFreed(m, one) /\ one.value = m.value
  BY <1>1, <1>2, ReadsGood
<1> HIDE DEF one
<1>5. reader \in Watched => Carried(one, count)
  BY <1>1, <1>2, <1>4 DEF Carried, Carries
<1> HIDE DEF count
<1>6. Good(n, K) /\ OnlyFreed(one, n)
  BY <1>1, <1>2, <1>4, <1>5, ReadsGood DEF count
<1> QED  BY <1>3, <1>4, <1>6, FreedIsTransitive

\* The callee-saved registers keep what they hold, unless it is an object the
\* callee changed; and with callee-saved registers in use those are exempt.
LEMMA CalledGood ==
    ASSUME NEW m, NEW K, Good(m, K), K \cap Exempt = {}, NEW site \in CallSites,
           NEW object \in exposed \cup {None}, exposed \subseteq Always,
           object \in K \cup Exempt \cup {None},
           \A s \in K : m.bound[s] \notin CallerSaved \cup {Rax}
    PROVE  Good(Called(m, site, object), K)
<1>0. ASSUME NEW s \in K, m.bound[s] # None
      PROVE  /\ m.bound[s] \in CalleeSaved /\ m.bound[s] \in Reg /\ m.value[m.bound[s]] = s
             /\ s # object
  <2> DEFINE r == m.bound[s]
  <2>1. /\ s \in Sym /\ Current(m, s) /\ s \notin Exempt
        /\ r \in Reg /\ r \notin CallerSaved \cup {Rax} /\ r \in Allocatable /\ m.value[r] = s
    BY <1>0 DEF Good, Intact, Books, CacheType, Current, InMemory
  <2>2. r \in CalleeSaved /\ UseCalleeSaved
    BY <2>1, Registers DEF Allocatable
  <2>3. s \notin Wide \cup Global
    BY <1>0 DEF Good, Books
  <2>4. s \in exposed => s \in Exempt
    BY <2>2, <2>3 DEF Exempt, Always, MayAlias
  <2>5. s # None
    BY <2>1, Symbols
  <2> QED  BY <2>1, <2>2, <2>4, <2>5
<1> DEFINE written == Written(site) \cup ({object} \cap Sym)
           after == ReadsHomes(m, "callee", {object} \cap Sym)
           dropped == {r \in CallerSaved : m.held[r] # None}
           n == Called(m, site, object)
<1>1. Good(after, K) /\ after.bound = m.bound /\ after.held = m.held
      /\ after.value = m.value /\ after.home = m.home /\ after.dirtied = m.dirtied
  <2>1. "callee" \in Reader /\ {object} \cap Sym \in SUBSET Sym
    BY DEF Reader
  <2>3. {object} \cap Sym \subseteq m.home \cup Exempt
    BY <1>0, Symbols DEF Good, Intact, Current, InMemory
  <2>2. Good(after, K)
    BY <2>1, <2>3, ReadsHomesGood
  <2> QED  BY <2>2 DEF ReadsHomes, Good, Books, CacheType
<1>2. written \subseteq Sym /\ CallerSaved \subseteq Reg
  BY AllocatableRegisters, Symbols DEF Written
<1>3. n = [after EXCEPT
             !.home = @ \cup written,
             !.value = [r \in Reg |-> IF r \notin CalleeSaved \/ @[r] \in written
                                        THEN Junk ELSE @[r]],
             !.held = [r \in Reg |-> IF r \in dropped THEN None ELSE @[r]],
             !.bound = [s \in Sym |-> IF @[s] \in dropped /\ m.held[@[s]] = s
                                        THEN None ELSE @[s]]]
  BY DEF Called
<1> HIDE DEF n, after
<1>4. n \in CacheType
  BY <1>1, <1>2, <1>3 DEF Good, Books, CacheType
<1>5. /\ n.home = m.home \cup written /\ n.dirtied = m.dirtied
      /\ \A r \in Reg : n.value[r] = IF r \notin CalleeSaved \/ m.value[r] \in written
                                       THEN Junk ELSE m.value[r]
      /\ \A r \in Reg : n.held[r] = IF r \in dropped THEN None ELSE m.held[r]
      /\ \A s \in Sym : n.bound[s] = IF m.bound[s] \in dropped /\ m.held[m.bound[s]] = s
                                       THEN None ELSE m.bound[s]
  BY <1>1, <1>3 DEF Good, Books, CacheType
<1>6. Books(n) BY <1>5, <1>4, Symbols DEF Good, Books, CacheType
<1>7. ASSUME NEW s \in K PROVE Current(n, s)
  <2>1. s \in Sym /\ Current(m, s) /\ s \notin Exempt
    BY DEF Good, Intact
  <2>2. CASE m.bound[s] = None
    BY <1>5, <2>1, <2>2 DEF Current, InMemory
  <2>3. CASE m.bound[s] # None
    <3> DEFINE r == m.bound[s]
    <3>1. r \in Reg /\ r \in CalleeSaved /\ m.value[r] = s /\ s # object
      BY <1>0, <2>3
    <3>2. r \notin CallerSaved
      BY <3>1, Registers
    <3>3. s \notin Wide
      BY <2>3 DEF Good, Books
    <3>4. s \notin written
      BY <3>1, <3>3, CallSiteRegisters
    <3>5. n.bound[s] = r /\ n.value[r] = s
      BY <1>5, <2>1, <3>1, <3>2, <3>4
    <3> QED  BY <2>1, <2>3, <3>5 DEF Current, InMemory
  <2> QED  BY <2>2, <2>3
<1>8. ReadsCurrent(n)
  BY <1>1, <1>3 DEF Good, ReadsCurrent
<1> QED  BY <1>6, <1>7, <1>8 DEF n, Good, Intact

\* callProcedure, callProcedureIndirect.
LEMMA CallKeeps ==
    ASSUME Inv, NEW site \in CallSites, NEW object \in exposed \cup {None},
           NEW returns \in BOOLEAN, Call(site, object, returns)
    PROVE  Inv'
<1>1. PICK dying \in SUBSET (Temp \cap Passed(site)) :
          /\ cache' = Settle(FinishInstruction(
                          Called(CallReads(CallArguments(site, needed \ dying), site),
                                 site, object), dying))
          /\ needed' = needed \ dying
  BY DEF Call
<1>2. exposed' = exposed /\ phase' \in {"retrieve", "body"} /\ phase \in {"body", "label"}
  BY DEF Call
<1> DEFINE live == needed \ dying
           K == live \ Exempt
           arguments == CallArguments(site, live)
           ready == CallReads(arguments, site)
           called == Called(ready, site, object)
           finished == FreeHolders(called, Reg, dying)
<1>3. /\ live \in SUBSET Sym /\ K \subseteq live /\ K \subseteq Live /\ K \cap Exempt = {}
      /\ dying \in SUBSET Sym /\ K \subseteq Sym /\ dying \cap Always = {}
  BY Symbols DEF Inv, Live
<1>4. Good(Start, Live) /\ Passed(site) \subseteq Live \cup Exempt
  BY StartGood DEF Call, Live
<1>5. /\ Good(arguments, K) /\ Carried(arguments, CallRegisters(site))
      /\ site.target \notin Global => arguments.value[Rax] = VectorCount
      /\ \A s \in K : arguments.bound[s] \notin CallerSaved \cup {Rax}
  <2>1. K \subseteq SpilledBeforeCall(live)
    BY <1>3 DEF SpilledBeforeCall
  <2> HIDE DEF live, K
  <2>2. LET n == CallArguments(site, live)
        IN  /\ Good(n, K) /\ Carried(n, CallRegisters(site))
            /\ site.target \notin Global => n.value[Rax] = VectorCount
            /\ \A s \in SpilledBeforeCall(live) : n.bound[s] \notin CallerSaved \cup {Rax}
    BY <1>3, <1>4, CallArgumentsGood
  <2> QED  BY <2>1, <2>2
<1> HIDE DEF arguments
<1>6. Good(ready, K) /\ \A s \in K : ready.bound[s] \notin CallerSaved \cup {Rax}
  BY <1>5, CallReadsGood, <1>3, RegisterNumbers, Registers DEF OnlyFreed
<1> HIDE DEF ready
<1>7. Good(called, K) BY <1>2, <1>3, <1>6, CalledGood DEF Inv
<1> HIDE DEF called
<1>8. Good(finished, K)
  <2>1. Good(finished, (K \ dying) \cup (K \cap called.home))
    BY <1>3, <1>7, FreeHoldersGood
  <2>2. K \subseteq (K \ dying) \cup (K \cap called.home)
    OBVIOUS
  <2> HIDE DEF finished, K
  <2> QED  BY <2>1, <2>2, GoodOfFewer
<1>9. cache' = Settle(finished)
  BY <1>1 DEF FinishInstruction, called, ready, arguments
<1> HIDE DEF finished
<1>10. Good(cache', K)
  BY <1>8, <1>9, SettleGood
<1>11. needed' \subseteq Sym /\ Always \subseteq needed' /\ exposed' \subseteq Always
  BY <1>1, <1>2, <1>3, Symbols DEF Inv
<1> QED  BY <1>1, <1>2, <1>10, <1>11, InvAfter

\* bindGprExtended loads back a value its home has.
LEMMA BindGprExtendedGood ==
    ASSUME NEW m, NEW K, Good(m, K), NEW s \in K
    PROVE  Good(BindGprExtended(m, s), K)
<1>1. CASE s \notin Narrow
  BY <1>1 DEF BindGprExtended
<1>2. CASE s \in Narrow
  <2> DEFINE r == Obtained(m, {})
             loaded == LoadWord(Obtain(m, {}), s, r, {})
             operands == {<<r, s>>}
             read == Reads(loaded, "operand", operands)
  <2>1. s \in Sym \ Wide /\ s \in Sym
    BY <1>2, Symbols DEF Good
  <2>2. Allocatable \ {} # {} /\ \A q \in Allocatable : Allocatable \ ({} \cup {q}) # {}
    BY EnoughAllocatable, AllocatableRegisters
  <2>3. /\ r \in Allocatable /\ Good(loaded, K) /\ Vacant(loaded, r, Sym)
        /\ Carries(loaded, r, s)
    BY <2>1, <2>2, ObtainedLoadWordGood
  <2>4. BindGprExtended(m, s) = BindResult(read, r, s)
    BY <1>2 DEF BindGprExtended
  <2> HIDE DEF loaded, r
  <2>8. Carried(loaded, operands)
    BY <2>1, <2>3, CarriedOne
  <2> HIDE DEF operands
  <2>5. Good(read, K) /\ Vacant(read, r, Sym)
    BY <2>3, <2>8, OperandsReadGood, VacantIfFreed, AllocatableRegisters
  <2> HIDE DEF read
  <2>6. Good(BindResult(read, r, s), K \cup {s})
    BY <2>1, <2>3, <2>5, BindResultGood DEF Vacant
  <2>7. K \cup {s} = K
    OBVIOUS
  <2> QED  BY <2>4, <2>6, <2>7
<1> QED  BY <1>1, <1>2

\* retrieveProcedureReturnValue.
LEMMA RetrieveKeeps ==
    ASSUME Inv, NEW result \in Retrieved, NEW vector \in BOOLEAN, Retrieve(result, vector)
    PROVE  Inv'
<1> DEFINE scratch == Scratch(Start, {Rax, Rdx})
           from == IF vector THEN scratch ELSE Start
           stored == DefineInMemory(from, result)
           n == BindGprExtended(stored, result)
           K == Live \cup {result}
<1>1. /\ result \in Sym /\ Good(Start, Live) /\ InMemory(Start, result)
      /\ {Rax, Rdx} \subseteq Reg
  BY Symbols, StartGood, AllocatableRegisters DEF Retrieved, Retrieve, SameBooks, InMemory
<1>2. /\ cache' = Settle(n) /\ needed' = needed \cup {result} /\ phase' = "body"
      /\ exposed' = exposed /\ phase = "retrieve"
  BY DEF Retrieve
<1>3. Good(from, Live) /\ InMemory(from, result)
  BY <1>1, EnoughAllocatable, ScratchGood, InMemoryIfFreed
<1> HIDE DEF from
<1>4. Good(stored, K)
  BY <1>1, <1>3, DefineInMemoryGood
<1> HIDE DEF stored
<1>5. Good(n, K)
  BY <1>4, BindGprExtendedGood
<1> HIDE DEF n
<1>6. Good(cache', K)
  BY <1>2, <1>5, SettleGood
<1>7. Good(cache', needed' \ Exempt)
  <2>1. needed' \ Exempt \subseteq K
    BY <1>2 DEF Live
  <2> HIDE DEF K
  <2> QED  BY <1>6, <2>1, GoodOfFewer
<1>8. needed' \subseteq Sym /\ Always \subseteq needed' /\ exposed' \subseteq Always
  BY <1>1, <1>2 DEF Inv
<1> QED  BY <1>2, <1>7, <1>8, InvAfter

\* returnFromProcedure: only the globals are read after it.
LEMMA ReturnKeeps ==
    ASSUME Inv, NEW operand \in needed \cup {None}, NEW kind \in ReturnKind,
           operand = None <=> kind = "void", Return(operand, kind)
    PROVE  Inv'
<1> DEFINE K == Global \cup Wide
           L == K \ Exempt
           rax == LoadWord(Start, operand, Rax, {Rax, Rdx})
           both == LoadWord(rax, operand, Rdx, {Rax, Rdx})
           r == Obtained(Start, {Rax, Rdx})
           vector == LoadWord(Obtain(Start, {Rax, Rdx}), operand, r, {Rax, Rdx})
           scratch == Scratch(Start, {Rax})
           stored == StoreInMemory(scratch, operand)
           addressed == Scratch(stored, {Obtained(Start, {Rax})})
<1>1. /\ cache' = Settle(Returned(operand, kind)) /\ needed' = Global
      /\ phase' = "returned" /\ exposed' = exposed /\ phase \in {"body", "label"}
  BY DEF Return
<1>2. /\ Good(Start, Live) /\ L \subseteq Live /\ L \subseteq Sym /\ Wide \subseteq L
      /\ Rax \in Reg /\ Rdx \in Reg /\ Rax \in Allocatable /\ Rdx \in Allocatable
      /\ Rax # Rdx /\ "operand" \in Reader /\ Global \subseteq Sym
      /\ operand # None => operand \in Sym /\ operand \in Live \cup Exempt
  BY <1>1, StartGood, AllocatableRegisters, Registers, Symbols DEF Inv, Live, Always, MayAlias,
     Exempt, Reader
<1>3. \A m, q : Good(m, L) /\ q \in Reg => Vacant(m, q, L)
  BY <1>2, RegisterNumbers DEF Good, Books, Vacant
<1>4. /\ Allocatable \ {Rax, Rdx} # {} /\ Allocatable \ {Rax} # {}
      /\ \A q \in Allocatable : Allocatable \ ({Rax, Rdx} \cup {q}) # {}
  BY <1>2, EnoughAllocatable, AllocatableRegisters
<1> HIDE DEF K, L
<1>5. Good(Returned(operand, kind), L)
  <2>1. CASE kind = "void"
    BY <1>2, <2>1, GoodOfFewer DEF Returned
  <2>2. CASE kind = "integer"
    <3>1. operand \in Sym /\ operand \in Live \cup Exempt
      BY <1>2, <2>2
    <3>2. Good(Start, L) /\ Vacant(Start, Rax, L) /\ Good(rax, L)
      BY <1>2, <1>3, <1>4, <3>1, GoodOfFewer, LoadWordGood
    <3>3. Carries(rax, Rax, operand)
      BY <1>2, <1>4, <3>1, LoadWordValues
    <3> HIDE DEF rax
    <3>4. CASE operand \notin Wide
      <4>1. Returned(operand, kind) = Reads(rax, "operand", {Rax} \X {operand})
        BY <2>2, <3>4 DEF Returned, rax
      <4>2. {Rax} \X {operand} = {<<Rax, operand>>}
        OBVIOUS
      <4> DEFINE operands == {<<Rax, operand>>}
      <4>3. Carried(rax, operands)
        BY <3>1, <3>3, CarriedOne
      <4> HIDE DEF operands
      <4>4. Good(Reads(rax, "operand", operands), L)
        BY <3>2, <4>3, OperandsReadGood
      <4> QED  BY <4>1, <4>2, <4>4 DEF operands
    <3>5. CASE operand \in Wide
      <4>1. Returned(operand, kind) = Reads(both, "operand", {Rax, Rdx} \X {operand})
        BY <2>2, <3>5 DEF Returned, rax
      <4>2. {Rax, Rdx} \X {operand} = {<<Rax, operand>>, <<Rdx, operand>>}
        OBVIOUS
      <4> DEFINE operands == {<<Rax, operand>>, <<Rdx, operand>>}
      <4>3. Good(both, L)
        BY <1>2, <1>3, <1>4, <3>1, <3>2, LoadWordGood
      <4>4. /\ Carries(both, Rdx, operand)
            /\ \A q \in Reg : q # Rdx /\ q \in {Rax, Rdx} => both.value[q] = rax.value[q]
        BY <1>2, <1>4, <3>1, <3>2, <3>5, LoadWordValues
      <4>5. Carries(both, Rax, operand)
        BY <1>2, <3>3, <4>4, StillCarries
      <4> HIDE DEF both
      <4>6. Carried(both, operands)
        BY <3>1, <4>4, <4>5, CarriedPair
      <4> HIDE DEF operands
      <4>7. Good(Reads(both, "operand", operands), L)
        BY <4>3, <4>6, OperandsReadGood
      <4> QED  BY <4>1, <4>2, <4>7 DEF operands
    <3> QED  BY <3>4, <3>5
  <2>3. CASE kind = "vector"
    <3> DEFINE operands == {<<r, operand>>}
    <3>1. operand \in Sym /\ operand \in Live \cup Exempt
      BY <1>2, <2>3
    <3>2. Good(vector, Live) /\ Carries(vector, r, operand)
      BY <1>2, <1>4, <3>1, ObtainedLoadWordGood
    <3>3. Returned(operand, kind) = Reads(vector, "operand", operands)
      BY <2>3 DEF Returned
    <3> HIDE DEF vector, r
    <3>4. Carried(vector, operands)
      BY <3>1, <3>2, CarriedOne
    <3> HIDE DEF operands
    <3>5. Good(Reads(vector, "operand", operands), Live)
      BY <3>2, <3>4, OperandsReadGood
    <3> QED  BY <1>2, <3>3, <3>5, GoodOfFewer
  <2>4. CASE kind = "x87"
    <3> DEFINE m == StoreInMemory(Start, operand)
    <3>1. operand \in Sym /\ operand \in Live \cup Exempt
      BY <1>2, <2>4
    <3>2. Good(m, Live) /\ InMemory(m, operand)
      BY <1>2, <3>1, StoreInMemoryGood
    <3>3. Returned(operand, kind) = ReadsHomes(m, "operand", {operand})
      BY <2>4 DEF Returned
    <3> HIDE DEF m
    <3>4. {operand} \subseteq m.home \cup Exempt
      BY <3>1, <3>2 DEF Good, Intact, Current
    <3>5. Good(ReadsHomes(m, "operand", {operand}), Live)
      BY <1>2, <3>1, <3>2, <3>4, ReadsHomesGood
    <3> QED  BY <1>2, <3>3, <3>5, GoodOfFewer
  <2>5. CASE kind = "memory"
    <3>1. operand \in Sym /\ operand \in Live \cup Exempt
      BY <1>2, <2>5
    <3>2. Good(scratch, Live) /\ Obtained(Start, {Rax}) \in Reg
      BY <1>2, <1>4, ScratchGood, AllocatableRegisters
    <3>3. Returned(operand, kind) = ReadsHomes(addressed, "operand", {operand})
      BY <2>5 DEF Returned, Scratch
    <3> HIDE DEF scratch
    <3>4. Good(stored, Live) /\ InMemory(stored, operand)
      BY <3>1, <3>2, StoreInMemoryGood
    <3> HIDE DEF stored
    <3>5. Allocatable \ {Obtained(Start, {Rax})} # {}
      BY <3>2, EnoughAllocatable
    <3>6. Good(addressed, Live) /\ OnlyFreed(stored, addressed)
      BY <3>4, <3>5, ScratchGood
    <3> HIDE DEF addressed
    <3>7. {operand} \subseteq addressed.home \cup Exempt
      BY <3>1, <3>4, <3>6, InMemoryIfFreed DEF Good, Intact, Current
    <3>8. Good(ReadsHomes(addressed, "operand", {operand}), Live)
      BY <1>2, <3>1, <3>6, <3>7, ReadsHomesGood
    <3> QED  BY <1>2, <3>3, <3>8, GoodOfFewer
  <2> QED  BY <2>1, <2>2, <2>3, <2>4, <2>5 DEF ReturnKind
<1>6. Good(cache', needed' \ Exempt) BY <1>1, <1>5, SettleGood, GoodOfFewer DEF K, L
<1>7. exposed' \subseteq Always /\ needed' \subseteq Sym
  BY <1>1, <1>2 DEF Inv
<1> QED  BY <1>1, <1>6, <1>7, InvAfter

----------------------------------------------------------------------------
(* Control flow.                                                           *)

\* Both ends of an edge agree: what is live at the label has been written back,
\* and then forgetting every other binding leaves nothing in a register.
LEMMA EdgeGood ==
    ASSUME NEW m, NEW K, Good(m, K), NEW live \in SUBSET Sym
    PROVE  LET spilled == AcrossEdge(m, live)
               n == DropDeadBindings(spilled)
           IN  Good(spilled, K) /\ Good(n, K \cap live) /\ AllInMemory(n)
<1> DEFINE spilled == AcrossEdge(m, live)
           n == DropDeadBindings(spilled)
           L == (K \ Sym) \cup (K \cap spilled.home)
<1>1. Good(spilled, K) /\ \A s \in live : spilled.bound[s] \notin Reg
  BY SpillHoldersGood DEF AcrossEdge
<1> HIDE DEF spilled
<1>2. \A s \in K \cap live : s \in spilled.home
  BY <1>1 DEF Good, Books, CacheType, InMemory, Intact, Current
<1>3. Good(n, L)
  BY <1>1, FreeHoldersGood DEF DropDeadBindings
<1>4. AllInMemory(n)
  <2>1. Books(spilled) /\ spilled.bound \in [Sym -> Reg \cup {None}]
    BY <1>1 DEF Good, Books, CacheType
  <2>2. /\ OnlyFreed(spilled, n)
        /\ \A s \in Sym : spilled.bound[s] \in Reg => InMemory(n, s)
    BY <2>1, FreeHoldersBooks DEF DropDeadBindings
  <2> HIDE DEF n
  <2> QED  BY <2>1, <2>2 DEF AllInMemory, InMemory, OnlyFreed
<1>5. K \cap live \subseteq L
  BY <1>2
<1> HIDE DEF n, L
<1>6. Good(n, K \cap live)
  BY <1>3, <1>5, GoodOfFewer
<1> QED  BY <1>1, <1>4, <1>6 DEF n, spilled

\* What is live at a label may be read on the path to it.
LEMMA LiveInNeeded ==
    ASSUME Inv, phase \in {"body", "label"}, NEW live \in LiveIn
    PROVE  live \in SUBSET Sym /\ Live \cap live = live \ Exempt /\ Always \subseteq live
BY Symbols DEF Inv, LiveIn, Live

\* label.
LEMMA LabelKeeps ==
    ASSUME Inv, NEW live \in LiveIn, Label(live)
    PROVE  Inv'
<1> DEFINE n == DropDeadBindings(AcrossEdge(Start, live))
<1>1. /\ cache' = Settle(n) /\ needed' = live /\ phase' = "label"
      /\ exposed' = exposed /\ phase \in {"body", "label"}
  BY DEF Label
<1>2. live \in SUBSET Sym /\ Live \cap live = live \ Exempt /\ Always \subseteq live
  BY <1>1, LiveInNeeded
<1>3. Good(n, live \ Exempt) /\ AllInMemory(n)
  BY <1>2, StartGood, EdgeGood
<1> HIDE DEF n
<1>4. Good(cache', live \ Exempt) /\ AllInMemory(cache')
  BY <1>1, <1>3, SettleGood DEF SameBooks, AllInMemory, InMemory
<1>5. exposed' \subseteq Always
  BY <1>1 DEF Inv
<1> QED  BY <1>1, <1>2, <1>4, <1>5, InvAfter

\* jump, taken or not.
LEMMA JumpKeeps ==
    ASSUME Inv, NEW live \in LiveIn, NEW taken \in BOOLEAN, Jump(live, taken)
    PROVE  Inv'
<1> DEFINE m == AcrossEdge(Start, live)
           n == DropDeadBindings(m)
<1>1. /\ cache' = Settle(IF taken THEN n ELSE m)
      /\ needed' = IF taken THEN live ELSE needed
      /\ phase' = IF taken THEN "label" ELSE "body"
      /\ exposed' = exposed /\ phase \in {"body", "label"}
  BY DEF Jump
<1>2. live \in SUBSET Sym /\ Live \cap live = live \ Exempt /\ Always \subseteq live
  BY <1>1, LiveInNeeded
<1>3. Good(m, Live) /\ Good(n, live \ Exempt) /\ AllInMemory(n)
  BY <1>2, StartGood, EdgeGood
<1> HIDE DEF m, n
<1>6. exposed' \subseteq Always /\ needed \subseteq Sym /\ Always \subseteq needed
  BY <1>1 DEF Inv
<1>4. CASE taken
  BY <1>1, <1>3, <1>4, SettleGood, <1>2, <1>6, InvAfter DEF SameBooks, AllInMemory, InMemory
<1>5. CASE ~taken BY <1>1, <1>3, <1>5, SettleGood, <1>6, InvAfter DEF Live
<1> QED  BY <1>4, <1>5

----------------------------------------------------------------------------
(* Procedures.                                                             *)

\* Between procedures everything is in its home.
LEMMA UnboundGood ==
    Good(Unbound, Sym) /\ AllInMemory(Unbound)
BY Symbols DEF Unbound, CacheType, Good, Books, Intact, Current, AllInMemory, InMemory,
   ReadsCurrent

\* Distinct formals arrive in distinct registers.
LEMMA EnteredGood ==
    ASSUME NEW formals \in Seq(Cacheable), NEW first \in {0, 1},
           first + Len(formals) <= Len(ArgRegs), NEW variadic \in BOOLEAN
    PROVE  Good(Entered(formals, first, variadic), Sym)
<1> DEFINE place(s) == CHOOSE i \in DOMAIN formals : formals[i] = s
           in(s) == \E i \in DOMAIN formals : formals[i] = s /\ s \notin Narrow
           register == [s \in Sym |-> IF in(s) THEN ArgRegs[first + place(s)] ELSE None]
           arrived == [r \in Reg |-> IF \E s \in Sym : register[s] = r
                                       THEN CHOOSE s \in Sym : register[s] = r ELSE None]
           bound == [Unbound EXCEPT
               !.held = arrived, !.bound = register,
               !.value = [r \in Reg |-> IF arrived[r] = None THEN Junk ELSE arrived[r]],
               !.home = {s \in Sym : register[s] = None}]
<1>1. ASSUME NEW s \in Sym, in(s)
      PROVE  /\ place(s) \in DOMAIN formals /\ formals[place(s)] = s
             /\ first + place(s) \in DOMAIN ArgRegs
             /\ ArgRegs[first + place(s)] \in Allocatable
             /\ s \in Cacheable
  <2>1. PICK i \in DOMAIN formals : formals[i] = s
    BY <1>1
  <2>2. place(s) \in DOMAIN formals /\ formals[place(s)] = s
    BY <2>1
  <2> HIDE DEF place
  <2>3. first + place(s) \in DOMAIN ArgRegs
    BY <2>2, Registers
  <2>4. ArgRegs[first + place(s)] \in CallerSaved
    BY <2>3, Registers
  <2> QED  BY <2>2, <2>3, <2>4, AllocatableRegisters
<1>2. ASSUME NEW s \in Sym, NEW q \in Sym, in(s), in(q), register[s] = register[q]
      PROVE  s = q
  <2>1. first + place(s) = first + place(q)
    BY SMTT(30), <1>1, <1>2, Registers
  <2>2. place(s) = place(q)
    <3>1. place(s) \in Nat /\ place(q) \in Nat
      BY SMTT(30), <1>1, <1>2
    <3> HIDE DEF place
    <3> QED  BY <2>1, <3>1
  <2> QED  BY <1>1, <1>2, <2>2
<1>3. \A s \in Sym : /\ register[s] = None <=> ~in(s)
                     /\ in(s) => register[s] \in Allocatable
  BY <1>1, AllocatableRegisters, RegisterNumbers
<1>4. \A s \in Sym : in(s) => s \in Cacheable
  BY <1>1
<1>5. register \in [Sym -> Reg \cup {None}]
  BY <1>3, AllocatableRegisters
<1> HIDE DEF in
<1>6. \A s, q \in Sym : register[s] # None /\ register[s] = register[q] => s = q
  BY <1>2, <1>3
<1> HIDE DEF register
<1>7. arrived \in [Reg -> Sym \cup {None}]
  OBVIOUS
<1>8. \A s \in Sym : register[s] # None => arrived[register[s]] = s
  BY <1>5, <1>6
<1> HIDE DEF arrived
<1>9. /\ bound.held = arrived /\ bound.bound = register /\ bound.dirtied = {}
      /\ bound.home = {s \in Sym : register[s] = None}
      /\ \A r \in Reg : bound.value[r] = IF arrived[r] = None THEN Junk ELSE arrived[r]
  BY DEF Unbound
<1>10. bound \in CacheType
  BY <1>5, <1>7 DEF Unbound, CacheType
<1> HIDE DEF bound
<1>11. Books(bound) BY <1>3, <1>4, Symbols, <1>8, <1>9, <1>10 DEF Cacheable, Books
<1>12. ASSUME NEW s \in Sym PROVE Current(bound, s)
  BY <1>9, <1>5, <1>8, Symbols DEF Current, InMemory
<1>13. Good(bound, Sym) BY <1>11, <1>12 DEF bound, Unbound, ReadsCurrent, Good, Intact
<1> DEFINE spilled == SpillGeneralPurposeRegisters(bound)
<1>14. Good(spilled, Sym) /\ AllInMemory(spilled)
  BY <1>13, SpillGeneralPurposeRegistersGood
<1> HIDE DEF spilled
<1>15. Good(EmptyGeneralPurposeRegisters(spilled), Sym)
  BY <1>14, EmptyGeneralPurposeRegistersGood
<1>16. Entered(formals, first, variadic) =
           IF variadic THEN EmptyGeneralPurposeRegisters(spilled) ELSE bound
  BY DEF Entered, spilled, bound, arrived, register, in, place
<1> QED  BY <1>13, <1>15, <1>16

\* A narrow formal is loaded back extended.
LEMMA FormalGood ==
    ASSUME NEW m, Good(m, Sym), NEW formals \in Seq(Cacheable), NEW i \in Nat \ {0}
    PROVE  Good(Formal(m, formals, i), Sym)
BY BindGprExtendedGood DEF Formal, Cacheable

\* startProcedure.
LEMMA StartProcedureKeeps ==
    ASSUME Inv, NEW formals \in Formals, NEW sret \in BOOLEAN, NEW variadic \in BOOLEAN,
           StartProcedure(formals, sret, variadic)
    PROVE  Inv'
<1> DEFINE first == IF sret THEN 1 ELSE 0
           names == {formals[i] : i \in DOMAIN formals}
           entered == Entered(formals, first, variadic)
           one == Formal(entered, formals, 1)
           two == Formal(one, formals, 2)
<1>1. formals \in Seq(Cacheable)
  <2>1. <<>> \in Seq(Cacheable)
    OBVIOUS
  <2>2. \A s \in Cacheable : <<s>> \in Seq(Cacheable)
    OBVIOUS
  <2>3. \A s, q \in Cacheable : <<s, q>> \in Seq(Cacheable)
    OBVIOUS
  <2>4. CASE formals \in (Cacheable \ Temp) \X (Cacheable \ Temp)
    <3>1. /\ formals = <<formals[1], formals[2]>>
          /\ formals[1] \in Cacheable /\ formals[2] \in Cacheable
      BY <2>4
    <3> QED  BY <2>3, <3>1, Zenon
  <2> QED  BY <2>1, <2>2, <2>4, Zenon DEF Formals
<1>2. /\ first + Len(formals) <= Len(ArgRegs) /\ cache' = Settle(two)
      /\ \E live \in SUBSET names : needed' = Always \cup live
      /\ phase' = "body" /\ exposed' = exposed
  BY DEF StartProcedure
<1>3. names \subseteq Sym
  BY <1>1 DEF Cacheable
<1>4. Good(entered, Sym)
  BY <1>1, <1>2, EnteredGood
<1> HIDE DEF entered
<1>5. Good(one, Sym)
  BY <1>1, <1>4, FormalGood
<1> HIDE DEF one
<1>6. Good(two, Sym)
  BY <1>1, <1>5, FormalGood
<1> HIDE DEF two
<1>7. Good(cache', Sym)
  BY <1>2, <1>6, SettleGood
<1>8. needed' \subseteq Sym /\ Always \subseteq needed'
  BY <1>2, <1>3, Symbols DEF Always, MayAlias
<1>9. Good(cache', needed' \ Exempt)
  BY <1>7, <1>8, GoodOfFewer
<1>10. exposed' \subseteq Always
  BY <1>2 DEF Inv
<1> QED  BY <1>2, <1>8, <1>9, <1>10, InvAfter

\* The globals are among the symbols that are always needed.
LEMMA AlwaysAreSymbols ==
    Always \subseteq Sym /\ Global \subseteq Always
BY Symbols DEF Always, MayAlias

\* endProcedure.
LEMMA EndProcedureKeeps ==
    ASSUME Inv, EndProcedure
    PROVE  Inv'
<1>1. /\ cache' = Unbound /\ needed' = Always /\ exposed' = Global /\ phase' = "idle"
  BY DEF EndProcedure
<1>2. Books(Unbound) /\ AllInMemory(Unbound) /\ \A s \in Sym : Current(Unbound, s)
  BY UnboundGood DEF Good, Intact
<1>3. Books(cache)' /\ AllInMemory(cache)'
  BY <1>1, <1>2 DEF Books, CacheType, AllInMemory, InMemory
<1>4. ReadsCurrent(cache)'
  BY <1>1 DEF Unbound, ReadsCurrent
<1>5. Intact(cache, Live)' /\ Live' \subseteq Sym
  BY <1>1, <1>2, AlwaysAreSymbols DEF Intact, Current, InMemory, Live
<1>6. Good(cache, Live)'
  BY <1>3, <1>4, <1>5 DEF Good
<1> QED  BY <1>1, <1>3, <1>6, AlwaysAreSymbols DEF Inv

\* The machine starts in the invariant.
LEMMA InvInit ==
    Init => Inv
BY UnboundGood, AlwaysAreSymbols, GoodOfFewer DEF Init, Inv, Live

----------------------------------------------------------------------------
(* Every step.                                                             *)

\* The instructions on integers and pointers keep the invariant,
LEMMA IntegerStepKeeps ==
    ASSUME Inv, IntegerStep PROVE Inv'
<1>1. ASSUME NEW left \in Word, NEW right \in Word, NEW result \in Destination,
             \/ GprBinary(left, right, result) \/ Mul(left, right, result)
             \/ Div(left, right, result) \/ Mod(left, right, result)
             \/ Shift(left, right, result)
      PROVE  Inv'
  BY <1>1, GprBinaryKeeps, MulDivModKeeps, ShiftKeeps
<1>2. ASSUME NEW left \in Word, NEW right \in Word, Compare(left, right) PROVE Inv'
  BY <1>2, CompareKeeps
<1>3. ASSUME NEW operand \in Word, ZeroCompare(operand) \/ StepLvalue(operand) PROVE Inv'
  BY <1>3, ZeroCompareKeeps, StepLvalueKeeps
<1> QED
  BY <1>1, <1>2, <1>3, UnaryKeeps, WidenIntegerKeeps, AssignSymbolKeeps,
     AssignConstantKeeps, Zenon
  DEF IntegerStep

\* those on floating point numbers,
LEMMA FloatStepKeeps ==
    ASSUME Inv, FloatStep PROVE Inv'
BY FloatBinaryKeeps, FloatCompareKeeps, FloatZeroCompareKeeps, FloatMinusKeeps,
   NumericConvertKeeps, Zenon
DEF FloatStep

\* those on addresses,
LEMMA AddressStepKeeps ==
    ASSUME Inv, AddressStep PROVE Inv'
BY LoadAddressKeeps, FieldAddressKeeps, IndexAddressKeeps, PointerDifferenceKeeps,
   AddressOfKeeps, AllocaBytesKeeps, DereferenceKeeps, LvalueAssignKeeps DEF AddressStep

\* those on multi-word and coprocessor values,
LEMMA WideStepKeeps ==
    ASSUME Inv, WideStep PROVE Inv'
<1>1. CASE \/ \E left, right \in MultiWord, result \in Wide :
                  WideBinary(left, right, result)
           \/ \E operand \in MultiWord, count \in needed, result \in Wide :
                  WideShift(operand, count, result)
           \/ \E left, right \in MultiWord : WideCompare(left, right)
           \/ \E operand \in MultiWord : WideZeroCompare(operand)
           \/ \E operand \in MultiWord, result \in Wide : WideMinus(operand, result)
  BY <1>1, WideBinaryKeeps, WideShiftKeeps, WideCompareKeeps, WideZeroCompareKeeps,
     WideMinusKeeps, Zenon
<1>2. ASSUME NEW operand \in MultiWord, NEW result \in Wide \cup (Computed \cap Temp),
             WideCopy(operand, result)
      PROVE  Inv' BY Symbols, <1>2, WideCopyKeeps
<1>3. ASSUME NEW left \in needed, NEW right \in needed, NEW result \in Destination \cup Wide,
             InMemoryOperation({left, right}, result)
      PROVE  Inv'
  BY <1>3, InMemoryOperationKeeps
<1>4. ASSUME NEW list \in needed, VaStart(list) PROVE Inv'
  BY Symbols, <1>4, VaOperationKeeps DEF VaStart
<1>5. ASSUME NEW list \in needed, NEW result \in Computed \cap Temp, VaArg(list, result)
      PROVE  Inv' BY Symbols, <1>5, VaOperationKeeps DEF VaArg
<1>6. ASSUME NEW to \in needed, NEW from \in needed, VaCopy(to, from) PROVE Inv'
  BY Symbols, <1>6, VaOperationKeeps DEF VaCopy
<1> QED  BY <1>1, <1>2, <1>3, <1>4, <1>5, <1>6, Zenon DEF WideStep

\* and calls, returns, labels, jumps and the ends of a procedure.
LEMMA ControlStepKeeps ==
    ASSUME Inv, ControlStep PROVE Inv'
BY CallKeeps, RetrieveKeeps, ReturnKeeps, LabelKeeps, JumpKeeps, StartProcedureKeeps,
   EndProcedureKeeps DEF ControlStep

\* The invariant is inductive.
LEMMA InvStep ==
    Inv /\ [Next]_vars => Inv'
<1> SUFFICES ASSUME Inv, [Next]_vars PROVE Inv'
  OBVIOUS
<1>1. CASE Next
  BY <1>1, IntegerStepKeeps, FloatStepKeeps, AddressStepKeeps, WideStepKeeps,
     ControlStepKeeps DEF Next
<1>2. CASE UNCHANGED vars
  BY <1>2
  DEF vars, Inv, Live, Good, Books, CacheType, Intact, Current, AllInMemory, InMemory,
      ReadsCurrent, Exempt
<1> QED  BY <1>1, <1>2

\* In every state of every execution the books agree, and what the rest of the
\* path may read is current where the machine says it is: the handlers of
\* StackMachine may be combined in any order, on any operands.
THEOREM InvHolds == Spec => []Inv
<1> QED  BY InvInit, InvStep, PTL DEF Spec

\* The machine never leaves its state space, whatever is obtained, stored or freed
\* (get64BitRegisterExcluding always finds a register, see EnoughRegisters).
THEOREM TypeCorrect == Spec => []TypeOK
<1>1. Inv => TypeOK
  BY DEF Inv, Good, Books, TypeOK
<1> QED  BY <1>1, InvHolds, PTL

\* The two books agree, Register::valueHeld and Value::assignedRegister: no two
\* symbols ever live in one register.
THEOREM BooksAgree == Spec => []BoundIsHeld
<1>1. Inv => BoundIsHeld
  BY DEF Inv, Good, Books, BoundIsHeld
<1> QED  BY <1>1, InvHolds, PTL

\* Globals and multi-word objects never live in a register (assignRegisterTo,
\* bindResult).
THEOREM NeverBound == Spec => []MemoryObjectsUnbound
<1>1. Inv => MemoryObjectsUnbound
  BY DEF Inv, Good, Books, MemoryObjectsUnbound, InMemory
<1> QED  BY <1>1, InvHolds, PTL

\* A symbol that is read later is where the machine says it is, with its current
\* value: no spill is missing and none comes too late, on any path.
THEOREM CacheIsCoherent == Spec => []Coherent
<1>1. Inv => Coherent
  BY DEF Inv, Good, Intact, Live, Coherent
<1> QED  BY <1>1, InvHolds, PTL

\* Whatever path reaches a label, nothing lives in a register there and every live
\* symbol has been written back (label, jump).
THEOREM HomesAtLabels == Spec => []JoinFindsHomes
<1>1. Inv => JoinFindsHomes
  BY DEF Inv, Good, Intact, Current, Live, AllInMemory, JoinFindsHomes
<1> QED  BY <1>1, InvHolds, PTL

\* A procedure that does not save the callee-saved registers never writes one.
THEOREM CalleeSavedUntouched == Spec => []CalleeSavedPreserved
<1>1. Inv => CalleeSavedPreserved
  BY DEF Allocatable, Inv, Good, Books, CacheType, CalleeSavedPreserved
<1> QED  BY <1>1, InvHolds, PTL

\* Every operand an instruction reads is read where its current value is, a call
\* finds its arguments, its target and the count of vector registers in the registers
\* that pass them, and a callee finds in memory what its caller last wrote to an
\* object: no handler takes a register it has just loaded (materializeExcluding,
\* get64BitRegisterExcluding, emitCallArguments, spillCallerSavedRegisters).
THEOREM ReadsAreCurrent == Spec => []EachReadCurrent
<1>1. Inv => EachReadCurrent
  BY DEF Watched, Inv, Good, ReadsCurrent, EachReadCurrent, OperandsCurrent,
     WideOperandsIntact, CallRegistersIntact, CalleeSeesCallerWrites
<1> QED  BY <1>1, InvHolds, PTL

=============================================================================
