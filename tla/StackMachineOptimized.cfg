SPECIFICATION Spec
CONSTANTS
    t = t  u = u  v = v  x = x  g = g  wl = wl  gw = gw
    None = None  Junk = Junk  VectorCount = VectorCount
    Reg <- OptimizedReg
    CallerSaved = {2, 3}
    CalleeSaved = {1}
    ArgRegs <- OneArgument
    Rax = 0  Rcx = 2  Rdx = 3  Target = 2
    UseCalleeSaved = TRUE
    Sym = {u, v, x}
    Temp = {u}
    Narrow = {u}
    Wide = {}
    Global = {}
    AddressTaken = {x}
    Computed = {u}
    CallSites <- OptimizedCalls
INVARIANT BoundIsHeld
INVARIANT EachReadCurrent
INVARIANT JoinFindsHomes
