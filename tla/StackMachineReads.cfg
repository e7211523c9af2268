SPECIFICATION Spec
CONSTANTS
    t = t  u = u  v = v  x = x  g = g  wl = wl  gw = gw
    None = None  Junk = Junk  VectorCount = VectorCount
    Reg <- UnoptimizedReg
    CallerSaved = {2, 3, 4}
    CalleeSaved = {1}
    ArgRegs <- TwoArguments
    Rax = 0  Rcx = 2  Rdx = 3  Target = 4
    UseCalleeSaved = FALSE
    Sym = {t, v, x, g, wl, gw}
    Temp = {t}
    Narrow = {}
    Wide = {wl, gw}
    Global = {g, gw}
    AddressTaken = {x}
    Computed = {t}
    CallSites <- ReadCalls
INVARIANT EveryReadCurrent
