--------------------------- MODULE MCStackMachine ---------------------------
(***************************************************************************)
(* Small instances of StackMachine.  Five registers in the order the code  *)
(* allocates them: rax, rbx (callee-saved), rcx, rdx, r10.  The optimized  *)
(* instances leave r10 out, so that four registers can be allocated with   *)
(* and without optimization, and indirect calls go through rcx.            *)
(***************************************************************************)
EXTENDS StackMachine

CONSTANTS t,  \* a temp
          u,  \* another one, narrower than a register
          v,  \* a local whose address is not taken
          x,  \* a local whose address is taken
          g,  \* a global
          wl, \* a multi-word local
          gw  \* a multi-word global

UnoptimizedReg == 0 .. 4
OptimizedReg == 0 .. 3
TwoArguments == <<3, 2>>
OneArgument == <<3>>

Direct(ints) ==
    [ints |-> ints, stack |-> <<>>, vector |-> <<>>, target |-> None, sret |-> None]

OptimizedCalls ==
    {[Direct(<<v>>) EXCEPT !.stack = <<u>>],
     [Direct(<<u>>) EXCEPT !.vector = <<v>>, !.target = x]}

UnoptimizedCalls ==
    {Direct(<<x, t>>), Direct(<<x, g>>),
     [Direct(<<t>>) EXCEPT !.stack = <<wl, x>>, !.vector = <<g>>, !.target = x, !.sret = wl]}

ReadCalls == {Direct(<<v, x>>), [Direct(<<t>>) EXCEPT !.vector = <<t>>, !.target = g]}

=============================================================================
