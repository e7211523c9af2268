--------------------------- MODULE MCChildProcess ---------------------------
(***************************************************************************)
(* Small instances of ChildProcess, with pipes of one chunk.               *)
(***************************************************************************)
EXTENDS ChildProcess

Call(input, output, capture, closed, ignored) ==
    [input |-> input, output |-> output, capture |-> capture, closed |-> closed,
     sigpipeIgnored |-> ignored]

\* a child that writes little, and a compiler started without some streams
StreamCalls ==
    {Call(input, 0, capture, closed, TRUE) :
        input \in {0, 1}, capture \in BOOLEAN, closed \in SUBSET (0 .. 2)}

\* either the data or the output, or both, may be more than a pipe holds
PumpCalls ==
    {Call(0, 2, TRUE, {}, FALSE), Call(0, 2, FALSE, {}, FALSE), Call(1, 2, TRUE, {}, TRUE),
     Call(2, 1, TRUE, {}, TRUE), Call(2, 1, TRUE, {}, FALSE),
     Call(2, 2, TRUE, {}, TRUE)}

SmallCalls == StreamCalls \cup PumpCalls

=============================================================================
