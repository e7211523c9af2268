-------------------------- MODULE MCCompilerDriver --------------------------
(***************************************************************************)
(* Small instances of CompilerDriver: two processes, up to three inputs.   *)
(***************************************************************************)
EXTENDS CompilerDriver

Command(inputs, stop, output, saveTemps, deps, resources) ==
    [inputs |-> inputs, stop |-> stop, output |-> output, saveTemps |-> saveTemps,
     deps |-> deps, resources |-> resources]

A == <<"a", "c">>
B == <<"b", "c">>
C == <<"c", "i">>
S == <<"d", "s">>
O == <<"e", "o">>
X == <<"x", "c">>
Gone == <<"g", "c">>
Out == <<"out">>

SomeNames == {"a", "b", "c", "d", "e", "g", "i", "o", "s", "x", "out", "tmp"}
PlainSources == {B}
MissingInputs == {Gone}

\* -MMD only where gcc is given the name of the file to write
Commands(lists, stops) ==
    {<<Command(inputs, stop, output, saveTemps, saveTemps, "r1")>> :
        inputs \in lists, stop \in stops, output \in {NoPath, Out}, saveTemps \in BOOLEAN}

\* every way to stop, with and without a named output and kept intermediates
Single == Commands({<<A>>, <<B, C>>, <<A, S, O>>, <<S>>, <<A, Gone>>}, StopAfter)

\* three runs of one process, with two installations of the resources
Sequential ==
    {[n \in 1 .. 3 |-> Command(<<C>>, "assembly", NoPath, FALSE, FALSE, resources[n])] :
        resources \in [1 .. 3 -> {"r1", "r2"}]}

\* another process beside it
Beside == {<<Command(<<X>>, "object", <<"x", "o">>, FALSE, FALSE, "r1")>>}
Concurrent == Commands({<<A>>, <<B, C>>}, {"object", "link"})

Processes == {"p", "q"}
Given(first, second) == [d \in Processes |-> IF d = "p" THEN first ELSE second]

\* -MMD with the intermediates in temporary files
WithDependencies ==
    {Given(<<Command(<<A>>, stop, NoPath, FALSE, TRUE, "r1")>>, <<>>) : stop \in {"object", "link"}}

SomeLists ==
    {Given(list, <<>>) : list \in Single \cup Sequential} \cup
    {Given(list, other) : list \in Concurrent, other \in Beside} \cup WithDependencies

=============================================================================
