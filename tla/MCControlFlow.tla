---------------------------- MODULE MCControlFlow ----------------------------
(* Two values and two labels of the source, and every body over them.      *)
EXTENDS ControlFlow

x == 1
y == 2
MCOrdinary == {AssignI(x, y), Plain("Argument", y), Plain("Call", 3)}
MCLabels == {1, 2}
MCTransfers == {JumpI(l) : l \in MCLabels} \cup {JumpIf("IF_EQUAL", l) : l \in MCLabels}

=============================================================================
