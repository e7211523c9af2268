---------------------------- MODULE Descriptors ----------------------------
(***************************************************************************)
(* The file descriptor tables of the compiler and of a child it starts     *)
(* (src/src/util/Process.cpp).  A table says what each number refers to;   *)
(* the system calls give out the lowest number that is free, so which      *)
(* numbers the pipes get depends on whether the compiler itself was        *)
(* started with some of its standard streams closed.                       *)
(***************************************************************************)
EXTENDS Naturals, FiniteSetsExt

Pipe == {"stdin", "stdout", "stderr"}

\* what a number can refer to: an end of a pipe, a standard stream of the
\* compiler itself, /dev/null, the file stdoutPath, or nothing
End == Pipe \X {"read", "write"}
Closed == <<"closed">>
DevNull == <<"null">>
Path == <<"path">>
File == End \cup {<<"own", n>> : n \in 0 .. 2} \cup {DevNull, Path, Closed}

\* MaxFd bounds the numbers: the standard streams, six pipe ends, one file.
MaxFd == 9
Fd == 0 .. MaxFd
Table == [Fd -> File]

\* the table the compiler is started with, the streams S of it closed
Started(S) == [n \in Fd |-> IF n <= 2 /\ n \notin S THEN <<"own", n>> ELSE Closed]

LowestFree(table, first) == Min({n \in Fd : n >= first /\ table[n] = Closed})

Opened(table, file) == [table EXCEPT ![LowestFree(table, 0)] = file]

CloseNumbers(table, N) == [n \in Fd |-> IF n \in N THEN Closed ELSE table[n]]

\* the one number an end has while no child's redirection has copied it
Number(table, end) == CHOOSE n \in Fd : table[n] = end

\* mutant of MoveAboveStdio: a pipe end keeps the number pipe() gave it
LeaveAmongStdio(table, end) == table

MoveAboveStdio(table, end) ==
    LET fd == Number(table, end)
    IN  IF fd > 2 THEN table
        ELSE [table EXCEPT ![LowestFree(table, 3)] = end, ![fd] = Closed]

OpenPipe(table, p) ==
    LET both == Opened(Opened(table, <<p, "read">>), <<p, "write">>)
    IN  MoveAboveStdio(MoveAboveStdio(both, <<p, "read">>), <<p, "write">>)

\* closeFd, of the variables that hold the ends E
CloseEnds(table, E) == [n \in Fd |-> IF table[n] \in E THEN Closed ELSE table[n]]

Redirect(table, from, to) == [table EXCEPT ![to] = table[from]]

\* a file of the child's own: opened, copied to the stream, and closed under
\* the number it was opened as, which may be the stream's own
RedirectFile(table, file, to) ==
    LET from == LowestFree(table, 0)
    IN  CloseNumbers(Redirect(Opened(table, file), from, to), {from})

=============================================================================
