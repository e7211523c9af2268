------------------------- MODULE ChildProcessProofs -------------------------
(***************************************************************************)
(* Proofs about ChildProcess, for pipes of any capacity, any number of     *)
(* signals and any calls: what the descriptor tables hold, and that        *)
(* neither input nor output is lost.                                       *)
(***************************************************************************)
EXTENDS ChildProcess, TLAPS

----------------------------------------------------------------------------
(* The table of descriptors while pipes are opened.                        *)

\* Above the standard streams the numbers below k are taken, the others free.
FilledTo(table, k) ==
    /\ table \in Table
    /\ \A n \in Fd : n > 2 => (table[n] = Closed <=> n >= k)

\* The kinds of files are different.
LEMMA FileKinds ==
    /\ Closed \notin End /\ DevNull \notin End /\ Path \notin End
    /\ \A n \in 0 .. 2 : <<"own", n>> \notin End /\ <<"own", n>> # Closed
    /\ \A p \in Pipe, side \in {"read", "write"} : <<p, side>> \in End /\ <<p, side>> # Closed
BY DEF Closed, DevNull, Path, End, Pipe

\* The system gives out the lowest number that is free.
LEMMA LowestIsFree ==
    ASSUME NEW table, NEW first, NEW free \in Fd, free >= first, table[free] = Closed, first \in Nat
    PROVE  /\ LowestFree(table, first) \in Fd
           /\ LowestFree(table, first) >= first /\ LowestFree(table, first) <= free
           /\ table[LowestFree(table, first)] = Closed
<1> DEFINE S == {n \in Fd : n >= first /\ table[n] = Closed}
<1>1. S \subseteq 0 .. 9 /\ free \in S
  BY DEF Fd, MaxFd
<1> HIDE DEF S
<1>2. \E x \in S : \A y \in S : x =< y
  BY <1>1, SMTT(30)
<1>3. Min(S) \in S /\ \A y \in S : Min(S) =< y
  BY <1>2 DEF Min
<1> QED  BY <1>1, <1>3 DEF LowestFree, S

\* Where a file is opened: under a free standard stream, or above all others.
LEMMA LowestAtEnd ==
    ASSUME NEW k \in 3 .. MaxFd, NEW table, FilledTo(table, k), NEW first \in {0, 3}
    PROVE  /\ LowestFree(table, first) \in first .. k
           /\ table[LowestFree(table, first)] = Closed
           /\ LowestFree(table, first) > 2 => LowestFree(table, first) = k
BY LowestIsFree DEF FilledTo, Fd, MaxFd

\* The end of a pipe that is in the table once has that number.
LEMMA NumberOfOnly ==
    ASSUME NEW table, NEW end, NEW n \in Fd, table[n] = end,
           \A m \in Fd : table[m] = end => m = n
    PROVE  Number(table, end) = n
BY DEF Number

\* An end with a number above the standard streams keeps it, another one gets
\* the lowest above them.
LEMMA MovedAbove ==
    ASSUME NEW k \in 3 .. MaxFd, NEW table, FilledTo(table, k),
           NEW end \in End, NEW n \in Fd, table[n] = end, \A m \in Fd : table[m] = end => m = n
    PROVE  MoveAboveStdio(table, end) =
               IF n > 2 THEN table ELSE [table EXCEPT ![k] = end, ![n] = Closed]
<1>1. Number(table, end) = n
  BY NumberOfOnly
<1>2. LowestFree(table, 3) = k
  BY LowestAtEnd DEF MaxFd
<1> QED  BY <1>1, <1>2 DEF MoveAboveStdio

\* pipe() puts its two ends under free standard streams or behind all others.
LEMMA TwoOpened ==
    ASSUME NEW k \in 3 .. MaxFd - 1, NEW table, FilledTo(table, k),
           NEW R \in End, NEW W \in End
    PROVE  \E first, second \in Fd :
               /\ first # second /\ table[first] = Closed /\ table[second] = Closed
               /\ \/ first <= 2 /\ second <= 2
                  \/ first <= 2 /\ second = k
                  \/ first = k /\ second = k + 1
               /\ Opened(Opened(table, R), W) = [table EXCEPT ![first] = R, ![second] = W]
<1> DEFINE first == LowestFree(table, 0)
<1>1. R # Closed /\ R \in File /\ table \in Table
  BY FileKinds DEF File, FilledTo
<1>2. /\ first \in 0 .. k /\ table[first] = Closed /\ (first > 2 => first = k)
      /\ first \in Fd
  BY LowestAtEnd DEF MaxFd, Fd
<1>3. \A free \in Fd : table[free] = Closed => first <= free
  BY LowestIsFree DEF Fd
<1>4. Opened(table, R) = [table EXCEPT ![first] = R]
  BY DEF Opened
<1> HIDE DEF first
<1> DEFINE one == [table EXCEPT ![first] = R]
           second == LowestFree(one, 0)
<1>5. Opened(one, W) = [one EXCEPT ![second] = W]
  BY DEF Opened
<1>6. one \in Table /\ \A n \in Fd : one[n] = IF n = first THEN R ELSE table[n]
  BY <1>1, <1>2 DEF Table
<1>7. PICK next \in {k, k + 1} : next = IF first = k THEN k + 1 ELSE k
  OBVIOUS
<1>8. /\ second \in 0 .. next /\ one[second] = Closed
      /\ second > 2 => second = next
  <2>1. FilledTo(one, next)
    BY <1>1, <1>2, <1>6, <1>7 DEF FilledTo, Fd, MaxFd
  <2> HIDE DEF one
  <2> QED  BY <2>1, LowestAtEnd DEF MaxFd
<1> HIDE DEF second
<1>9. second \in Fd /\ second # first /\ table[second] = Closed
  BY <1>1, <1>6, <1>8 DEF Fd, MaxFd
<1>10. \/ first <= 2 /\ second <= 2
       \/ first <= 2 /\ second = k
       \/ first = k /\ second = k + 1
  BY <1>2, <1>3, <1>7, <1>8, <1>9
<1> QED  BY <1>2, <1>4, <1>5, <1>9, <1>10

\* pipe() puts the two ends anywhere, moveAboveStdio leaves them the two lowest
\* free numbers above the standard streams and these as they were.
LEMMA OpenPipeAtEnd ==
    ASSUME NEW k \in 3 .. MaxFd - 1, NEW table, FilledTo(table, k), NEW p \in Pipe,
           \A n \in Fd : table[n] \notin {<<p, "read">>, <<p, "write">>}
    PROVE  \E a, b \in {k, k + 1} :
               /\ a # b
               /\ OpenPipe(table, p) =
                      [table EXCEPT ![a] = <<p, "read">>, ![b] = <<p, "write">>]
<1>1. PICK R, W : R = <<p, "read">> /\ W = <<p, "write">>
  OBVIOUS
<1>2. R \in End /\ W \in End /\ R # W /\ R # Closed /\ W # Closed
  BY <1>1, FileKinds
<1>3. R \in File /\ W \in File /\ Closed \in File /\ table \in Table
  BY <1>2 DEF File, FilledTo
<1>4. \A n \in Fd : table[n] # R /\ table[n] # W
  BY <1>1
<1>5. PICK first, second \in Fd :
          /\ first # second /\ table[first] = Closed /\ table[second] = Closed
          /\ \/ first <= 2 /\ second <= 2
             \/ first <= 2 /\ second = k
             \/ first = k /\ second = k + 1
          /\ Opened(Opened(table, R), W) = [table EXCEPT ![first] = R, ![second] = W]
  BY <1>2, TwoOpened
<1>6. PICK both : both = [table EXCEPT ![first] = R, ![second] = W]
  OBVIOUS
<1>7. OpenPipe(table, p) = MoveAboveStdio(MoveAboveStdio(both, R), W)
  BY <1>1, <1>5, <1>6 DEF OpenPipe
<1>8. /\ both \in Table
      /\ \A n \in Fd : both[n] = IF n = second THEN W ELSE IF n = first THEN R ELSE table[n]
  BY <1>3, <1>5, <1>6 DEF Table
<1>9. /\ first \in Nat /\ second \in Nat /\ k \in Fd /\ k + 1 \in Fd /\ k > 2 /\ k \in Nat
      /\ Fd \subseteq Nat
  BY DEF Fd, MaxFd
<1>10. \A n \in Fd : n > 2 => (table[n] = Closed <=> n >= k)
  BY DEF FilledTo
<1>11. CASE first = k /\ second = k + 1
  <2>1. MoveAboveStdio(both, R) = both /\ MoveAboveStdio(both, W) = both
    BY <1>2, <1>4, <1>5, <1>8, NumberOfOnly, <1>9, <1>11 DEF MoveAboveStdio
  <2> QED  BY <1>1, <1>6, <1>7, <1>11, <2>1
<1>12. CASE first <= 2 /\ second = k
  <2>1. PICK moved : moved = [both EXCEPT ![k + 1] = R, ![first] = Closed]
    OBVIOUS
  <2>2. FilledTo(both, k + 1)
    BY <1>2, <1>8, <1>9, <1>10, <1>12 DEF FilledTo
  <2>3. MoveAboveStdio(both, R) = moved
    BY <1>2, <1>4, <1>5, <1>8, <1>9, <1>12, <2>1, <2>2, MovedAbove DEF MaxFd
  <2>4. /\ moved \in Table
        /\ \A n \in Fd : moved[n] = IF n = k THEN W ELSE IF n = k + 1 THEN R ELSE table[n]
    BY <1>3, <1>5, <1>8, <1>9, <1>12, <2>1 DEF Table
  <2>5. MoveAboveStdio(moved, W) = moved
    BY <1>2, <1>4, <1>9, <2>4, NumberOfOnly DEF MoveAboveStdio
  <2>6. moved = [table EXCEPT ![k + 1] = R, ![k] = W]
    BY <1>3, <1>9, <2>4 DEF Table
  <2> QED  BY <1>1, <1>7, <2>3, <2>5, <2>6
<1>13. CASE first <= 2 /\ second <= 2
  <2>1. PICK moved : moved = [both EXCEPT ![k] = R, ![first] = Closed]
    OBVIOUS
  <2>2. FilledTo(both, k)
    BY <1>2, <1>8, <1>9, <1>10, <1>13 DEF FilledTo
  <2>3. MoveAboveStdio(both, R) = moved
    BY <1>2, <1>4, <1>5, <1>8, <1>9, <1>13, <2>1, <2>2, MovedAbove DEF MaxFd
  <2>4. /\ moved \in Table
        /\ \A n \in Fd : moved[n] = IF n = second THEN W ELSE IF n = k THEN R ELSE table[n]
    BY <1>3, <1>5, <1>8, <1>9, <1>13, <2>1 DEF Table
  <2>5. FilledTo(moved, k + 1) BY <1>9, <1>13, <2>4, <1>2, <1>10 DEF FilledTo
  <2>6. PICK last : last = [moved EXCEPT ![k + 1] = W, ![second] = Closed]
    OBVIOUS
  <2>7. MoveAboveStdio(moved, W) = last
    BY <1>2, <1>4, <1>9, <1>13, <2>4, <2>5, <2>6, MovedAbove DEF MaxFd
  <2>8. /\ last \in Table
        /\ \A n \in Fd : last[n] = IF n = k THEN R ELSE IF n = k + 1 THEN W ELSE table[n]
    BY <1>3, <1>5, <1>9, <1>13, <2>4, <2>6 DEF Table
  <2>9. last = [table EXCEPT ![k] = R, ![k + 1] = W]
    BY <1>3, <1>9, <2>8 DEF Table
  <2> QED  BY <1>1, <1>7, <2>3, <2>7, <2>9
<1> QED  BY <1>5, <1>11, <1>12, <1>13

\* The pipes of Q, and no others, are open above the standard streams.
HasPipes(table, closed, Q, k) ==
    /\ FilledTo(table, k)
    /\ \A n \in 0 .. 2 : table[n] = Started(closed)[n]
    /\ \A n \in Fd : n > 2 => table[n] \in {Closed} \cup Q \X {"read", "write"}
    /\ \A end \in Q \X {"read", "write"} : Holds(table, end)
    /\ \A m, n \in Fd : table[m] = table[n] /\ table[m] \in End => m = n

\* A compiler starts with nothing above the standard streams.
LEMMA StartedTable ==
    ASSUME call \in CallType
    PROVE  HasPipes(Started(call.closed), call.closed, {}, 3)
BY FileKinds DEF Started, Table, Fd, MaxFd, File, HasPipes, FilledTo

\* Opening one more pipe adds that pipe only.
LEMMA AddPipe ==
    ASSUME NEW k \in 3 .. MaxFd - 1, NEW Q \in SUBSET Pipe, NEW table, HasPipes(table, call.closed, Q, k),
           NEW p \in Pipe \ Q, call \in CallType
    PROVE  HasPipes(OpenPipe(table, p), call.closed, Q \cup {p}, k + 2)
<1>1. PICK R, W : R = <<p, "read">> /\ W = <<p, "write">>
  OBVIOUS
<1>2. /\ R \in End /\ W \in End /\ R # W /\ R # Closed /\ W # Closed
      /\ R \notin Q \X {"read", "write"} /\ W \notin Q \X {"read", "write"}
      /\ Q \X {"read", "write"} \subseteq End
      /\ (Q \cup {p}) \X {"read", "write"} = Q \X {"read", "write"} \cup {R, W}
  BY <1>1, FileKinds DEF End
<1>3. \A n \in Fd : n <= 2 => table[n] \notin End BY FileKinds DEF Started, Fd, MaxFd, HasPipes
<1>4. \A n \in Fd : table[n] # R /\ table[n] # W
  BY <1>2, <1>3, FileKinds DEF HasPipes, Fd, MaxFd
<1>5. PICK a, b \in {k, k + 1} :
          a # b /\ OpenPipe(table, p) = [table EXCEPT ![a] = R, ![b] = W]
  BY <1>1, <1>4, OpenPipeAtEnd DEF HasPipes
<1>6. table \in Table /\ a \in Fd /\ b \in Fd /\ R \in File /\ W \in File
  BY <1>2 DEF HasPipes, FilledTo, File, Fd, MaxFd
<1>7. PICK opened : opened = OpenPipe(table, p)
  OBVIOUS
<1>8. /\ opened \in Table
      /\ \A n \in Fd : opened[n] = IF n = a THEN R ELSE IF n = b THEN W ELSE table[n]
  BY <1>5, <1>6, <1>7 DEF Table
<1>9. a > 2 /\ b > 2 /\ Fd \subseteq Nat /\ 0 .. 2 \subseteq Fd
  BY DEF Fd, MaxFd
<1>10. FilledTo(opened, k + 2) BY <1>2, <1>5, <1>8, <1>9 DEF HasPipes, FilledTo
<1>11. \A n \in 0 .. 2 : opened[n] = Started(call.closed)[n]
  BY <1>8, <1>9 DEF HasPipes
<1>12. \A n \in Fd : n > 2 => opened[n] \in {Closed} \cup (Q \cup {p}) \X {"read", "write"}
  BY <1>2, <1>8 DEF HasPipes
<1>13. \A end \in (Q \cup {p}) \X {"read", "write"} : Holds(opened, end)
  BY <1>5, <1>6, <1>9, <1>2, <1>8, FileKinds DEF HasPipes, FilledTo, Holds
<1>14. \A m, n \in Fd : opened[m] = opened[n] /\ opened[m] \in End => m = n
  BY <1>2, <1>4, <1>8 DEF HasPipes
<1> QED  BY <1>7, <1>10, <1>11, <1>12, <1>13, <1>14 DEF HasPipes

\* What the pipes of a call need.
Needed == {p \in Pipe : PipeNeeded(p)}

\* They are pipes.
LEMMA NeededPipes == Needed \subseteq Pipe
BY DEF Needed

\* All pipes of a call: there is a number left.
LEMMA PipesOpened ==
    ASSUME call \in CallType
    PROVE  \E k \in 3 .. MaxFd :
               HasPipes(WithPipe(WithPipe(WithPipe(Started(call.closed), "stdin"), "stdout"), "stderr"), call.closed,
                        Needed, k)
<1> DEFINE one == WithPipe(Started(call.closed), "stdin")
           two == WithPipe(one, "stdout")
           Q1 == {p \in {"stdin"} : PipeNeeded(p)}
           Q2 == {p \in {"stdin", "stdout"} : PipeNeeded(p)}
<1>1. \E k \in {3, 5} : HasPipes(one, call.closed, Q1, k)
  BY StartedTable, AddPipe DEF Pipe, MaxFd, WithPipe
<1> HIDE DEF one
<1>2. \E k \in {3, 5, 7} : HasPipes(two, call.closed, Q2, k)
  BY <1>1, AddPipe DEF Pipe, MaxFd, WithPipe
<1> HIDE DEF two
<1>3. PICK k \in {3, 5, 7} : HasPipes(two, call.closed, Q2, k)
  BY <1>2
<1>4. HasPipes(OpenPipe(two, "stderr"), call.closed, Q2 \cup {"stderr"}, k + 2)
  BY <1>3, AddPipe DEF Pipe, MaxFd
<1>5. PipeNeeded("stderr") /\ Q2 \cup {"stderr"} = Needed
  BY DEF PipeNeeded, Needed, Pipe
<1> QED  BY <1>4, <1>5 DEF WithPipe, one, two, MaxFd

----------------------------------------------------------------------------
(* The table the program starts with.                                      *)

\* The end of a pipe the child uses.
ChildEnd(p) == <<p, IF p = "stdin" THEN "read" ELSE "write">>

\* A program that has been started has at most its own side of the pipes, each
\* as its standard stream, and nothing else there.
OwnSideOnly(table, Q) ==
    /\ \A n \in Fd : table[n] \in End =>
           \E p \in Q : n = StreamNumber[p] /\ table[n] = ChildEnd(p)
    /\ \A p \in Q : table[StreamNumber[p]] \in {ChildEnd(p), Closed}

\* What RedirectFile leaves: the number the file was opened under is closed, even
\* if it is that of the stream.
LEMMA FileRedirected ==
    ASSUME NEW table \in Table, table[MaxFd] = Closed, NEW file \in File, NEW to \in 0 .. 2
    PROVE  \E from \in Fd :
               /\ table[from] = Closed
               /\ RedirectFile(table, file, to) =
                      [n \in Fd |-> IF n = from THEN Closed ELSE IF n = to THEN file ELSE table[n]]
BY LowestIsFree DEF Fd, MaxFd, RedirectFile, Opened, Redirect, Table, CloseNumbers

\* Between fork and exec every redirection finds the pipe it needs, and what the
\* child does not use is closed.
LEMMA ChildConnected ==
    ASSUME call \in CallType, NEW k \in 3 .. MaxFd, NEW table, HasPipes(table, call.closed, Needed, k),
           NEW hasNull \in BOOLEAN, NEW result, result = ChildTable(table, hasNull)
    PROVE  /\ result \in Table
           /\ \A p \in Needed : result[StreamNumber[p]] = ChildEnd(p)
           /\ OwnSideOnly(result, Needed)
           /\ ~call.capture /\ 1 \notin call.closed => result[1] = Path
<1>1. /\ table \in Table /\ table[MaxFd] = Closed
      /\ \A n \in 0 .. 2 : table[n] = IF n \in call.closed THEN Closed ELSE <<"own", n>>
      /\ \A m, n \in Fd : table[m] = table[n] /\ table[m] \in End => m = n
  BY DEF HasPipes, FilledTo, Started, Fd, MaxFd
<1>2. /\ "stderr" \in Needed
      /\ Feeds <=> "stdin" \in Needed
      /\ call.capture <=> "stdout" \in Needed
      /\ Needed \subseteq Pipe
  BY DEF Needed, PipeNeeded, Pipe, CallType
<1>3. /\ \A p \in Pipe : ChildEnd(p) \in End
      /\ StreamNumber["stdin"] = 0 /\ StreamNumber["stdout"] = 1 /\ StreamNumber["stderr"] = 2
      /\ Pipe = {"stdin", "stdout", "stderr"}
  BY FileKinds DEF ChildEnd, StreamNumber, Pipe
<1>4. \A p \in Needed : Number(table, ChildEnd(p)) \in Fd /\ Number(table, ChildEnd(p)) > 2
                        /\ table[Number(table, ChildEnd(p))] = ChildEnd(p)
  BY <1>2, <1>3, <1>1, NumberOfOnly, FileKinds DEF ChildEnd, HasPipes, Holds, Fd, MaxFd
<1>5. 0 \in Fd /\ 1 \in Fd /\ 2 \in Fd /\ MaxFd \in Fd /\ MaxFd > 2
  BY DEF Fd, MaxFd
<1>6. PICK stderr : stderr = Redirect(table, Number(table, ChildEnd("stderr")), 2)
  OBVIOUS
<1>7. /\ stderr \in Table
      /\ \A n \in Fd : stderr[n] = IF n = 2 THEN ChildEnd("stderr") ELSE table[n]
  BY <1>1, <1>2, <1>4, <1>5, <1>6 DEF Redirect, Table
<1>8. PICK stdin :
          /\ stdin = IF Feeds THEN Redirect(stderr, Number(table, ChildEnd("stdin")), 0)
                     ELSE IF hasNull THEN RedirectFile(stderr, DevNull, 0) ELSE stderr
  OBVIOUS
<1>9. /\ stdin \in Table /\ stdin[MaxFd] = Closed
      /\ \A n \in Fd : stdin[n] # stderr[n] =>
             /\ n = 0 /\ ~Feeds => stdin[n] \notin End
             /\ n # 0 => stdin[n] = Closed
      /\ \A n \in Fd : stdin[n] # stderr[n] /\ n # 0 => stderr[n] = Closed
      /\ Feeds => stdin[0] = ChildEnd("stdin")
  BY <1>2, <1>4, <1>1, <1>5, <1>7, <1>8, FileRedirected, FileKinds DEF Redirect, Table, File
<1>10. Redirected(table, hasNull) =
           IF call.capture THEN Redirect(stdin, Number(table, ChildEnd("stdout")), 1)
           ELSE RedirectFile(stdin, Path, 1)
  BY <1>6, <1>8 DEF Redirected, ChildEnd
<1>11. PICK all : all = Redirected(table, hasNull)
  OBVIOUS
<1>12. /\ all \in Table
       /\ \A n \in Fd : all[n] # stdin[n] /\ n # 1 => all[n] = Closed /\ stdin[n] = Closed
       /\ call.capture => all[1] = ChildEnd("stdout")
       /\ ~call.capture => all[1] \in {Path, Closed}
       /\ ~call.capture /\ stdin[1] # Closed => all[1] = Path
  <2>1. CASE call.capture
    <3>1. PICK number \in Fd : number = Number(table, ChildEnd("stdout")) /\ number > 2
                               /\ table[number] = ChildEnd("stdout")
      BY <1>2, <1>4, <2>1
    <3>2. stdin[number] = ChildEnd("stdout")
      BY <1>3, <1>5, <1>7, <1>9, <3>1, FileKinds
    <3> QED  BY <1>5, <1>9, <1>10, <1>11, <2>1, <3>1, <3>2 DEF Redirect, Table
  <2>2. CASE ~call.capture BY <1>9, <1>10, <1>11, <2>2, FileRedirected, <1>5 DEF File, Table
  <2> QED  BY <2>1, <2>2
<1>13. /\ result \in Table
       /\ \A n \in Fd : result[n] = IF table[n] \in End THEN Closed ELSE all[n]
  BY <1>11, <1>12 DEF ChildTable, CloseNumbers, File, Table
<1>14. \A n \in 0 .. 2 : result[n] = all[n] /\ n \in Fd
  BY <1>1, <1>5, <1>13, FileKinds
<1>15. ASSUME NEW p \in Needed PROVE result[StreamNumber[p]] = ChildEnd(p)
  BY <1>2, <1>3, <1>5, <1>9, <1>12, FileKinds, <1>14, <1>7
<1>16. ASSUME NEW n \in Fd, result[n] \in End
       PROVE  \E p \in Needed : n = StreamNumber[p] /\ result[n] = ChildEnd(p)
  <2>1. table[n] \notin End /\ all[n] \in End
    BY <1>13, <1>16, FileKinds
  <2>2. CASE n = 1 BY <1>12, <2>1, <2>2, FileKinds, <1>2, <1>3, <1>15
  <2>3. CASE n # 1
    <3>1. stdin[n] \in End
      BY <1>12, <2>1, <2>3, FileKinds
    <3>2. CASE n = 0 /\ Feeds
      BY <1>2, <1>3, <1>15, <3>2
    <3>3. CASE n = 2
      BY <1>2, <1>3, <1>15, <3>3
    <3>4. CASE n # 2 /\ ~(n = 0 /\ Feeds) BY <1>9, <3>1, <3>4, FileKinds, <1>7, <2>1
    <3> QED  BY <3>2, <3>3, <3>4
  <2> QED  BY <2>2, <2>3
<1>17. ASSUME ~call.capture, 1 \notin call.closed PROVE result[1] = Path
  BY <1>1, <1>5, <1>7, <1>9, <1>17, FileKinds, <1>12, <1>14
<1> QED  BY <1>13, <1>15, <1>16, <1>17 DEF OwnSideOnly

----------------------------------------------------------------------------
(* The inductive invariant.                                                *)

Pumping == parent.at \in {"poll", "stdin", "write", "stdout", "stderr"}

\* The parent has its own ends of the pipes, those it has not closed yet.
OwnEndsAbove(table, closed, Q) ==
    \A n \in Fd : \/ table[n] = Started(closed)[n]
                  \/ n > 2 /\ \E p \in Q : table[n] = ParentEnd(p)

\* What the tables of parent and child hold at each place.
TablesOK ==
    /\ parent.at = "start" => parent.fds = Started(call.closed)
    /\ parent.at = "fork" => \E k \in 3 .. MaxFd : HasPipes(parent.fds, call.closed, Needed, k)
    /\ Pumping => OwnEndsAbove(parent.fds, call.closed, Needed)
    /\ parent.at \in {"wait", "cleanup", "ended"} =>
           parent.fds = IF parent.outcome = "killed" THEN NoFiles ELSE Started(call.closed)
    /\ child.at = "none" => child.fds = NoFiles
    /\ child.at = "forked" => \E k \in 3 .. MaxFd : HasPipes(child.fds, call.closed, Needed, k)
    /\ child.at \notin {"none", "forked"} => OwnSideOnly(child.fds, Needed)

\* The places agree with each other and with the outcome.
PlacesOK ==
    /\ parent.at \in {"start", "fork"} => child.at = "none"
    /\ parent.at = "ended" <=> parent.outcome # "none"
    /\ parent.outcome \in {"returned", "threw"} => child.at \in {"none", "reaped"}
    /\ child.at \in {"none", "forked"} => ~child.sawEnd
    /\ child.at \in Output => FileOf(child.at) # Closed

\* Nothing is in the pipe and nothing will be.
Dry(p) == pipe[p] = 0 /\ ~HasWriter(p)

\* The pump has not been given up.
AllServed == Pumping \/ parent.at = "wait" \/ parent.outcome = "returned"

\* The places at which the answer of the last poll about s has yet to be used.
Before(s) == IF s = "stdout" THEN {"stdin", "write", "stdout"}
             ELSE {"stdin", "write", "stdout", "stderr"}

\* What the child has written is read, or in the pipe; a stream that the parent
\* has closed was dry, and one it is about to close is.
OutputOK ==
    \A s \in Output :
        /\ s \in Needed => child.produced[s] = parent.read[s] + pipe[s]
        /\ AllServed /\ s \in Needed /\ ~IsOpen(s) => Dry(s)
        /\ parent.at \in Before(s) =>
               /\ "IN" \in parent.revents[s] => pipe[s] > 0
               /\ parent.revents[s] # {} /\ "IN" \notin parent.revents[s] => Dry(s)

\* What the parent has written is received, or in the pipe; it closes the pipe
\* when all is written or nobody can read it; the child sees the end of a dry pipe.
InputOK ==
    /\ child.received + pipe["stdin"] = parent.offset + parent.sent
    /\ parent.offset + parent.sent <= call.input
    /\ parent.at \notin {"write", "ended"} => parent.sent = 0
    /\ child.sawEnd /\ FileOf("stdin") = ChildEnd("stdin") => Dry("stdin")
    /\ AllServed /\ "stdin" \in Needed /\ ~IsOpen("stdin") =>
           parent.offset = call.input \/ ~HasReader("stdin")
    /\ parent.at = "write" => IsOpen("stdin")
    /\ parent.at = "stdin" /\ parent.revents["stdin"] # {} =>
           /\ IsOpen("stdin")
           /\ "OUT" \notin parent.revents["stdin"] => ~HasReader("stdin")

Inv == TypeOK /\ TablesOK /\ PlacesOK /\ OutputOK /\ InputOK

----------------------------------------------------------------------------
(* Tables.                                                                 *)

\* Closing pipe ends leaves a table without them.
LEMMA EndsClosed ==
    ASSUME NEW table \in Table, NEW E \in SUBSET End
    PROVE  /\ CloseEnds(table, E) \in Table
           /\ \A end \in End : Holds(CloseEnds(table, E), end) <=> Holds(table, end) /\ end \notin E
           /\ \A n \in Fd : CloseEnds(table, E)[n] = IF table[n] \in E THEN Closed ELSE table[n]
BY FileKinds DEF CloseEnds, Table, File, Holds

\* Tables of the compiler as it was started, and of nobody, hold no pipe.
LEMMA NoPipes ==
    ASSUME call \in CallType
    PROVE  /\ Started(call.closed) \in Table /\ NoFiles \in Table
           /\ \A end \in End : ~Holds(Started(call.closed), end) /\ ~Holds(NoFiles, end)
BY FileKinds DEF Started, NoFiles, Table, Holds, File, Fd, MaxFd

\* What the parent may hold of the pipes while it pumps.
LEMMA OwnEndsOnly ==
    ASSUME call \in CallType, NEW table, OwnEndsAbove(table, call.closed, Needed)
    PROVE  /\ \A end \in End : Holds(table, end) => \E p \in Needed : end = ParentEnd(p)
           /\ (\A p \in Pipe : ~Holds(table, ParentEnd(p))) /\ table \in Table
                  => table = Started(call.closed)
BY FileKinds, NoPipes DEF Started, Fd, MaxFd, Holds, OwnEndsAbove, Needed, Table

\* The ends of the parent and of the child, and of no others.
LEMMA Ends ==
    /\ \A p \in Pipe : ParentEnd(p) \in End /\ ChildEnd(p) \in End /\ ParentEnd(p) # ChildEnd(p)
    /\ \A end \in End : \E p \in Pipe : end = ParentEnd(p) \/ end = ChildEnd(p)
    /\ \A p, q \in Pipe : ParentEnd(p) = ParentEnd(q) \/ ChildEnd(p) = ChildEnd(q) => p = q
    /\ \A p, q \in Pipe : ParentEnd(p) # ChildEnd(q)
BY DEF ParentEnd, ChildEnd, End, Pipe

\* Closing ends of one's own leaves ends of one's own.
LEMMA OwnEndsClosed ==
    ASSUME call \in CallType, NEW table \in Table, OwnEndsAbove(table, call.closed, Needed), NEW E \in SUBSET End
    PROVE  OwnEndsAbove(CloseEnds(table, E), call.closed, Needed)
BY FileKinds, EndsClosed DEF OwnEndsAbove, Started, Fd, MaxFd

\* After fork the parent keeps its own ends, and has one of each pipe of the call.
LEMMA ParentSideOwn ==
    ASSUME call \in CallType, NEW k \in 3 .. MaxFd, NEW table, HasPipes(table, call.closed, Needed, k)
    PROVE  /\ ParentSide(table) \in Table /\ OwnEndsAbove(ParentSide(table), call.closed, Needed)
           /\ \A p \in Needed : Holds(ParentSide(table), ParentEnd(p))
<1> DEFINE E == {<<"stdin", "read">>, <<"stdout", "write">>, <<"stderr", "write">>}
<1>1. E = {ChildEnd(p) : p \in Pipe} /\ E \subseteq End
  BY DEF ChildEnd, Pipe, End
<1>2. table \in Table /\ ParentSide(table) = CloseEnds(table, E)
  BY DEF HasPipes, FilledTo, ParentSide
<1> HIDE DEF E
<1>3. ASSUME NEW n \in Fd
      PROVE  \/ ParentSide(table)[n] = Started(call.closed)[n]
             \/ n > 2 /\ \E p \in Needed : ParentSide(table)[n] = ParentEnd(p)
  <2>1. CASE n <= 2 BY <2>1, FileKinds, <1>1, <1>2, EndsClosed DEF HasPipes, Fd, MaxFd, Started
  <2>2. CASE n > 2 /\ table[n] \in Needed \X {"read", "write"}
    BY <2>2, <1>1, <1>2, Ends, NeededPipes, EndsClosed DEF Started, Fd, MaxFd, ParentEnd,
       ChildEnd, Needed, Pipe
  <2>3. CASE n > 2 /\ table[n] = Closed
    BY <1>1, <1>2, <2>3, EndsClosed, FileKinds DEF Started, Fd, MaxFd
  <2> QED  BY <2>1, <2>2, <2>3 DEF HasPipes, Fd, MaxFd
<1>4. ASSUME NEW p \in Needed PROVE Holds(ParentSide(table), ParentEnd(p))
  BY <1>1, Ends, <1>2, EndsClosed DEF ParentEnd, Needed, HasPipes
<1>5. OwnEndsAbove(ParentSide(table), call.closed, Needed)
  BY <1>3 DEF OwnEndsAbove
<1> QED  BY <1>1, <1>2, <1>4, <1>5, EndsClosed

----------------------------------------------------------------------------
(* Initially.                                                              *)

LEMMA InvInit == Init => Inv
<1> SUFFICES ASSUME Init PROVE Inv
  OBVIOUS
<1>1. call \in CallType /\ call \in Calls
  BY Sizes DEF Init
<1>2. Started(call.closed) \in Table /\ NoFiles \in Table
  BY <1>1, NoPipes
<1>3. TypeOK
  BY <1>2, Sizes, <1>1 DEF Init, ParentType, Revents, ChildType, NoFiles, Exited, Status,
     TypeOK
<1>4. TablesOK
  BY DEF Init, TablesOK, Pumping, NoFiles
<1>5. PlacesOK
  BY DEF Init, PlacesOK, Output
<1>6. OutputOK
  BY DEF Init, OutputOK, AllServed, Pumping, Before, Output, Pipe
<1>7. InputOK
  BY <1>1 DEF Init, InputOK, AllServed, Pumping, Pipe, CallType
<1> QED  BY <1>3, <1>4, <1>5, <1>6, <1>7 DEF Inv

----------------------------------------------------------------------------
(* Starting the child.                                                     *)

\* No step changes the call, so none changes the pipes it needs.
LEMMA SameCall ==
    ASSUME call' = call PROVE Needed' = Needed
BY DEF Needed, PipeNeeded, Feeds

\* The calls are of their type.
LEMMA CallsTyped ==
    ASSUME TypeOK
    PROVE  /\ call \in CallType /\ call.input \in Nat /\ call.output \in Nat
           /\ Capacity \in Nat \ {0} /\ Interrupts \in Nat
           /\ parent.fds \in Table /\ child.fds \in Table
BY Sizes DEF TypeOK, CallType, ParentType, ChildType

\* cleanupPipes leaves the table the compiler was started with.
LEMMA CleanedUp ==
    ASSUME call \in CallType, NEW table \in Table,
           OwnEndsAbove(table, call.closed, Needed) \/ \E k \in 3 .. MaxFd : HasPipes(table, call.closed, Needed, k)
    PROVE  CleanupPipes(table) = Started(call.closed)
<1>1. ASSUME NEW n \in Fd
      PROVE  \/ table[n] = Started(call.closed)[n]
             \/ Started(call.closed)[n] = Closed /\ table[n] \in End
  <2>1. n > 2 => Started(call.closed)[n] = Closed
    BY DEF Started, Fd, MaxFd
  <2>2. CASE OwnEndsAbove(table, call.closed, Needed)
    BY Ends, NeededPipes, <2>2, <2>1 DEF OwnEndsAbove
  <2>3. CASE \E k \in 3 .. MaxFd : HasPipes(table, call.closed, Needed, k)
    <3>1. Needed \X {"read", "write"} \subseteq End
      BY NeededPipes DEF End
    <3>2. PICK k \in 3 .. MaxFd : HasPipes(table, call.closed, Needed, k)
      BY <2>3
    <3>3. CASE n <= 2
      <4>1. n \in 0 .. 2
        BY <3>3 DEF Fd, MaxFd
      <4> QED  BY <3>2, <4>1 DEF HasPipes
    <3>4. CASE n > 2 BY <3>1, <3>2, <3>4, <2>1 DEF HasPipes
    <3> QED  BY <3>3, <3>4 DEF Fd, MaxFd
  <2> QED  BY <2>2, <2>3
<1>2. \A n \in Fd : Started(call.closed)[n] \notin End
  BY FileKinds DEF Started, Fd, MaxFd
<1> QED  BY <1>1, <1>2, NoPipes, EndsClosed DEF CleanupPipes, Table

LEMMA StartFailsKeeps ==
    ASSUME Inv, StartFails PROVE Inv'
<1>1. /\ TypeOK /\ TablesOK /\ PlacesOK /\ OutputOK /\ InputOK
      /\ call \in CallType /\ parent.fds \in Table
  BY CallsTyped DEF Inv
<1>2. CleanupPipes(parent.fds) = Started(call.closed)
  BY <1>1, CleanedUp DEF TablesOK, OwnEndsAbove, StartFails
<1>3. /\ parent \in ParentType /\ UNCHANGED <<call, child, pipe, interrupts>>
      /\ parent' = [parent EXCEPT !.fds = Started(call.closed), !.at = "ended", !.outcome = "threw"]
  BY <1>1, <1>2 DEF StartFails, Throw, TypeOK, ParentType
<1>4. TypeOK'
  BY <1>1, <1>3, NoPipes DEF TypeOK, ParentType
<1>5. TablesOK'
  BY <1>1, <1>3, SameCall DEF TablesOK, Pumping, ParentType
<1>6. PlacesOK'
  BY <1>1, <1>3 DEF PlacesOK, ParentType, StartFails, FileOf
<1>7. OutputOK'
  BY <1>1, <1>3, SameCall DEF OutputOK, ParentType, AllServed, Pumping, Before
<1>8. InputOK'
  BY <1>1, <1>3, SameCall
  DEF InputOK, PlacesOK, StartFails, ParentType, AllServed, Pumping
<1> QED  BY <1>4, <1>5, <1>6, <1>7, <1>8 DEF Inv

LEMMA OpenPipesKeeps ==
    ASSUME Inv, OpenPipes PROVE Inv'
<1>1. /\ TypeOK /\ TablesOK /\ PlacesOK /\ OutputOK /\ InputOK
      /\ call \in CallType /\ parent \in ParentType
  BY CallsTyped DEF Inv, TypeOK
<1>2. PICK table : /\ table \in Table
                   /\ parent' = [parent EXCEPT !.at = "fork", !.fds = table]
                   /\ \E k \in 3 .. MaxFd : HasPipes(table, call.closed, Needed, k)
  BY <1>1, PipesOpened DEF OpenPipes, TablesOK, HasPipes, FilledTo
<1>3. UNCHANGED <<call, child, pipe, interrupts>> /\ parent.at = "start"
  BY DEF OpenPipes
<1>4. TypeOK'
  BY <1>1, <1>2, <1>3 DEF TypeOK, ParentType
<1>5. TablesOK'
  BY <1>1, <1>2, <1>3, SameCall DEF TablesOK, PlacesOK, Pumping, ParentType
<1>6. PlacesOK'
  BY <1>1, <1>2, <1>3 DEF PlacesOK, ParentType, FileOf, Output
<1>7. OutputOK'
  BY <1>1, <1>2, <1>3, SameCall DEF OutputOK, PlacesOK, ParentType, AllServed, Pumping, Before
<1>8. InputOK' BY <1>1, <1>2, <1>3 DEF AllServed, Pumping, PlacesOK, ParentType, InputOK
<1> QED  BY <1>4, <1>5, <1>6, <1>7, <1>8 DEF Inv

LEMMA ForkKeeps ==
    ASSUME Inv, Fork PROVE Inv'
<1>1. /\ TypeOK /\ TablesOK /\ PlacesOK /\ OutputOK /\ InputOK
      /\ call \in CallType /\ parent \in ParentType /\ child \in ChildType
  BY CallsTyped DEF Inv, TypeOK
<1>2. PICK k \in 3 .. MaxFd : HasPipes(parent.fds, call.closed, Needed, k)
  BY <1>1 DEF Fork, TablesOK
<1>3. PICK own : /\ own \in Table /\ OwnEndsAbove(own, call.closed, Needed)
                 /\ \A p \in Needed : Holds(own, ParentEnd(p))
                 /\ parent' = [parent EXCEPT !.at = "poll", !.fds = own]
  BY <1>1, <1>2, ParentSideOwn DEF Fork
<1>4. /\ UNCHANGED <<call, pipe, interrupts>> /\ parent.at = "fork" /\ child.at = "none"
      /\ child' = [child EXCEPT !.at = "forked", !.fds = parent.fds]
  BY <1>1 DEF Fork, PlacesOK
<1>5. TypeOK'
  BY <1>1, <1>3, <1>4 DEF TypeOK, ParentType, ChildType
<1>6. TablesOK'
  BY <1>1, <1>2, <1>3, <1>4, SameCall DEF TablesOK, Pumping, ParentType, ChildType
<1>7. PlacesOK'
  BY <1>1, <1>3, <1>4 DEF PlacesOK, ParentType, ChildType, Output
<1>8. \A p \in Needed : IsOpen(p)'
  BY <1>1, <1>3 DEF IsOpen, ParentType
<1>9. OutputOK'
  BY <1>1, <1>3, <1>4, <1>8, SameCall DEF OutputOK, ParentType, ChildType, Before
<1>10. InputOK'
  BY <1>1, <1>3, <1>4, <1>8, SameCall DEF InputOK, PlacesOK, ParentType, ChildType
<1> QED  BY <1>5, <1>6, <1>7, <1>9, <1>10 DEF Inv

----------------------------------------------------------------------------
(* The pump.                                                               *)

\* What the parts of the invariant say of the variables.
LEMMA InvParts ==
    ASSUME Inv
    PROVE  /\ TypeOK /\ TablesOK /\ PlacesOK /\ OutputOK /\ InputOK
           /\ call \in CallType /\ parent \in ParentType /\ child \in ChildType
           /\ pipe \in [Pipe -> 0 .. Capacity] /\ Capacity \in Nat /\ parent.fds \in Table
BY CallsTyped DEF Inv, TypeOK

\* While the parent pumps, and after, it has no end that is the child's.
LEMMA ParentHolds ==
    ASSUME Inv, parent.at \notin {"start", "fork"}
    PROVE  /\ \A p \in Pipe : ~Holds(parent.fds, ChildEnd(p))
           /\ \A p \in Pipe : IsOpen(p) => p \in Needed
           /\ ~Pumping => \A p \in Pipe : ~IsOpen(p)
BY InvParts, OwnEndsOnly, Ends, NeededPipes, NoPipes DEF TablesOK, IsOpen, Pumping, ParentType

LEMMA PollInterruptedKeeps ==
    ASSUME Inv, PollInterrupted PROVE Inv'
<1>1. UNCHANGED <<call, parent, child, pipe>> /\ interrupts' \in 0 .. Interrupts
  BY InvParts, Sizes DEF PollInterrupted, Interrupted, TypeOK
<1> QED
  BY <1>1, InvParts, SameCall
  DEF Inv, TypeOK, TablesOK, PlacesOK, OutputOK, InputOK, Pumping, AllServed, IsOpen, Dry,
      HasWriter, HasReader, FileOf

LEMMA PollFailsKeeps ==
    ASSUME Inv, PollFails PROVE Inv'
<1>1. /\ UNCHANGED <<call, child, pipe, interrupts>> /\ parent.at = "poll"
      /\ parent' = [parent EXCEPT !.at = "cleanup", !.fds = Started(call.closed)]
  BY InvParts, CleanedUp DEF PollFails, TablesOK, Pumping
<1>2. TypeOK'
  BY <1>1, InvParts, NoPipes DEF TypeOK, ParentType
<1>3. TablesOK'
  BY <1>1, InvParts, SameCall DEF TablesOK, PlacesOK, Pumping, ParentType
<1>4. PlacesOK'
  BY <1>1, InvParts DEF PlacesOK, ParentType, FileOf
<1>5. ~AllServed'
  BY <1>1, InvParts DEF PlacesOK, ParentType, AllServed, Pumping
<1>6. OutputOK'
  BY <1>1, <1>5, InvParts, SameCall DEF OutputOK, ParentType, Before
<1>7. \A end \in End : ~Holds(parent.fds', end)
  BY <1>1, InvParts, NoPipes DEF ParentType
<1>8. HasWriter("stdin")' => HasWriter("stdin")
  BY <1>1, <1>7, FileKinds DEF HasWriter, Pipe
<1>9. InputOK'
  BY <1>1, <1>5, <1>8, InvParts, SameCall DEF InputOK, ParentType, Dry, FileOf
<1> QED  BY <1>2, <1>3, <1>4, <1>6, <1>9 DEF Inv

LEMMA PollKeeps ==
    ASSUME Inv, Poll PROVE Inv'
<1>1. /\ UNCHANGED <<call, child, pipe, interrupts>> /\ parent.at = "poll"
      /\ parent' = [parent EXCEPT !.at = "stdin",
                       !.revents = [p \in Pipe |-> IF IsOpen(p) THEN Reported(p) ELSE {}]]
  BY DEF Poll
<1>2. \A p \in Pipe : Reported(p) \in Revents
  BY DEF Reported, Revents
<1>3. TypeOK'
  BY <1>1, <1>2, InvParts DEF TypeOK, ParentType, Revents
<1>4. TablesOK'
  BY <1>1, InvParts, SameCall DEF TablesOK, PlacesOK, Pumping, ParentType
<1>5. PlacesOK'
  BY <1>1, InvParts DEF PlacesOK, ParentType, FileOf
<1>6. /\ \A p \in Pipe : IsOpen(p)' = IsOpen(p) /\ HasWriter(p)' = HasWriter(p)
      /\ HasReader("stdin")' = HasReader("stdin")
      /\ AllServed' /\ AllServed
  BY <1>1, InvParts DEF IsOpen, HasWriter, HasReader, AllServed, Pumping, ParentType
<1>7. ASSUME NEW s \in Output
      PROVE  /\ "IN" \in parent'.revents[s] => pipe[s] > 0
             /\ parent'.revents[s] # {} /\ "IN" \notin parent'.revents[s] => Dry(s)
  BY <1>1, InvParts DEF ParentType, Output, Pipe, Reported, Dry
<1>8. OutputOK'
  BY <1>1, <1>6, <1>7, InvParts, SameCall DEF OutputOK, ParentType, Dry, Output, Pipe
<1>9. InputOK'
  BY <1>1, InvParts, <1>6, SameCall DEF ParentType, Pipe, Reported, InputOK, Dry, FileOf
<1> QED  BY <1>3, <1>4, <1>5, <1>8, <1>9 DEF Inv

LEMMA PumpEndsKeeps ==
    ASSUME Inv, PumpEnds PROVE Inv'
<1>1. /\ UNCHANGED <<call, child, pipe, interrupts>> /\ parent.at = "poll"
      /\ parent' = [parent EXCEPT !.at = "wait"]
      /\ \A p \in Pipe : ~IsOpen(p)
  BY DEF PumpEnds
<1>2. TypeOK'
  BY <1>1, InvParts DEF TypeOK, ParentType
<1>3. parent.fds = Started(call.closed)
  BY <1>1, InvParts, OwnEndsOnly DEF TablesOK, Pumping, IsOpen
<1>4. TablesOK'
  BY <1>1, <1>3, InvParts, SameCall DEF TablesOK, PlacesOK, Pumping, ParentType
<1>5. PlacesOK'
  BY <1>1, InvParts DEF PlacesOK, ParentType, FileOf
<1>6. /\ \A p \in Pipe : IsOpen(p)' = IsOpen(p) /\ HasWriter(p)' = HasWriter(p)
      /\ HasReader("stdin")' = HasReader("stdin")
      /\ AllServed' /\ AllServed
  BY <1>1, InvParts DEF IsOpen, HasWriter, HasReader, AllServed, Pumping, ParentType
<1>7. OutputOK'
  BY <1>1, <1>6, InvParts, SameCall DEF OutputOK, ParentType, Before, Dry, Output, Pipe
<1>8. InputOK'
  BY <1>1, <1>6, InvParts, SameCall DEF InputOK, ParentType, Dry, FileOf, Pipe
<1> QED  BY <1>2, <1>4, <1>5, <1>7, <1>8 DEF Inv

\* A table of the parent that is as before, or without its end of one pipe.
SameOrClosed(table, p) ==
    table = parent.fds \/ table = CloseEnds(parent.fds, {ParentEnd(p)})

\* What closing one end does while the parent pumps.
LEMMA Closing ==
    ASSUME Inv, Pumping, NEW p \in Pipe, NEW table, SameOrClosed(table, p)
    PROVE  /\ table \in Table /\ OwnEndsAbove(table, call.closed, Needed)
           /\ \A end \in End : Holds(table, end) => Holds(parent.fds, end)
           /\ \A q \in Pipe \ {p} : Holds(table, ParentEnd(q)) <=> IsOpen(q)
BY InvParts, Ends, OwnEndsClosed, EndsClosed DEF TablesOK, IsOpen, SameOrClosed

\* Fewer descriptors are fewer readers and writers.
LEMMA FewerEnds ==
    ASSUME \A end \in End : Holds(parent.fds', end) => Holds(parent.fds, end),
           \A end \in End : Holds(child.fds', end) => Holds(child.fds, end)
    PROVE  \A p \in Pipe : (HasReader(p)' => HasReader(p)) /\ (HasWriter(p)' => HasWriter(p))
BY FileKinds DEF HasReader, HasWriter

\* The parent has finished with its writing for this turn: poll had said nothing,
\* or it has written some, or all, or found that nobody reads.
LEMMA StdinServed ==
    ASSUME Inv, parent.at \in {"stdin", "write"}, UNCHANGED <<call, child, pipe>>,
           interrupts' \in 0 .. Interrupts, NEW table, SameOrClosed(table, "stdin"),
           table # parent.fds =>
               parent.offset + parent.sent >= call.input \/ ~HasReader("stdin"),
           parent' = [parent EXCEPT !.at = "stdout", !.offset = @ + parent.sent, !.sent = 0,
                                    !.fds = table]
    PROVE  Inv'
<1>1. /\ table \in Table /\ OwnEndsAbove(table, call.closed, Needed)
      /\ \A end \in End : Holds(table, end) => Holds(parent.fds, end)
      /\ \A s \in Output : Holds(table, ParentEnd(s)) <=> IsOpen(s)
  BY Closing DEF Pumping, Pipe, Output
<1>2. /\ parent'.at = "stdout" /\ parent'.fds = table /\ parent'.revents = parent.revents
      /\ parent'.offset = parent.offset + parent.sent /\ parent'.sent = 0
      /\ parent'.read = parent.read /\ parent'.outcome = parent.outcome
      /\ parent.offset \in Nat /\ parent.sent \in Nat /\ parent.outcome = "none"
  BY InvParts DEF ParentType, PlacesOK
<1>3. TypeOK'
  <2>1. parent' \in ParentType
    <3>1. PICK offset \in Nat : offset = parent.offset + parent.sent
      BY <1>2
    <3>2. PICK written \in ParentType : written = [parent EXCEPT !.at = "stdout", !.offset = offset]
      BY InvParts DEF ParentType
    <3>3. PICK pumped \in ParentType : pumped = [written EXCEPT !.sent = 0, !.fds = table]
      BY <1>1 DEF ParentType
    <3>4. parent' = pumped
      BY <3>1, <3>2, <3>3, InvParts DEF ParentType
    <3> QED  BY <3>3, <3>4
  <2> QED  BY <2>1, InvParts DEF TypeOK
<1>4. TablesOK'
  BY <1>1, <1>2, InvParts, SameCall DEF TablesOK, Pumping
<1>5. PlacesOK'
  BY <1>2, InvParts DEF PlacesOK, FileOf
<1>6. \A p \in Pipe : (HasReader(p)' => HasReader(p)) /\ (HasWriter(p)' => HasWriter(p))
  BY <1>1, <1>2, FewerEnds
<1>7. OutputOK'
  BY <1>1, <1>2, <1>6, InvParts, SameCall DEF IsOpen, Dry, Output, Pipe, AllServed, Pumping,
     Before, OutputOK
<1>8. InputOK'
  BY <1>6, InvParts, <1>2, SameCall DEF Dry, Pipe, InputOK, AllServed, Pumping, IsOpen,
     CallType, FileOf
<1> QED  BY <1>3, <1>4, <1>5, <1>7, <1>8 DEF Inv

\* The parent has finished with a stream: poll had said nothing, or the read was
\* interrupted, or nothing will come any more.
LEMMA OutputServed ==
    ASSUME Inv, NEW s \in Output, parent.at = s, UNCHANGED <<call, child, pipe>>,
           interrupts' \in 0 .. Interrupts, NEW table, SameOrClosed(table, s),
           table # parent.fds => Dry(s),
           parent' = [parent EXCEPT !.at = AfterOutput(s), !.fds = table]
    PROVE  Inv'
<1>1. /\ table \in Table /\ OwnEndsAbove(table, call.closed, Needed)
      /\ \A end \in End : Holds(table, end) => Holds(parent.fds, end)
      /\ \A q \in Pipe \ {s} : Holds(table, ParentEnd(q)) <=> IsOpen(q)
  BY Closing DEF Pumping, Pipe, Output
<1>2. /\ parent'.at = AfterOutput(s) /\ parent'.fds = table /\ parent'.revents = parent.revents
      /\ parent'.offset = parent.offset /\ parent'.sent = parent.sent
      /\ parent'.read = parent.read /\ parent'.outcome = parent.outcome
      /\ parent.outcome = "none" /\ AfterOutput(s) \in {"stderr", "poll"}
  BY InvParts DEF ParentType, PlacesOK, AfterOutput, Output
<1>3. TypeOK'
  BY <1>1, <1>2, InvParts DEF TypeOK, ParentType
<1>4. TablesOK'
  BY <1>1, <1>2, InvParts, SameCall DEF TablesOK, Pumping
<1>5. PlacesOK'
  BY <1>2, InvParts DEF PlacesOK, FileOf
<1>6. \A p \in Pipe : (HasReader(p)' => HasReader(p)) /\ (HasWriter(p)' => HasWriter(p))
  BY <1>1, <1>2, FewerEnds
<1>7. \A p \in Pipe : Dry(p) => Dry(p)'
  BY <1>6 DEF Dry
<1>8. AllServed
  BY DEF AllServed, Pumping, Output
<1>9. OutputOK'
  BY <1>2, <1>7, <1>8, InvParts, <1>1, SameCall DEF OutputOK, IsOpen, Before, AfterOutput,
     Output, Pipe
<1>10. InputOK'
  BY <1>1, <1>2, <1>6, <1>7, <1>8, InvParts, SameCall DEF IsOpen, Output, Pipe, InputOK, FileOf
<1> QED  BY <1>3, <1>4, <1>5, <1>9, <1>10 DEF Inv

\* The write has put what it could in the pipe and returned.
LEMMA WroteKeeps ==
    ASSUME Inv, parent.at = "write", UNCHANGED <<call, child, pipe>>,
           interrupts' \in 0 .. Interrupts, parent' = Wrote(parent)
    PROVE  Inv'
BY InvParts, StdinServed DEF ParentType, Wrote, Close, SameOrClosed

\* The parent writes nothing this turn, or finds that nobody reads.
LEMMA NotWrittenKeeps ==
    ASSUME Inv, parent.at \in {"stdin", "write"}, parent.sent = 0, UNCHANGED <<call, child, pipe>>,
           interrupts' \in 0 .. Interrupts,
           \/ parent' = [parent EXCEPT !.at = "stdout"]
           \/ parent' = Close([parent EXCEPT !.at = "stdout"], "stdin") /\ ~HasReader("stdin")
    PROVE  Inv'
<1>1. parent.offset + parent.sent = parent.offset
  BY InvParts DEF ParentType
<1>2. CASE parent' = [parent EXCEPT !.at = "stdout"]
  <2>1. parent' = [parent EXCEPT !.at = "stdout", !.offset = @ + parent.sent, !.sent = 0,
                                 !.fds = parent.fds]
    BY <1>1, <1>2, InvParts DEF ParentType
  <2> QED  BY <2>1, StdinServed DEF SameOrClosed
<1>3. CASE parent' = Close([parent EXCEPT !.at = "stdout"], "stdin") /\ ~HasReader("stdin")
  <2>1. PICK table : table = CloseEnds(parent.fds, {ParentEnd("stdin")})
    OBVIOUS
  <2>2. parent' = [parent EXCEPT !.at = "stdout", !.fds = table]
    BY <1>3, <2>1, InvParts DEF ParentType, Close
  <2>3. parent' = [parent EXCEPT !.at = "stdout", !.offset = @ + parent.sent, !.sent = 0,
                                 !.fds = table]
    BY <1>1, <2>2, InvParts DEF ParentType
  <2> QED  BY <1>3, <2>1, <2>3, StdinServed DEF SameOrClosed
<1> QED  BY <1>2, <1>3

LEMMA ServeStdinKeeps ==
    ASSUME Inv, ServeStdin PROVE Inv'
<1>1. /\ parent.at = "stdin" /\ UNCHANGED <<call, child, pipe, interrupts>>
      /\ interrupts \in 0 .. Interrupts /\ parent.sent = 0
  BY InvParts DEF ServeStdin, TypeOK, InputOK
<1>2. CASE "OUT" \in parent.revents["stdin"]
  <2>1. parent' = [parent EXCEPT !.at = "write", !.sent = 0]
    BY <1>2 DEF ServeStdin
  <2>2. TypeOK'
    <3>1. parent' \in ParentType
      BY <2>1, InvParts DEF ParentType
    <3> QED  BY <1>1, <3>1, InvParts DEF TypeOK
  <2>3. TablesOK'
    BY <1>1, <2>1, InvParts, SameCall DEF TablesOK, Pumping, ParentType
  <2>4. PlacesOK'
    BY <1>1, <2>1, InvParts DEF PlacesOK, ParentType, FileOf
  <2>5. /\ \A p \in Pipe : IsOpen(p)' = IsOpen(p) /\ HasWriter(p)' = HasWriter(p)
        /\ HasReader("stdin")' = HasReader("stdin")
        /\ AllServed' /\ AllServed
    BY <1>1, <2>1, InvParts DEF IsOpen, HasWriter, HasReader, AllServed, Pumping, ParentType
  <2>6. OutputOK'
    BY <1>1, <2>1, <2>5, InvParts, SameCall DEF OutputOK, ParentType, Before, Dry, Output, Pipe
  <2>7. InputOK'
    BY <1>1, <1>2, <2>1, <2>5, InvParts, SameCall DEF InputOK, ParentType, Dry, FileOf, Pipe
  <2> QED  BY <2>2, <2>3, <2>4, <2>6, <2>7 DEF Inv
<1>3. CASE "OUT" \notin parent.revents["stdin"]
  BY <1>1, <1>3, InvParts, NotWrittenKeeps DEF InputOK, ServeStdin
<1> QED  BY <1>2, <1>3

LEMMA WriteChunkKeeps ==
    ASSUME Inv, WriteChunk PROVE Inv'
<1>1. /\ parent.at = "write" /\ UNCHANGED <<call, child, interrupts>>
      /\ parent' = [parent EXCEPT !.sent = @ + 1]
      /\ pipe' = [pipe EXCEPT !["stdin"] = @ + 1]
      /\ pipe["stdin"] < Capacity /\ IsOpen("stdin")
      /\ call.input - parent.offset - parent.sent > 0
  BY InvParts DEF WriteChunk, HasRoom, Remaining, InputOK
<1>2. /\ parent'.at = "write" /\ parent'.sent = parent.sent + 1 /\ parent'.offset = parent.offset
      /\ parent'.fds = parent.fds /\ parent'.read = parent.read /\ parent'.revents = parent.revents
      /\ parent'.outcome = parent.outcome /\ parent.sent \in Nat /\ parent.offset \in Nat
      /\ pipe'["stdin"] = pipe["stdin"] + 1 /\ \A s \in Output : pipe'[s] = pipe[s]
      /\ pipe["stdin"] \in Nat /\ call.input \in Nat /\ child.received \in Nat
  BY <1>1, InvParts DEF ParentType, ChildType, CallType, Output, Pipe
<1>3. TypeOK' BY <1>1, <1>2, InvParts DEF ParentType, Pipe, TypeOK
<1>4. TablesOK'
  BY <1>1, <1>2, InvParts, SameCall DEF TablesOK, Pumping
<1>5. PlacesOK'
  BY <1>1, <1>2, InvParts DEF PlacesOK, FileOf
<1>6. /\ \A p \in Pipe : (IsOpen(p)' <=> IsOpen(p)) /\ (HasWriter(p)' <=> HasWriter(p))
      /\ AllServed' /\ AllServed
  BY <1>1, <1>2 DEF IsOpen, HasWriter, AllServed, Pumping
<1>7. OutputOK'
  BY <1>1, <1>2, <1>6, InvParts, SameCall DEF OutputOK, Before, Dry, Output, Pipe
<1>8. InputOK'
  BY <1>1, InvParts, <1>2, <1>6, SameCall DEF InputOK, Dry, HasWriter, IsOpen, ParentEnd,
     FileOf, Pipe
<1> QED  BY <1>3, <1>4, <1>5, <1>7, <1>8 DEF Inv

LEMMA WriteReturnsKeeps ==
    ASSUME Inv, WriteReturns PROVE Inv'
BY InvParts, WroteKeeps DEF WriteReturns, TypeOK

\* The compiler is killed: it has no descriptors any more.
LEMMA KilledKeeps ==
    ASSUME Inv, parent.at = "write", UNCHANGED <<call, child, pipe, interrupts>>,
           parent' = [parent EXCEPT !.at = "ended", !.outcome = "killed", !.fds = NoFiles]
    PROVE  Inv'
<1>1. TypeOK'
  BY InvParts, NoPipes DEF TypeOK, ParentType
<1>2. TablesOK'
  BY InvParts, SameCall DEF TablesOK, Pumping, ParentType
<1>3. PlacesOK'
  BY InvParts DEF PlacesOK, ParentType, FileOf
<1>4. ~AllServed' /\ \A s \in Output : parent'.at \notin Before(s)
  BY InvParts DEF AllServed, Pumping, Before, ParentType
<1>5. OutputOK'
  BY <1>4, InvParts, SameCall DEF OutputOK, ParentType
<1>6. \A end \in End : ~Holds(parent.fds', end)
  BY InvParts, NoPipes DEF ParentType
<1>7. HasWriter("stdin")' => HasWriter("stdin")
  BY <1>6, FileKinds DEF HasWriter, Pipe
<1>8. InputOK'
  BY <1>4, <1>7, InvParts, SameCall DEF InputOK, ParentType, Dry, FileOf
<1> QED  BY <1>1, <1>2, <1>3, <1>5, <1>8 DEF Inv

LEMMA WriteBrokenKeeps ==
    ASSUME Inv, WriteBroken PROVE Inv'
BY InvParts, KilledKeeps, WroteKeeps, NotWrittenKeeps DEF WriteBroken, TypeOK, ParentType,
   NoFiles

LEMMA WriteInterruptedKeeps ==
    ASSUME Inv, WriteInterrupted PROVE Inv'
BY InvParts, Sizes, WroteKeeps, NotWrittenKeeps DEF WriteInterrupted, Interrupted, TypeOK,
   ParentType

LEMMA ServeOutputKeeps ==
    ASSUME Inv, NEW s \in Output, ServeOutput(s) PROVE Inv'
<1>1. /\ parent.at = s /\ UNCHANGED <<call, child, interrupts>> /\ s \in Pipe
      /\ interrupts \in 0 .. Interrupts
      /\ "IN" \in parent.revents[s] => pipe[s] > 0
      /\ parent.revents[s] # {} /\ "IN" \notin parent.revents[s] => Dry(s)
  BY InvParts DEF ServeOutput, TypeOK, OutputOK, Output, Before, Pipe
<1>2. PICK next : next = [parent EXCEPT !.at = AfterOutput(s)]
  OBVIOUS
<1>3. next.fds = parent.fds /\ next.read = parent.read /\ parent.fds \in Table
  BY <1>2, InvParts DEF ParentType
<1>4. CASE "IN" \in parent.revents[s]
  <2>1. parent' = [next EXCEPT !.read[s] = @ + 1] /\ pipe' = [pipe EXCEPT ![s] = @ - 1]
    BY <1>2, <1>4 DEF ServeOutput
  <2>2. /\ parent'.at = AfterOutput(s) /\ parent'.fds = parent.fds /\ parent'.revents = parent.revents
        /\ parent'.offset = parent.offset /\ parent'.sent = parent.sent
        /\ parent'.outcome = parent.outcome /\ parent.outcome = "none"
        /\ AfterOutput(s) \in {"stderr", "poll"}
        /\ parent'.read[s] = parent.read[s] + 1 /\ parent.read[s] \in Nat
        /\ pipe'[s] = pipe[s] - 1 /\ pipe[s] \in Nat
        /\ \A t \in Pipe \ {s} : pipe'[t] = pipe[t]
        /\ \A t \in Output \ {s} : parent'.read[t] = parent.read[t]
    BY <1>1, <1>2, <2>1, InvParts DEF ParentType, PlacesOK, AfterOutput, Output, Pipe
  <2>3. TypeOK'
    <3>1. PICK read \in [Output -> Nat] : read = [parent.read EXCEPT ![s] = @ + 1]
      <4>1. parent.read \in [Output -> Nat] /\ parent.read[s] + 1 \in Nat
        BY <2>2, InvParts DEF ParentType
      <4> QED  BY <4>1
    <3>2. parent' = [parent EXCEPT !.at = AfterOutput(s), !.read = read]
      BY <1>2, <2>1, <3>1, InvParts DEF ParentType
    <3>3. parent' \in ParentType
      BY <2>2, <3>1, <3>2, InvParts DEF ParentType
    <3>4. pipe' \in [Pipe -> 0 .. Capacity]
      BY <1>1, <1>4, <2>1, <2>2, InvParts
    <3> QED  BY <1>1, <3>3, <3>4, InvParts DEF TypeOK
  <2>4. TablesOK'
    BY <1>1, <2>2, InvParts, SameCall DEF TablesOK, Pumping, Output
  <2>5. PlacesOK'
    BY <1>1, <2>2, InvParts DEF PlacesOK, FileOf, Output
  <2>6. /\ \A p \in Pipe : (IsOpen(p)' <=> IsOpen(p)) /\ (HasWriter(p)' <=> HasWriter(p))
        /\ HasReader("stdin")' <=> HasReader("stdin")
        /\ AllServed' /\ AllServed
    BY <1>1, <2>2 DEF IsOpen, HasWriter, HasReader, AllServed, Pumping, Output
  <2>7. OutputOK'
    BY InvParts, <1>1, <1>4, <2>2, <2>6, SameCall DEF OutputOK, Output, Pipe, Dry, Before,
       AfterOutput
  <2>8. InputOK' BY <1>1, <2>2, <2>6, InvParts, SameCall DEF Output, Dry, Pipe, InputOK, FileOf
  <2> QED  BY <2>3, <2>4, <2>5, <2>7, <2>8 DEF Inv
<1>5. CASE "IN" \notin parent.revents[s] /\ parent.revents[s] = {}
  <2>1. parent' = next /\ pipe' = pipe
    BY <1>2, <1>5 DEF ServeOutput
  <2>2. parent' = [parent EXCEPT !.at = AfterOutput(s), !.fds = parent.fds]
    BY <1>2, <2>1, InvParts DEF ParentType
  <2> QED  BY <1>1, <2>1, <2>2, OutputServed DEF SameOrClosed
<1>6. CASE "IN" \notin parent.revents[s] /\ parent.revents[s] # {}
  BY <1>2, <1>6, <1>3, InvParts, <1>1, OutputServed DEF ServeOutput, ParentType, Close,
     SameOrClosed
<1> QED  BY <1>4, <1>5, <1>6

LEMMA ReadInterruptedKeeps ==
    ASSUME Inv, NEW s \in Output, ReadInterrupted(s) PROVE Inv'
<1>1. /\ parent.at = s /\ UNCHANGED <<call, child, pipe>> /\ interrupts' \in 0 .. Interrupts
      /\ parent' = [parent EXCEPT !.at = AfterOutput(s)]
  BY InvParts, Sizes DEF ReadInterrupted, Interrupted, TypeOK
<1>2. parent' = [parent EXCEPT !.at = AfterOutput(s), !.fds = parent.fds]
  BY <1>1, InvParts DEF ParentType
<1> QED  BY <1>1, <1>2, OutputServed DEF SameOrClosed

----------------------------------------------------------------------------
(* Waiting.                                                                *)

\* The call ends, and the child may be reaped with it.
LEMMA EndedKeeps ==
    ASSUME Inv, parent.at \in {"wait", "cleanup"}, UNCHANGED <<call, pipe>>,
           interrupts' \in 0 .. Interrupts,
           \/ child' = child
           \/ child.at = "exited" /\ child' = [child EXCEPT !.at = "reaped"],
           NEW outcome \in {"returned", "threw", "waitFailed"}, NEW exitCode \in -1 .. 255,
           outcome = "returned" => parent.at = "wait",
           outcome # "waitFailed" => child'.at = "reaped",
           parent' = [parent EXCEPT !.at = "ended", !.outcome = outcome, !.exitCode = exitCode]
    PROVE  Inv'
<1>1. /\ parent'.at = "ended" /\ parent'.outcome = outcome /\ parent'.fds = parent.fds
      /\ parent'.revents = parent.revents /\ parent'.offset = parent.offset
      /\ parent'.sent = parent.sent /\ parent'.read = parent.read /\ parent.outcome = "none"
  BY InvParts DEF ParentType, PlacesOK
<1>2. /\ child'.fds = child.fds /\ child'.produced = child.produced
      /\ child'.received = child.received /\ child'.sawEnd = child.sawEnd
      /\ \/ child'.at = child.at
         \/ child'.at = "reaped" /\ child.at = "exited"
  BY InvParts DEF ChildType
<1>3. TypeOK'
  <2>1. parent' \in ParentType
    BY InvParts DEF ParentType
  <2>2. child' \in ChildType
    BY InvParts DEF ChildType
  <2> QED  BY <2>1, <2>2, InvParts DEF TypeOK
<1>4. TablesOK'
  BY <1>1, <1>2, InvParts, SameCall DEF TablesOK, Pumping
<1>5. PlacesOK'
  BY <1>1, <1>2, InvParts DEF PlacesOK, FileOf, Output
<1>6. /\ \A p \in Pipe : (IsOpen(p)' <=> IsOpen(p)) /\ (HasWriter(p)' <=> HasWriter(p))
      /\ HasReader("stdin")' <=> HasReader("stdin")
      /\ AllServed' => AllServed
  BY <1>1, <1>2 DEF IsOpen, HasWriter, HasReader, AllServed, Pumping
<1>7. OutputOK'
  BY <1>1, <1>2, <1>6, InvParts, SameCall DEF OutputOK, Before, Dry, Output, Pipe
<1>8. InputOK'
  BY <1>1, <1>2, <1>6, InvParts, SameCall DEF InputOK, Dry, FileOf, Pipe
<1> QED  BY <1>3, <1>4, <1>5, <1>7, <1>8 DEF Inv

\* What waitpid reports is an exit code.
LEMMA ExitCodes == \A status \in Status : ExitCode(status) \in 0 .. 255
BY DEF ExitCode, Status

LEMMA WaitKeeps ==
    ASSUME Inv, Wait PROVE Inv'
<1>1. /\ parent.at = "wait" /\ child.at = "exited" /\ UNCHANGED <<call, pipe, interrupts>>
      /\ child' = [child EXCEPT !.at = "reaped"] /\ child'.at = "reaped"
      /\ interrupts' \in 0 .. Interrupts
      /\ parent' = [parent EXCEPT !.at = "ended", !.outcome = "returned",
                                  !.exitCode = ExitCode(child.status)]
  BY InvParts DEF Wait, Reap, TypeOK, ChildType
<1>2. PICK exitCode \in -1 .. 255 : exitCode = ExitCode(child.status)
  BY InvParts, ExitCodes DEF ChildType
<1> QED  BY <1>1, <1>2, EndedKeeps

LEMMA WaitAfterFailureKeeps ==
    ASSUME Inv, WaitAfterFailure PROVE Inv'
<1>1. /\ parent.at = "cleanup" /\ child.at = "exited" /\ UNCHANGED <<call, pipe, interrupts>>
      /\ child' = [child EXCEPT !.at = "reaped"] /\ child'.at = "reaped"
      /\ interrupts' \in 0 .. Interrupts /\ parent.exitCode \in -1 .. 255
      /\ parent' = [parent EXCEPT !.at = "ended", !.outcome = "threw", !.exitCode = parent.exitCode]
  BY InvParts DEF WaitAfterFailure, Reap, Throw, TypeOK, ChildType, ParentType
<1> QED  BY <1>1, EndedKeeps

LEMMA WaitInterruptedKeeps ==
    ASSUME Inv, WaitInterrupted PROVE Inv'
<1>1. /\ parent.at \in {"wait", "cleanup"} /\ UNCHANGED <<call, pipe>> /\ child' = child
      /\ interrupts' \in 0 .. Interrupts
      /\ parent' = [parent EXCEPT !.at = "ended", !.outcome = "waitFailed"]
  BY InvParts, Sizes DEF WaitInterrupted, Interrupted, TypeOK
<1>2. PICK exitCode \in -1 .. 255 : exitCode = parent.exitCode
  BY InvParts DEF ParentType
<1>3. parent' = [parent EXCEPT !.at = "ended", !.outcome = "waitFailed", !.exitCode = exitCode]
  BY <1>1, <1>2, InvParts DEF ParentType
<1> QED  BY <1>1, <1>3, EndedKeeps

----------------------------------------------------------------------------
(* The child.                                                              *)

\* What a started program may have of the pipes it loses by closing, and by no
\* other of its steps does it get any.
LEMMA OwnSideKept ==
    ASSUME NEW table \in Table, OwnSideOnly(table, Needed), NEW less \in Table,
           \A n \in Fd : less[n] \in {table[n], Closed}
    PROVE  /\ OwnSideOnly(less, Needed)
           /\ \A end \in End : Holds(less, end) => Holds(table, end)
BY FileKinds, NeededPipes DEF StreamNumber, Pipe, Fd, MaxFd, OwnSideOnly, Holds

\* A step of the child that moves no data.
LEMMA ChildKeeps ==
    ASSUME Inv, UNCHANGED <<call, parent, pipe, interrupts>>, child' \in ChildType,
           child.at # "none", child'.at \notin {"none", "forked"},
           child.at = "reaped" => child'.at = "reaped",
           child'.at \in Output => child'.fds[StreamNumber[child'.at]] # Closed,
           OwnSideOnly(child'.fds, Needed),
           \A end \in End : Holds(child'.fds, end) => Holds(child.fds, end),
           child'.produced = child.produced, child'.received = child.received,
           child'.sawEnd /\ child'.fds[0] = ChildEnd("stdin") => Dry("stdin")
    PROVE  Inv'
<1>1. TypeOK'
  BY InvParts DEF TypeOK
<1>2. TablesOK'
  BY InvParts, SameCall DEF TablesOK, PlacesOK, Pumping
<1>3. PlacesOK'
  BY InvParts DEF PlacesOK, FileOf
<1>4. \A p \in Pipe : (HasReader(p)' => HasReader(p)) /\ (HasWriter(p)' => HasWriter(p))
  BY FewerEnds
<1>5. /\ \A p \in Pipe : (IsOpen(p)' <=> IsOpen(p)) /\ (Dry(p) => Dry(p)')
      /\ AllServed' <=> AllServed
  BY <1>4 DEF IsOpen, Dry, AllServed, Pumping
<1>6. OutputOK'
  BY <1>5, InvParts, SameCall DEF OutputOK, Output, Pipe
<1>7. StreamNumber["stdin"] = 0 /\ "stdin" \in Pipe
  BY DEF StreamNumber, Pipe
<1>8. InputOK'
  BY <1>4, <1>5, <1>7, InvParts, SameCall DEF InputOK, FileOf
<1> QED  BY <1>1, <1>2, <1>3, <1>6, <1>8 DEF Inv

\* The descriptors of a program that has been started, closed one or all.
LEMMA ChildTables ==
    ASSUME Inv, child.at # "none"
    PROVE  /\ child.fds \in Table /\ NoFiles \in Table
           /\ OwnSideOnly(NoFiles, Needed)
           /\ child.at # "forked" => OwnSideOnly(child.fds, Needed)
           /\ \A end \in End : ~Holds(NoFiles, end)
BY InvParts, NoPipes, FileKinds, NeededPipes DEF ChildType, StreamNumber, Pipe, Fd, MaxFd,
   OwnSideOnly, NoFiles, TablesOK

LEMMA ExecKeeps ==
    ASSUME Inv, Exec PROVE Inv'
<1>1. child.at = "forked" /\ UNCHANGED <<call, parent, pipe, interrupts>>
  BY DEF Exec
<1>2. PICK k \in 3 .. MaxFd : HasPipes(child.fds, call.closed, Needed, k)
  BY <1>1, InvParts DEF TablesOK
<1>3. PICK hasNull \in BOOLEAN :
          child' = [child EXCEPT !.at = "running", !.fds = ChildTable(child.fds, hasNull)]
  BY InvParts DEF Exec, ChildType
<1>4. PICK table : table = ChildTable(child.fds, hasNull)
  OBVIOUS
<1>5. /\ table \in Table /\ OwnSideOnly(table, Needed)
      /\ \A p \in Needed : table[StreamNumber[p]] = ChildEnd(p)
  BY <1>2, <1>4, InvParts, ChildConnected
<1>6. \A end \in End : Holds(table, end) => Holds(child.fds, end)
  <2>1. \A p \in Needed : ChildEnd(p) \in Needed \X {"read", "write"}
    BY DEF ChildEnd
  <2>2. ASSUME NEW end \in End, Holds(table, end) PROVE \E p \in Needed : end = ChildEnd(p)
    BY <1>5, <2>2 DEF Holds, OwnSideOnly
  <2> QED  BY <1>2, <2>1, <2>2 DEF HasPipes
<1>7. /\ child' \in ChildType /\ child'.at = "running" /\ child'.fds = table
      /\ child'.produced = child.produced /\ child'.received = child.received
      /\ child'.sawEnd = child.sawEnd /\ ~child.sawEnd
  BY <1>1, <1>3, <1>4, <1>5, InvParts DEF ChildType, PlacesOK
<1> QED  BY <1>1, <1>5, <1>6, <1>7, ChildKeeps DEF Output

\* A program that has ended without leaving anything running.
LEMMA DeadKeeps ==
    ASSUME Inv, UNCHANGED <<call, parent, pipe, interrupts>>, child.at \notin {"none", "reaped"},
           NEW status \in Status, child' = Dead(child, status)
    PROVE  Inv'
<1>1. /\ child' \in ChildType /\ child'.at = "exited" /\ child'.fds = NoFiles
      /\ child'.produced = child.produced /\ child'.received = child.received
  BY InvParts, ChildTables DEF Dead, ChildType
<1>2. NoFiles[0] # ChildEnd("stdin")
  BY FileKinds DEF NoFiles, ChildEnd, Fd, MaxFd, Pipe
<1> QED  BY <1>1, <1>2, ChildKeeps, ChildTables DEF Output

LEMMA ExecFailsKeeps ==
    ASSUME Inv, ExecFails PROVE Inv'
BY DeadKeeps DEF Exited, Status, ExecFails

\* A step of a running program that leaves its descriptors alone.
LEMMA SameTableKeeps ==
    ASSUME Inv, UNCHANGED <<call, parent, pipe, interrupts>>, NEW at, NEW sawEnd \in BOOLEAN,
           child.at \notin {"none", "forked", "reaped"},
           at \in {"running", "reading"} \/ (at \in Output /\ FileOf(at) # Closed),
           sawEnd /\ FileOf("stdin") = ChildEnd("stdin") => Dry("stdin"),
           child' = [child EXCEPT !.at = at, !.sawEnd = sawEnd]
    PROVE  Inv'
BY InvParts, ChildKeeps, ChildTables DEF ChildType, Output, StreamNumber, Pipe, FileOf

LEMMA ChildCallsReadKeeps ==
    ASSUME Inv, ChildCallsRead PROVE Inv'
BY InvParts, SameTableKeeps DEF ChildCallsRead, ChildType

LEMMA ChildCallsWriteKeeps ==
    ASSUME Inv, NEW s \in Output, ChildCallsWrite(s) PROVE Inv'
<1>1. /\ child.at = "running" /\ FileOf(s) # Closed /\ UNCHANGED <<call, parent, pipe, interrupts>>
      /\ child.sawEnd \in BOOLEAN
      /\ child' = [child EXCEPT !.at = s, !.sawEnd = child.sawEnd]
  BY InvParts DEF ChildCallsWrite, ChildType
<1>2. child.sawEnd /\ FileOf("stdin") = ChildEnd("stdin") => Dry("stdin")
  BY InvParts DEF InputOK
<1> QED  BY <1>1, <1>2, SameTableKeeps

LEMMA ChildReadsKeeps ==
    ASSUME Inv, ChildReads PROVE Inv'
<1>1. child.at = "reading" /\ UNCHANGED <<call, parent, interrupts>> /\ "stdin" \in Pipe
  BY DEF ChildReads, Pipe
<1>2. CASE pipe' = pipe
  <2>1. CASE child' = [child EXCEPT !.at = "running", !.sawEnd = TRUE]
    <3>1. FileOf("stdin") = ChildEnd("stdin") => Dry("stdin")
      BY <1>1, <1>2, <2>1, InvParts DEF ChildReads, Dry, ChildEnd
    <3> QED  BY <1>1, <1>2, <2>1, <3>1, SameTableKeeps
  <2>2. CASE ~(child' = [child EXCEPT !.at = "running", !.sawEnd = TRUE])
    BY <2>2, <1>1, <1>2, InvParts DEF ChildReads
  <2> QED  BY <2>1, <2>2
<1>3. CASE pipe' # pipe
  <2>1. /\ pipe["stdin"] > 0 /\ pipe' = [pipe EXCEPT !["stdin"] = @ - 1]
        /\ child' = [child EXCEPT !.at = "running", !.received = @ + 1]
    BY <1>3 DEF ChildReads
  <2>2. /\ child'.at = "running" /\ child'.fds = child.fds /\ child'.produced = child.produced
        /\ child'.received = child.received + 1 /\ child'.sawEnd = child.sawEnd
        /\ child.received \in Nat /\ pipe["stdin"] \in Nat
        /\ pipe'["stdin"] = pipe["stdin"] - 1 /\ \A s \in Output : pipe'[s] = pipe[s]
    BY <2>1, InvParts DEF ChildType, Output, Pipe
  <2>3. TypeOK'
    <3>1. child' \in ChildType
      <4>1. PICK received \in Nat : received = child.received + 1
        BY <2>2
      <4>2. child' = [child EXCEPT !.at = "running", !.received = received]
        BY <2>1, <4>1, InvParts DEF ChildType
      <4> QED  BY <4>2, InvParts DEF ChildType
    <3>2. pipe' \in [Pipe -> 0 .. Capacity]
      BY <1>1, <2>1, <2>2, InvParts
    <3> QED  BY <1>1, <3>1, <3>2, InvParts DEF TypeOK
  <2>4. TablesOK'
    BY <1>1, <2>2, InvParts, SameCall DEF TablesOK, PlacesOK, Pumping
  <2>5. PlacesOK'
    BY <1>1, <2>2, InvParts DEF PlacesOK, FileOf, Output
  <2>6. /\ \A p \in Pipe : (IsOpen(p)' <=> IsOpen(p)) /\ (HasWriter(p)' <=> HasWriter(p))
        /\ HasReader("stdin")' <=> HasReader("stdin")
        /\ AllServed' <=> AllServed
    BY <1>1, <2>2 DEF IsOpen, HasWriter, HasReader, AllServed, Pumping
  <2>7. OutputOK'
    BY <1>1, <2>2, <2>6, InvParts, SameCall DEF OutputOK, Dry, Output, Pipe
  <2>8. InputOK'
    BY <2>1, InvParts, <1>1, <2>2, <2>6, SameCall DEF InputOK, Dry, ParentType, FileOf
  <2> QED  BY <2>3, <2>4, <2>5, <2>7, <2>8 DEF Inv
<1> QED  BY <1>2, <1>3

\* The stream the program writes to is the pipe made for it, if it is a pipe;
\* and if it is none, no pipe was made for it.
LEMMA WritesWhere ==
    ASSUME Inv, NEW s \in Output, child.at = s
    PROVE  /\ FileOf(s) \in End => s \in Needed /\ FileOf(s) = ChildEnd(s) /\ FileOf(s)[1] = s
           /\ FileOf(s) \notin End => s \notin Needed
<1>1. FileOf(s) # Closed /\ OwnSideOnly(child.fds, Needed) /\ StreamNumber[s] \in Fd
  BY InvParts DEF PlacesOK, TablesOK, StreamNumber, Output, Pipe, Fd, MaxFd
<1>2. \A p \in Pipe : StreamNumber[p] = StreamNumber[s] => p = s
  BY DEF StreamNumber, Output, Pipe
<1>3. ASSUME FileOf(s) \in End PROVE s \in Needed /\ FileOf(s) = ChildEnd(s)
  BY <1>1, <1>2, <1>3, NeededPipes DEF OwnSideOnly, FileOf
<1>4. ASSUME FileOf(s) \notin End PROVE s \notin Needed
  BY <1>1, <1>4, Ends, NeededPipes DEF OwnSideOnly, FileOf
<1> QED  BY <1>3, <1>4 DEF ChildEnd

LEMMA ChildWritesKeeps ==
    ASSUME Inv, NEW s \in Output, ChildWrites(s) PROVE Inv'
<1>1. child.at = s /\ UNCHANGED <<call, parent, interrupts>> /\ s \in Pipe /\ s # "stdin"
  BY DEF ChildWrites, Output, Pipe
<1>2. PICK wrote : wrote = [child EXCEPT !.at = "running", !.produced[s] = @ + 1]
  OBVIOUS
<1>3. /\ FileOf(s) \in End => s \in Needed /\ FileOf(s) = ChildEnd(s) /\ FileOf(s)[1] = s
      /\ FileOf(s) \notin End => s \notin Needed
  BY <1>1, WritesWhere
<1>4. \/ FileOf(s) \notin End /\ child' = wrote /\ pipe' = pipe
      \/ /\ FileOf(s) \in End /\ HasRoom(s)
         /\ child' = wrote /\ pipe' = [pipe EXCEPT ![s] = @ + 1]
      \/ /\ pipe' = pipe
         /\ child' = Dead(child, IF call.sigpipeIgnored THEN Exited(1) ELSE SIGPIPE)
  BY <1>1, <1>2, <1>3 DEF ChildWrites
<1>5. /\ wrote.at = "running" /\ wrote.fds = child.fds /\ wrote.received = child.received
      /\ wrote.sawEnd = child.sawEnd
      /\ wrote.produced[s] = child.produced[s] + 1 /\ child.produced[s] \in Nat
      /\ \A t \in Output \ {s} : wrote.produced[t] = child.produced[t]
      /\ wrote \in ChildType
  <2>1. PICK produced \in [Output -> Nat] : produced = [child.produced EXCEPT ![s] = @ + 1]
    <3>1. child.produced \in [Output -> Nat] /\ child.produced[s] + 1 \in Nat
      BY InvParts DEF ChildType
    <3> QED  BY <3>1
  <2>2. wrote = [child EXCEPT !.at = "running", !.produced = produced]
    BY <1>2, <2>1, InvParts DEF ChildType
  <2>3. wrote \in ChildType
    BY <2>1, <2>2, InvParts DEF ChildType
  <2> QED  BY <2>1, <2>2, <2>3, InvParts DEF ChildType
<1>6. CASE child' = Dead(child, IF call.sigpipeIgnored THEN Exited(1) ELSE SIGPIPE) /\ pipe' = pipe
  <2>1. PICK status \in Status : status = IF call.sigpipeIgnored THEN Exited(1) ELSE SIGPIPE
    <3>1. Exited(1) \in Status
      BY DEF Status, Exited
    <3>2. SIGPIPE \in Status
      BY DEF Status, SIGPIPE
    <3> QED  BY <3>1, <3>2
  <2> QED  BY <1>1, <1>6, <2>1, DeadKeeps DEF Output
<1>7. CASE /\ child' = wrote
           /\ \/ FileOf(s) \notin End /\ pipe' = pipe
              \/ FileOf(s) \in End /\ HasRoom(s) /\ pipe' = [pipe EXCEPT ![s] = @ + 1]
  <2>1. /\ \A p \in Pipe \ {s} : pipe'[p] = pipe[p]
        /\ FileOf(s) \notin End => pipe'[s] = pipe[s]
        /\ FileOf(s) \in End => pipe'[s] = pipe[s] + 1
        /\ pipe[s] \in Nat /\ pipe' \in [Pipe -> 0 .. Capacity]
    BY <1>1, <1>7, InvParts DEF HasRoom
  <2>2. TypeOK'
    BY <1>1, <1>5, <1>7, <2>1, InvParts DEF TypeOK
  <2>3. TablesOK'
    BY <1>1, <1>5, <1>7, InvParts, SameCall DEF TablesOK, PlacesOK, Pumping, Output
  <2>4. PlacesOK'
    BY <1>1, <1>5, <1>7, InvParts DEF PlacesOK, FileOf, Output
  <2>5. /\ \A p \in Pipe : (IsOpen(p)' <=> IsOpen(p)) /\ (HasWriter(p)' <=> HasWriter(p))
        /\ HasReader("stdin")' <=> HasReader("stdin")
        /\ AllServed' <=> AllServed
    BY <1>1, <1>5, <1>7 DEF IsOpen, HasWriter, HasReader, AllServed, Pumping
  <2>6. s \in Needed => ~Dry(s)
    BY <1>1, <1>3 DEF StreamNumber, Pipe, Fd, MaxFd, HasWriter, Holds, FileOf, Dry, ChildEnd
  <2>7. OutputOK'
    <3>1. ASSUME NEW t \in Output, t \in Needed
          PROVE  child'.produced[t] = parent.read[t] + pipe'[t]
      BY <3>1, InvParts, <1>3, <1>5, <1>7, <2>1, NeededPipes DEF OutputOK, ParentType
    <3>2. ASSUME NEW t \in Output, Dry(t) PROVE Dry(t)'
      BY <2>6, <3>2, <1>3, <1>7, <2>1, <2>5 DEF Output, Pipe, Dry
    <3>3. ASSUME NEW t \in Output, pipe[t] > 0 PROVE pipe'[t] > 0
      BY <2>1, <3>3, InvParts DEF Output, Pipe
    <3>4. \A t \in Output : IsOpen(t)' <=> IsOpen(t)
      BY <2>5 DEF Output, Pipe
    <3> QED  BY <1>1, <2>5, <3>1, <3>2, <3>3, <3>4, InvParts, SameCall DEF OutputOK
  <2>8. InputOK'
    BY <1>1, <2>1, <1>5, <1>7, <2>5, InvParts, SameCall DEF Pipe, InputOK, FileOf, Dry
  <2> QED  BY <2>2, <2>3, <2>4, <2>7, <2>8 DEF Inv
<1> QED  BY <1>4, <1>6, <1>7

LEMMA ChildClosesKeeps ==
    ASSUME Inv, NEW p \in Pipe, ChildCloses(p) PROVE Inv'
<1>1. /\ child.at = "running" /\ UNCHANGED <<call, parent, pipe, interrupts>>
      /\ StreamNumber[p] \in Fd
  BY DEF ChildCloses, StreamNumber, Pipe, Fd, MaxFd
<1>2. PICK less : less = [child.fds EXCEPT ![StreamNumber[p]] = Closed]
  OBVIOUS
<1>3. child' = [child EXCEPT !.fds = less] /\ child.fds \in Table
  BY <1>2, InvParts DEF ChildCloses, ChildType
<1>4. less \in Table /\ \A n \in Fd : less[n] \in {child.fds[n], Closed}
  BY <1>1, <1>2, <1>3 DEF Table, File
<1>5. /\ child' \in ChildType /\ child'.at = "running" /\ child'.fds = less
      /\ child'.produced = child.produced /\ child'.received = child.received
      /\ child'.sawEnd = child.sawEnd
  BY <1>1, <1>3, <1>4, InvParts DEF ChildType
<1>6. /\ OwnSideOnly(less, Needed)
      /\ \A end \in End : Holds(less, end) => Holds(child.fds, end)
  BY <1>1, <1>3, <1>4, ChildTables, OwnSideKept
<1>7. child.sawEnd /\ less[0] = ChildEnd("stdin") => Dry("stdin")
  BY FileKinds, <1>4, InvParts DEF StreamNumber, Pipe, Fd, MaxFd, ChildEnd, InputOK, FileOf
<1> QED  BY <1>1, <1>5, <1>6, <1>7, ChildKeeps DEF Output

LEMMA ChildExitsKeeps ==
    ASSUME Inv, ChildExits PROVE Inv'
<1>1. child.at = "running" /\ UNCHANGED <<call, parent, pipe, interrupts>>
  BY DEF ChildExits
<1>2. PICK value \in {0, 1}, kept \in {child.fds, NoFiles} :
          child' = [child EXCEPT !.at = "exited", !.status = Exited(value), !.fds = kept]
  BY DEF ChildExits
<1>3. /\ kept \in Table /\ OwnSideOnly(kept, Needed) /\ Exited(value) \in Status
      /\ \A end \in End : Holds(kept, end) => Holds(child.fds, end)
  BY <1>1, ChildTables DEF Exited, Status
<1>4. /\ child' \in ChildType /\ child'.at = "exited" /\ child'.fds = kept
      /\ child'.produced = child.produced /\ child'.received = child.received
      /\ child'.sawEnd = child.sawEnd
  BY <1>2, <1>3, InvParts DEF ChildType
<1>5. child.sawEnd /\ kept[0] = ChildEnd("stdin") => Dry("stdin")
  BY FileKinds, InvParts DEF StreamNumber, NoFiles, ChildEnd, Fd, MaxFd, Pipe, InputOK, FileOf
<1> QED  BY <1>1, <1>3, <1>4, <1>5, ChildKeeps DEF Output

LEMMA DescendantsEndKeeps ==
    ASSUME Inv, DescendantsEnd PROVE Inv'
BY InvParts, ChildTables, FileKinds, ChildKeeps DEF DescendantsEnd, ChildType, NoFiles,
   ChildEnd, Fd, MaxFd, Pipe, Output

----------------------------------------------------------------------------
(* The theorems.                                                           *)

LEMMA InvStep == Inv /\ [Next]_vars => Inv'
<1> SUFFICES ASSUME Inv, [Next]_vars PROVE Inv'
  OBVIOUS
<1>1. CASE ParentStep
  <2>1. CASE StartFails \/ OpenPipes \/ Fork
    BY <2>1, StartFailsKeeps, OpenPipesKeeps, ForkKeeps
  <2>2. CASE PollInterrupted \/ PollFails \/ Poll \/ PumpEnds
    BY <2>2, PollInterruptedKeeps, PollFailsKeeps, PollKeeps, PumpEndsKeeps
  <2>3. CASE ServeStdin \/ WriteChunk \/ WriteReturns \/ WriteBroken \/ WriteInterrupted
    BY <2>3, ServeStdinKeeps, WriteChunkKeeps, WriteReturnsKeeps, WriteBrokenKeeps,
       WriteInterruptedKeeps
  <2>4. CASE \E s \in Output : ServeOutput(s) \/ ReadInterrupted(s)
    BY <2>4, ServeOutputKeeps, ReadInterruptedKeeps
  <2>5. CASE Wait \/ WaitAfterFailure \/ WaitInterrupted
    BY <2>5, WaitKeeps, WaitAfterFailureKeeps, WaitInterruptedKeeps
  <2> QED  BY <1>1, <2>1, <2>2, <2>3, <2>4, <2>5 DEF ParentStep
<1>2. CASE ChildStep
  <2>1. CASE Exec \/ ExecFails \/ ChildExits \/ DescendantsEnd
    BY <2>1, ExecKeeps, ExecFailsKeeps, ChildExitsKeeps, DescendantsEndKeeps
  <2>2. CASE ChildCallsRead \/ ChildReads
    BY <2>2, ChildCallsReadKeeps, ChildReadsKeeps
  <2>3. CASE \E s \in Output : ChildCallsWrite(s) \/ ChildWrites(s)
    BY <2>3, ChildCallsWriteKeeps, ChildWritesKeeps
  <2>4. CASE \E p \in Pipe : ChildCloses(p)
    BY <2>4, ChildClosesKeeps
  <2> QED  BY <1>2, <2>1, <2>2, <2>3, <2>4 DEF ChildStep
<1>3. CASE UNCHANGED vars
  BY <1>3, InvParts, SameCall
  DEF vars, Inv, TypeOK, TablesOK, PlacesOK, OutputOK, InputOK, Pumping, AllServed, IsOpen, Dry,
      HasWriter, HasReader, FileOf
<1> QED  BY <1>1, <1>2, <1>3 DEF Next, Finished

\* In every reachable state the tables hold what their place says, and every
\* chunk that was written is read or in a pipe.
THEOREM InvHolds == Spec => []Inv
<1>1. Init => Inv
  BY InvInit
<1>2. Inv /\ [Next]_vars => Inv'
  BY InvStep
<1> QED  BY <1>1, <1>2, PTL DEF Spec

\* The state of a call is always of its type: no pipe holds more than its
\* capacity or less than nothing.
THEOREM TypeCorrect == Spec => []TypeOK
<1>1. Inv => TypeOK
  BY DEF Inv
<1> QED  BY <1>1, InvHolds, PTL

\* runProcess returns with all the output the child and its descendants wrote
\* to the captured streams, however reads and writes interleave, whichever
\* calls a signal interrupts, and whenever the child closes its streams or ends.
THEOREM AllOutputRead == Spec => []OutputComplete
<1>1. Inv => OutputComplete
  <2> SUFFICES ASSUME Inv, parent.outcome = "returned", NEW s \in Output, PipeNeeded(s)
               PROVE  parent.read[s] = child.produced[s]
    BY DEF OutputComplete
  <2>1. parent.at = "ended" /\ s \in Needed /\ AllServed
    BY InvParts DEF PlacesOK, AllServed, Needed, Output, Pipe
  <2>2. ~IsOpen(s)
    BY <2>1, ParentHolds DEF Pumping, Output, Pipe
  <2>3. pipe[s] = 0 /\ child.produced[s] = parent.read[s] + pipe[s]
    BY <2>1, <2>2, InvParts DEF OutputOK, Dry
  <2> QED  BY <2>3, InvParts DEF ParentType
<1> QED  BY <1>1, InvHolds, PTL

\* A child that sees the end of its input has had all of stdinData, unless the
\* call was given up: the writes of pumpIo lose and repeat nothing.
THEOREM AllInputWritten == Spec => []InputComplete
<1>1. Inv => InputComplete
  <2> SUFFICES ASSUME Inv, child.sawEnd, FileOf("stdin") = <<"stdin", "read">>,
                      parent.at # "cleanup", parent.outcome \notin {"threw", "waitFailed", "killed"}
               PROVE  child.received = call.input
    BY DEF InputComplete
  <2>1. Dry("stdin") /\ FileOf("stdin") = ChildEnd("stdin")
    BY InvParts DEF InputOK, ChildEnd
  <2>2. child.at \notin {"none", "forked"}
    BY InvParts DEF PlacesOK
  <2>3. AllServed
    BY <2>2, InvParts DEF AllServed, Pumping, PlacesOK, ParentType
  <2>4. ~IsOpen("stdin")
    BY <2>1 DEF Dry, HasWriter, IsOpen, ParentEnd
  <2>5. HasReader("stdin") /\ "stdin" \in Needed
    <3>1. StreamNumber["stdin"] \in Fd
      BY DEF StreamNumber, Pipe, Fd, MaxFd
    <3>2. HasReader("stdin")
      BY <3>1 DEF HasReader, Holds, FileOf
    <3>3. ChildEnd("stdin") \in End /\ \A p \in Pipe : ChildEnd(p) = ChildEnd("stdin") => p = "stdin"
      BY Ends DEF Pipe
    <3> QED  BY <2>1, <2>2, <3>1, <3>2, <3>3, InvParts, NeededPipes DEF TablesOK, OwnSideOnly, FileOf
  <2>6. parent.offset = call.input
    BY <2>3, <2>4, <2>5, InvParts DEF InputOK
  <2>7. child.received = parent.offset + parent.sent /\ parent.offset + parent.sent <= call.input
    BY <2>1, InvParts DEF Dry, ChildType, InputOK
  <2> QED  BY <2>6, <2>7, InvParts DEF ParentType, CallType
<1> QED  BY <1>1, InvHolds, PTL

\* However runProcess ends, short of the compiler being killed, every pipe it
\* opened is closed, no standard stream was touched, and the child is reaped
\* unless waitpid was interrupted.
THEOREM CleansUp == Spec => []NothingLeft
<1>1. Inv => NothingLeft
  BY InvParts DEF NothingLeft, Ended, TablesOK, PlacesOK, ParentType
<1> QED  BY <1>1, InvHolds, PTL

\* The program starts with the pipes made for it as its standard streams, and
\* with no other end of a pipe, whichever of these streams the compiler itself
\* was started without.
THEOREM ProgramConnected == Spec => StreamsConnected
<1> DEFINE Connected ==
        child.at = "forked" /\ child'.at = "running" =>
            /\ \A p \in Pipe : PipeNeeded(p) =>
                child'.fds[StreamNumber[p]] = <<p, IF p = "stdin" THEN "read" ELSE "write">>
            /\ ~call.capture /\ 1 \notin call.closed => child'.fds[1] = Path
            /\ \A n \in Fd : child'.fds[n] \in End =>
                n <= 2 /\ \E p \in Pipe : n = StreamNumber[p] /\ PipeNeeded(p)
<1>1. Inv /\ [Next]_vars => [Connected]_vars
  <2> SUFFICES ASSUME Inv, Next, child.at = "forked", child'.at = "running" PROVE Connected
    OBVIOUS
  <2>1. Exec
    <3>1. CASE ParentStep
      BY <3>1, InvParts
      DEF ParentStep, StartFails, OpenPipes, Fork, PollInterrupted, PollFails, Poll, PumpEnds,
          ServeStdin, WriteChunk, WriteReturns, WriteBroken, WriteInterrupted, ServeOutput,
          ReadInterrupted, Wait, WaitAfterFailure, WaitInterrupted, Reap, PlacesOK, ChildType
    <3>2. CASE ChildStep
      <4>1. ExecFails => child'.at = "exited"
        BY InvParts DEF ExecFails, Dead, ChildType
      <4> QED
        BY <3>2, <4>1
        DEF ChildStep, ChildCallsRead, ChildReads, ChildCallsWrite, ChildWrites, ChildCloses,
            ChildExits, DescendantsEnd, Output
    <3>3. CASE Finished
      BY <3>3 DEF Finished
    <3> QED  BY <3>1, <3>2, <3>3 DEF Next
  <2>2. PICK k \in 3 .. MaxFd : HasPipes(child.fds, call.closed, Needed, k)
    BY InvParts DEF TablesOK
  <2>3. PICK hasNull \in BOOLEAN : child'.fds = ChildTable(child.fds, hasNull)
    BY <2>1, InvParts DEF Exec, ChildType
  <2>4. /\ \A p \in Needed : child'.fds[StreamNumber[p]] = ChildEnd(p)
        /\ OwnSideOnly(child'.fds, Needed)
        /\ ~call.capture /\ 1 \notin call.closed => child'.fds[1] = Path
    BY <2>2, <2>3, InvParts, ChildConnected
  <2>5. \A p \in Pipe : StreamNumber[p] <= 2
    BY DEF StreamNumber, Pipe
  <2> QED  BY <2>4, <2>5 DEF OwnSideOnly, Needed, ChildEnd
<1> QED  BY <1>1, InvHolds, PTL DEF Spec, StreamsConnected

=============================================================================
