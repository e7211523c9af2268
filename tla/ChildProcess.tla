---------------------------- MODULE ChildProcess ----------------------------
(***************************************************************************)
(* One call of runProcess (src/src/util/Process.cpp): the compiler starts  *)
(* the preprocessor, the assembler or the linker as a child and moves data *)
(* through up to three pipes until the child's side of all of them is      *)
(* closed, then waits for it.  Parent and child are two processes, and the *)
(* pipes are bounded buffers; data are counted in chunks (kIoChunk), and a *)
(* pipe has room for Capacity of them.                                     *)
(***************************************************************************)
EXTENDS Descriptors

CONSTANTS
    Capacity,   \* the chunks a pipe has room for
    Interrupts, \* bounds the signals that interrupt the parent's calls
    Calls       \* the calls and their circumstances

\* input    the size of stdinData; 0 is no data, and then no pipe
\* output   bounds what the child writes to each of its streams
\* capture  stdoutPath is empty, and the output is captured
\* closed   the standard streams the compiler was started without
\* sigpipeIgnored  the disposition of SIGPIPE it has inherited
CallType ==
    [input: Nat, output: Nat, capture: BOOLEAN, closed: SUBSET (0 .. 2), sigpipeIgnored: BOOLEAN]

ASSUME Sizes ==
    Capacity \in Nat \ {0} /\ Interrupts \in Nat /\ \A c \in Calls : c \in CallType

VARIABLES
    call,       \* the one of Calls that is made
    parent,     \* the caller: see ParentType
    child,      \* the program it runs: see ChildType
    pipe,       \* the chunks in each pipe
    interrupts  \* the signals still to come

vars == <<call, parent, child, pipe, interrupts>>

Output == {"stdout", "stderr"}
StreamNumber == [p \in Pipe |-> CASE p = "stdin" -> 0 [] p = "stdout" -> 1 [] p = "stderr" -> 2]
Revents == SUBSET {"IN", "OUT", "ERR", "HUP"}

\* at       where the parent is in runProcess and pumpIo
\* revents  what the last poll said of each pipe; none of one not polled
\* offset   stdinOffset, the chunks written by the writes that have returned
\* sent     the chunks the write in progress has put in the pipe
\* read     the chunks appended to the captured output of each stream
\* exitCode the result's; outcome says how the call ended
ParentType ==
    [at: {"start", "fork", "poll", "stdin", "write", "stdout", "stderr", "cleanup", "wait", "ended"},
     fds: Table, revents: [Pipe -> Revents], offset: Nat, sent: Nat,
     read: [Output -> Nat], exitCode: -1 .. 255,
     outcome: {"none", "returned", "threw", "waitFailed", "killed"}]

\* at        what the child does: a call to read or write blocks it
\* received  the chunks it has read, and whether it has seen the end of them
\* produced  the chunks it has written to each stream
\* status    what waitpid will report of its end
Status == [how: {"exited", "signaled"}, value: 0 .. 127]
Exited(value) == [how |-> "exited", value |-> value]
SIGPIPE == [how |-> "signaled", value |-> 13]

ChildType ==
    [at: {"none", "forked", "running", "reading", "stdout", "stderr", "exited", "reaped"},
     fds: Table, received: Nat, sawEnd: BOOLEAN, produced: [Output -> Nat], status: Status]

----------------------------------------------------------------------------
(* Pipes.                                                                  *)

Holds(table, end) == \E n \in Fd : table[n] = end
HasReader(p) == Holds(parent.fds, <<p, "read">>) \/ Holds(child.fds, <<p, "read">>)
HasWriter(p) == Holds(parent.fds, <<p, "write">>) \/ Holds(child.fds, <<p, "write">>)
HasRoom(p) == pipe[p] < Capacity

\* the end of each pipe the pump works on, while it is open
ParentEnd(p) == <<p, IF p = "stdin" THEN "write" ELSE "read">>
IsOpen(p) == Holds(parent.fds, ParentEnd(p))

\* poll(2): a full pipe cannot be written, an empty one not read; the other
\* side having closed is reported whatever was asked for
Reported(p) ==
    IF p = "stdin"
    THEN (IF HasRoom(p) THEN {"OUT"} ELSE {}) \cup (IF HasReader(p) THEN {} ELSE {"ERR"})
    ELSE (IF pipe[p] > 0 THEN {"IN"} ELSE {}) \cup (IF HasWriter(p) THEN {} ELSE {"HUP"})

Interrupted == interrupts > 0 /\ interrupts' = interrupts - 1

\* closeFd on the parent's end
Close(who, p) == [who EXCEPT !.fds = CloseEnds(@, {ParentEnd(p)})]

----------------------------------------------------------------------------
(* Starting the child.                                                     *)

Init ==
    /\ call \in Calls
    /\ parent = [at |-> "start", fds |-> Started(call.closed), revents |-> [p \in Pipe |-> {}],
                 offset |-> 0, sent |-> 0, read |-> [s \in Output |-> 0],
                 exitCode |-> -1, outcome |-> "none"]
    /\ child = [at |-> "none", fds |-> [n \in Fd |-> Closed], received |-> 0, sawEnd |-> FALSE,
                produced |-> [s \in Output |-> 0], status |-> Exited(0)]
    /\ pipe = [p \in Pipe |-> 0]
    /\ interrupts = Interrupts

Feeds == call.input > 0
PipeNeeded(p) == CASE p = "stdin" -> Feeds [] p = "stdout" -> call.capture [] p = "stderr" -> TRUE
WithPipe(table, p) == IF PipeNeeded(p) THEN OpenPipe(table, p) ELSE table

Throw(who) == [who EXCEPT !.at = "ended", !.outcome = "threw"]

\* mutant of CleanupPipes: the pipe opened last is forgotten
CleanupFirstPipes(table) == CloseEnds(table, {"stdin", "stdout"} \X {"read", "write"})

\* a pipe that cannot be opened, or a fork that fails: close what there is
CleanupPipes(table) == CloseEnds(table, End)

StartFails ==
    /\ parent.at \in {"start", "fork"}
    /\ parent' = Throw([parent EXCEPT !.fds = CleanupPipes(@)])
    /\ UNCHANGED <<call, child, pipe, interrupts>>

OpenPipes ==
    /\ parent.at = "start"
    /\ parent' = [parent EXCEPT !.at = "fork",
                  !.fds = WithPipe(WithPipe(WithPipe(@, "stdin"), "stdout"), "stderr")]
    /\ UNCHANGED <<call, child, pipe, interrupts>>

\* the child has copies of the parent's descriptors; the parent keeps its own
\* side of the pipes only
ParentSide(table) ==
    CloseEnds(table, {<<"stdin", "read">>, <<"stdout", "write">>, <<"stderr", "write">>})

Fork ==
    /\ parent.at = "fork"
    /\ parent' = [parent EXCEPT !.at = "poll", !.fds = ParentSide(@)]
    /\ child' = [child EXCEPT !.at = "forked", !.fds = parent.fds]
    /\ UNCHANGED <<call, pipe, interrupts>>

\* the redirections of the child, in their order; /dev/null may be missing
Redirected(table, hasNull) ==
    LET stderr == Redirect(table, Number(table, <<"stderr", "write">>), 2)
        stdin == IF Feeds THEN Redirect(stderr, Number(table, <<"stdin", "read">>), 0)
                 ELSE IF hasNull THEN RedirectFile(stderr, DevNull, 0) ELSE stderr
    IN  IF call.capture THEN Redirect(stdin, Number(table, <<"stdout", "write">>), 1)
        ELSE RedirectFile(stdin, Path, 1)

\* then it closes the numbers the pipes have in the parent
ChildTable(table, hasNull) ==
    CloseNumbers(Redirected(table, hasNull), {n \in Fd : table[n] \in End})

NoFiles == [n \in Fd |-> Closed]
Dead(who, status) == [who EXCEPT !.at = "exited", !.status = status, !.fds = NoFiles]

Exec ==
    /\ child.at = "forked"
    /\ \E hasNull \in BOOLEAN :
        child' = [child EXCEPT !.at = "running", !.fds = ChildTable(@, hasNull)]
    /\ UNCHANGED <<call, parent, pipe, interrupts>>

\* 126: no file at stdoutPath, or a redirection failed; 127: nothing to execute
ExecFails ==
    /\ child.at = "forked"
    /\ \E value \in {126, 127} : child' = Dead(child, Exited(value))
    /\ UNCHANGED <<call, parent, pipe, interrupts>>

----------------------------------------------------------------------------
(* The parent: pumpIo, one call to the system at a time.                   *)

PollInterrupted ==
    /\ parent.at = "poll" /\ \E p \in Pipe : IsOpen(p)
    /\ Interrupted
    /\ UNCHANGED <<call, parent, child, pipe>>

\* any other failure of poll: close the pipes and wait for the child to end
PollFails ==
    /\ parent.at = "poll" /\ \E p \in Pipe : IsOpen(p)
    /\ parent' = [parent EXCEPT !.at = "cleanup", !.fds = CleanupPipes(@)]
    /\ UNCHANGED <<call, child, pipe, interrupts>>

Poll ==
    /\ parent.at = "poll"
    /\ \E p \in Pipe : IsOpen(p) /\ Reported(p) # {}
    /\ parent' = [parent EXCEPT !.at = "stdin",
                  !.revents = [p \in Pipe |-> IF IsOpen(p) THEN Reported(p) ELSE {}]]
    /\ UNCHANGED <<call, child, pipe, interrupts>>

PumpEnds ==
    /\ parent.at = "poll" /\ \A p \in Pipe : ~IsOpen(p)
    /\ parent' = [parent EXCEPT !.at = "wait"]
    /\ UNCHANGED <<call, child, pipe, interrupts>>

ServeStdin ==
    /\ parent.at = "stdin"
    /\ LET revents == parent.revents["stdin"]
       IN  parent' = IF "OUT" \in revents THEN [parent EXCEPT !.at = "write", !.sent = 0]
                     ELSE IF revents = {} THEN [parent EXCEPT !.at = "stdout"]
                     ELSE Close([parent EXCEPT !.at = "stdout"], "stdin")
    /\ UNCHANGED <<call, child, pipe, interrupts>>

\* write(2) on a pipe that blocks: it returns when everything is in the pipe,
\* and earlier only if the last reader goes or a signal comes
Remaining == call.input - parent.offset - parent.sent

WriteChunk ==
    /\ parent.at = "write" /\ Remaining > 0
    /\ HasReader("stdin") /\ HasRoom("stdin")
    /\ pipe' = [pipe EXCEPT !["stdin"] = @ + 1]
    /\ parent' = [parent EXCEPT !.sent = @ + 1]
    /\ UNCHANGED <<call, child, interrupts>>

\* mutant of Wrote: the write is taken to have written all it was given
WroteAll(who) == Close([who EXCEPT !.at = "stdout", !.offset = call.input, !.sent = 0], "stdin")

\* what pumpIo does with a positive result of write
Wrote(who) ==
    LET written == [who EXCEPT !.at = "stdout", !.offset = @ + who.sent, !.sent = 0]
    IN  IF written.offset >= call.input THEN Close(written, "stdin") ELSE written

WriteReturns ==
    /\ parent.at = "write" /\ Remaining = 0
    /\ parent' = Wrote(parent)
    /\ UNCHANGED <<call, child, pipe, interrupts>>

\* SIGPIPE ends the compiler unless it is ignored; then write fails
WriteBroken ==
    /\ parent.at = "write" /\ Remaining > 0 /\ ~HasReader("stdin")
    /\ parent' = IF ~call.sigpipeIgnored
                 THEN [parent EXCEPT !.at = "ended", !.outcome = "killed", !.fds = [n \in Fd |-> Closed]]
                 ELSE IF parent.sent > 0 THEN Wrote(parent)
                 ELSE Close([parent EXCEPT !.at = "stdout"], "stdin")
    /\ UNCHANGED <<call, child, pipe, interrupts>>

WriteInterrupted ==
    /\ parent.at = "write" /\ Remaining > 0 /\ HasReader("stdin") /\ ~HasRoom("stdin")
    /\ Interrupted
    /\ parent' = IF parent.sent > 0 THEN Wrote(parent) ELSE [parent EXCEPT !.at = "stdout"]
    /\ UNCHANGED <<call, child, pipe>>

AfterOutput(s) == IF s = "stdout" THEN "stderr" ELSE "poll"

\* mutant of ServeOutput: a stream whose writers have gone is closed at once
ServeOutputHangup(s) ==
    /\ parent.at = s
    /\ LET revents == parent.revents[s]
            next == [parent EXCEPT !.at = AfterOutput(s)]
       IN  /\ parent' = IF "HUP" \in revents THEN Close(next, s)
                        ELSE IF "IN" \in revents THEN [next EXCEPT !.read[s] = @ + 1] ELSE next
           /\ pipe' = IF "IN" \in revents THEN [pipe EXCEPT ![s] = @ - 1] ELSE pipe
    /\ UNCHANGED <<call, child, interrupts>>

\* handleRead
ServeOutput(s) ==
    /\ parent.at = s
    /\ LET revents == parent.revents[s]
            next == [parent EXCEPT !.at = AfterOutput(s)]
       IN  /\ parent' = IF "IN" \in revents THEN [next EXCEPT !.read[s] = @ + 1]
                        ELSE IF revents = {} THEN next ELSE Close(next, s)
           /\ pipe' = IF "IN" \in revents THEN [pipe EXCEPT ![s] = @ - 1] ELSE pipe
    /\ UNCHANGED <<call, child, interrupts>>

ReadInterrupted(s) ==
    /\ parent.at = s /\ "IN" \in parent.revents[s]
    /\ Interrupted
    /\ parent' = [parent EXCEPT !.at = AfterOutput(s)]
    /\ UNCHANGED <<call, child, pipe>>

----------------------------------------------------------------------------
(* The parent: waiting for the child.                                      *)

Reap == child.at = "exited" /\ child' = [child EXCEPT !.at = "reaped"]

ExitCode(status) == IF status.how = "exited" THEN status.value ELSE 128 + status.value

Wait ==
    /\ parent.at = "wait" /\ Reap
    /\ parent' = [parent EXCEPT !.at = "ended", !.outcome = "returned",
                                !.exitCode = ExitCode(child.status)]
    /\ UNCHANGED <<call, pipe, interrupts>>

\* after a failure of the pump the exception goes on when the child has ended
WaitAfterFailure ==
    /\ parent.at = "cleanup" /\ Reap
    /\ parent' = Throw(parent)
    /\ UNCHANGED <<call, pipe, interrupts>>

\* waitpid is not tried again: the child is left to be reaped by nobody
WaitInterrupted ==
    /\ parent.at \in {"wait", "cleanup"}
    /\ Interrupted
    /\ parent' = [parent EXCEPT !.at = "ended", !.outcome = "waitFailed"]
    /\ UNCHANGED <<call, child, pipe>>

----------------------------------------------------------------------------
(* The child, and what it leaves running: any program that reads its input *)
(* at most to the end, writes at most call.output chunks to each stream, and ends. *)

FileOf(p) == child.fds[StreamNumber[p]]

ChildCallsRead ==
    /\ child.at = "running" /\ ~child.sawEnd /\ FileOf("stdin") # Closed
    /\ child' = [child EXCEPT !.at = "reading"]
    /\ UNCHANGED <<call, parent, pipe, interrupts>>

ChildReads ==
    /\ child.at = "reading"
    /\ IF FileOf("stdin") = <<"stdin", "read">>
       THEN \/ /\ pipe["stdin"] > 0
               /\ pipe' = [pipe EXCEPT !["stdin"] = @ - 1]
               /\ child' = [child EXCEPT !.at = "running", !.received = @ + 1]
            \/ /\ pipe["stdin"] = 0 /\ ~HasWriter("stdin")
               /\ child' = [child EXCEPT !.at = "running", !.sawEnd = TRUE]
               /\ UNCHANGED pipe
       ELSE /\ child' = [child EXCEPT !.at = "running", !.sawEnd = TRUE]
            /\ UNCHANGED pipe
    /\ UNCHANGED <<call, parent, interrupts>>

ChildCallsWrite(s) ==
    /\ child.at = "running" /\ child.produced[s] < call.output /\ FileOf(s) # Closed
    /\ child' = [child EXCEPT !.at = s]
    /\ UNCHANGED <<call, parent, pipe, interrupts>>

ChildWrites(s) ==
    /\ child.at = s
    /\ LET wrote == [child EXCEPT !.at = "running", !.produced[s] = @ + 1]
       IN  \/ /\ FileOf(s) \notin End
              /\ child' = wrote /\ UNCHANGED pipe
           \/ /\ FileOf(s) \in End /\ HasReader(FileOf(s)[1]) /\ HasRoom(FileOf(s)[1])
              /\ child' = wrote
              /\ pipe' = [pipe EXCEPT ![FileOf(s)[1]] = @ + 1]
           \/ /\ FileOf(s) \in End /\ ~HasReader(FileOf(s)[1])
              /\ child' = Dead(child, IF call.sigpipeIgnored THEN Exited(1) ELSE SIGPIPE)
              /\ UNCHANGED pipe
    /\ UNCHANGED <<call, parent, interrupts>>

ChildCloses(p) ==
    /\ child.at = "running" /\ FileOf(p) # Closed
    /\ child' = [child EXCEPT !.fds[StreamNumber[p]] = Closed]
    /\ UNCHANGED <<call, parent, pipe, interrupts>>

\* the child ends; its own children may still hold its descriptors
ChildExits ==
    /\ child.at = "running"
    /\ \E value \in {0, 1}, kept \in {child.fds, NoFiles} :
        child' = [child EXCEPT !.at = "exited", !.status = Exited(value), !.fds = kept]
    /\ UNCHANGED <<call, parent, pipe, interrupts>>

DescendantsEnd ==
    /\ child.at \in {"exited", "reaped"} /\ child.fds # NoFiles
    /\ child' = [child EXCEPT !.fds = NoFiles]
    /\ UNCHANGED <<call, parent, pipe, interrupts>>

----------------------------------------------------------------------------
ParentStep ==
    \/ StartFails \/ OpenPipes \/ Fork
    \/ PollInterrupted \/ PollFails \/ Poll \/ PumpEnds
    \/ ServeStdin \/ WriteChunk \/ WriteReturns \/ WriteBroken \/ WriteInterrupted
    \/ \E s \in Output : ServeOutput(s) \/ ReadInterrupted(s)
    \/ Wait \/ WaitAfterFailure \/ WaitInterrupted

ChildStep ==
    \/ Exec \/ ExecFails
    \/ ChildCallsRead \/ ChildReads
    \/ \E s \in Output : ChildCallsWrite(s) \/ ChildWrites(s)
    \/ \E p \in Pipe : ChildCloses(p)
    \/ ChildExits \/ DescendantsEnd

Ended == parent.at = "ended"

\* the call is over, and what it started as well, or left for good
Finished ==
    /\ Ended /\ child.at \in {"none", "exited", "reaped"} /\ child.fds \in {NoFiles}
    /\ UNCHANGED vars

Next == ParentStep \/ ChildStep \/ Finished

Fairness == WF_vars(ParentStep) /\ WF_vars(ChildStep)

Spec == Init /\ [][Next]_vars /\ Fairness

----------------------------------------------------------------------------
TypeOK ==
    /\ call \in Calls
    /\ parent \in ParentType
    /\ child \in ChildType
    /\ pipe \in [Pipe -> 0 .. Capacity]
    /\ interrupts \in 0 .. Interrupts

\* A call that returns has captured everything the child and what it left
\* running had written to the captured streams: pumpIo gives up a stream only
\* when it is empty and nobody can write to it any more.
OutputComplete ==
    parent.outcome = "returned" =>
        \A s \in Output : PipeNeeded(s) => parent.read[s] = child.produced[s]

\* A child that has read to the end of its input has had all of stdinData,
\* unless the compiler was killed or gave the call up: a write that was partial
\* or interrupted is continued where it stopped.
InputComplete ==
    (child.sawEnd /\ FileOf("stdin") = <<"stdin", "read">>) =>
        \/ child.received = call.input
        \/ parent.at = "cleanup" \/ parent.outcome \in {"threw", "waitFailed", "killed"}

\* However the call ends, the compiler has the descriptors it had before and
\* no child it has not waited for; only a waitpid that a signal interrupts
\* leaves one.
NothingLeft ==
    (Ended /\ parent.outcome # "killed") =>
        /\ parent.fds = Started(call.closed)
        /\ parent.outcome # "waitFailed" => child.at \in {"none", "reaped"}

\* The program starts with its streams connected to the pipes made for them
\* and with no other end of any pipe: were it to keep the writing end of its
\* own input, that input would never end.  (A redirection to a file instead of
\* a pipe is lost when the compiler itself was started without that stream.)
StreamsConnected ==
    [][child.at = "forked" /\ child'.at = "running" =>
        /\ \A p \in Pipe : PipeNeeded(p) =>
            child'.fds[StreamNumber[p]] = <<p, IF p = "stdin" THEN "read" ELSE "write">>
        /\ ~call.capture /\ 1 \notin call.closed => child'.fds[1] = Path
        /\ \A n \in Fd : child'.fds[n] \in End =>
            n <= 2 /\ \E p \in Pipe : n = StreamNumber[p] /\ PipeNeeded(p)]_vars

\* The data are more than the pipe to the child holds and the output more than
\* a pipe from it holds: write does not return, and pumpIo reads no output.
BothBlocked ==
    /\ parent.at = "write" /\ Remaining > 0 /\ ~HasRoom("stdin")
    /\ child.at \in Output /\ FileOf(child.at) \in End /\ ~HasRoom(FileOf(child.at)[1])

\* Every call ends, whatever the child does with its streams, as long as the
\* child itself would end if its reads and writes were served; the one way not
\* to end is that each side blocks in a write the other would have to read.
Terminates == <>Ended \/ <>[]BothBlocked

=============================================================================
