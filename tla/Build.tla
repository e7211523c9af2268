------------------------------- MODULE Build -------------------------------
(***************************************************************************)
(* What a user of the compiler may rely on, whatever happens inside it.    *)
(* Several runs of the compiler share one file system.  A run changes only *)
(* the files that are its own, until it ends; when it ends with success,   *)
(* each file it promised is there and is made from the run's inputs.       *)
(* CompilerDriver implements this specification.                           *)
(***************************************************************************)

CONSTANT Run    \* the runs

VARIABLES
    owned,      \* the paths each run may write or remove
    promise,    \* of each path a run promises, the contents it may have then
    file,       \* the content of each path at which there is a file
    status      \* of each run: "working", "succeeded" or "failed"

buildVars == <<owned, promise, file, status>>

Same(p) ==
    /\ p \in DOMAIN file <=> p \in DOMAIN file'
    /\ p \in DOMAIN file => file'[p] = file[p]

OnlyOwned(r) ==
    /\ \A p \in (DOMAIN file \cup DOMAIN file') \ owned[r] : Same(p)
    /\ UNCHANGED <<owned, promise>>

Kept(r) ==
    \A p \in DOMAIN promise[r] : p \in DOMAIN file' /\ file'[p] \in promise[r][p]

BuildInit == status = [r \in Run |-> "working"]

Work(r) ==
    /\ status[r] = "working" /\ UNCHANGED status
    /\ OnlyOwned(r)

\* the last change a run makes and its end may come in one step
Succeed(r) ==
    /\ status[r] = "working" /\ status' = [status EXCEPT ![r] = "succeeded"]
    /\ OnlyOwned(r) /\ Kept(r)

Fail(r) ==
    /\ status[r] = "working" /\ status' = [status EXCEPT ![r] = "failed"]
    /\ OnlyOwned(r)

BuildNext == \E r \in Run : Work(r) \/ Succeed(r) \/ Fail(r)

BuildSpec == BuildInit /\ [][BuildNext]_buildVars

=============================================================================
