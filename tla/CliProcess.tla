------------------------------ MODULE CliProcess ------------------------------
(***************************************************************************)
(* One CLI run in a child process: gui/src/cli/process.rs.                 *)
(*                                                                         *)
(* Five actors run concurrently: the owner of the Process handle (the UI   *)
(* thread), the child, a reader thread for each output pipe, and the       *)
(* supervisor thread, the only one that reaps or kills the child.  They    *)
(* share an atomic stop flag and one queue of events to the supervisor.    *)
(*                                                                         *)
(* Output is counted in chunks; what the chunks say is left out.           *)
(***************************************************************************)
EXTENDS Naturals, Sequences

CONSTANTS
  Limit,        \* chunks of stdout the reader accepts (OutputLimit::bytes)
  PipeSize,     \* chunks an output pipe holds before its writer blocks
  MaxCancels,   \* bound on the owner's explicit cancel calls
  Descendants   \* whether the child may leave its pipes to a process it started

ASSUME CliAssumption ==
  /\ Limit \in Nat
  /\ PipeSize \in Nat \ {0}
  /\ MaxCancels \in Nat
  /\ Descendants \in BOOLEAN

VARIABLES
  child,        \* "running", "exited" (a zombie) or "reaped"
  signalled,    \* whether the supervisor has killed the child
  writing,      \* the pipe the child is writing a chunk to, or "none"
  heirs,        \* pipes a descendant of the child keeps open after it
  open,         \* open[p]: some process still holds the write end of pipe p
  unread,       \* unread[p]: chunks in pipe p
  reader,       \* reader[p]: where the reader thread of pipe p is
  taken,        \* chunks the stdout reader has read
  output,       \* how the stdout reader's output ended, or "none"
  stop,         \* Pipe::stop, the flag that makes the readers give up
  owner,        \* what the owner of the handle is doing
  cancels,      \* cancel calls made so far
  events,       \* events on their way to the supervisor
  sup,          \* where the supervisor is
  status,       \* the exit status the supervisor holds: "none", "exit", "signal"
  stdout,       \* the supervisor's copy of output, or "none"
  diagnostics   \* whether the supervisor holds the diagnostics

childVars == <<child, signalled, writing, heirs>>
pipeVars  == <<open, unread, reader, taken, output>>
ownerVars == <<owner, cancels>>
supVars   == <<sup, status, stdout, diagnostics>>
vars == <<childVars, pipeVars, stop, ownerVars, events, supVars>>

Pipes     == {"stdout", "stderr"}
Endings   == {"eof", "refused", "stopped"}
Ended     == {"finished", "returned"}
Killing   == {"kill_cancelled", "kill_refused"}
Waiting   == {"wait_cancelled", "wait_refused"}

\* The owner has called cancel(), directly or by dropping the handle.
Requested == cancels > 0 \/ owner \in {"dropping", "gone"}

TypeOK ==
  /\ child \in {"running", "exited", "reaped"}
  /\ signalled \in BOOLEAN
  /\ writing \in Pipes \cup {"none"}
  /\ heirs \in SUBSET Pipes
  /\ open \in [Pipes -> BOOLEAN]
  /\ unread \in [Pipes -> 0 .. PipeSize]
  /\ reader \in [Pipes -> {"check", "read", "send", "ended"}]
  /\ taken \in 0 .. Limit + 1
  /\ output \in Endings \cup {"none"}
  /\ stop \in BOOLEAN
  /\ owner \in {"idle", "cancelling", "dropping", "gone"}
  /\ cancels \in 0 .. MaxCancels
  /\ events \in Seq(Pipes \cup {"cancel"})
  /\ sup \in {"recv", "poll", "finish"} \cup Killing \cup Waiting \cup Ended
  /\ status \in {"none", "exit", "signal"}
  /\ stdout \in Endings \cup {"none"}
  /\ diagnostics \in BOOLEAN

\* spawn: stderr is piped for an analysis and discarded for a packet request.
Init ==
  /\ child = "running"
  /\ signalled = FALSE
  /\ writing = "none"
  /\ heirs \in IF Descendants THEN SUBSET Pipes ELSE {{}}
  /\ \E piped \in {Pipes, {"stdout"}} :
       /\ open = [p \in Pipes |-> p \in piped]
       /\ reader = [p \in Pipes |-> IF p \in piped THEN "check" ELSE "ended"]
       /\ diagnostics = ("stderr" \notin piped)
  /\ unread = [p \in Pipes |-> 0]
  /\ taken = 0
  /\ output = "none"
  /\ stop = FALSE
  /\ owner = "idle"
  /\ cancels = 0
  /\ events = <<>>
  /\ sup = "recv"
  /\ status = "none"
  /\ stdout = "none"

\* A send fails without effect once the supervisor has dropped its receiver.
Post(event) ==
  events' = IF sup \in Ended THEN events ELSE Append(events, event)

-------------------------------------------------------------------------------
(* The child process and the processes it started.                         *)

ChildStartsWrite(p) ==
  /\ child = "running"
  /\ writing = "none"
  /\ open[p] \/ reader[p] = "ended"
  /\ writing' = p
  /\ UNCHANGED <<child, signalled, heirs, pipeVars, stop, ownerVars, events, supVars>>

\* A write completes when there is room, or fails when nobody reads the pipe.
ChildWrites(p) ==
  /\ child = "running"
  /\ writing = p
  /\ IF reader[p] \in {"send", "ended"}
       THEN UNCHANGED unread
       ELSE /\ unread[p] < PipeSize
            /\ unread' = [unread EXCEPT ![p] = @ + 1]
  /\ writing' = "none"
  /\ UNCHANGED <<child, signalled, heirs, open, reader, taken, output, stop,
                 ownerVars, events, supVars>>

\* A child may close an output and keep running.
ChildCloses(p) ==
  /\ child = "running"
  /\ writing = "none"
  /\ open[p]
  /\ open' = [open EXCEPT ![p] = FALSE]
  /\ UNCHANGED <<childVars, unread, reader, taken, output, stop, ownerVars,
                 events, supVars>>

\* A descendant does not reopen a pipe the child had closed before starting it.
ChildDies ==
  /\ child' = "exited"
  /\ writing' = "none"
  /\ open' = [p \in Pipes |-> open[p] /\ p \in heirs]
  /\ UNCHANGED <<signalled, heirs, unread, reader, taken, output, stop,
                 ownerVars, events, supVars>>

ChildExits ==
  /\ child = "running"
  /\ writing = "none"
  /\ ChildDies

ChildIsKilled ==
  /\ child = "running"
  /\ signalled
  /\ ChildDies

HeirCloses(p) ==
  /\ child # "running"
  /\ open[p]
  /\ open' = [open EXCEPT ![p] = FALSE]
  /\ UNCHANGED <<childVars, unread, reader, taken, output, stop, ownerVars,
                 events, supVars>>

-------------------------------------------------------------------------------
(* The reader threads.  Pipe::read looks at the stop flag, then reads: the *)
(* flag may be set between the two, while the read blocks.                 *)

Interrupted == stop

\* Mutant: stderr is read only after stdout, as one thread would.
ReaderChecks_InTurn(p) ==
  /\ reader[p] = "check"
  /\ p = "stderr" => reader["stdout"] = "ended"
  /\ reader' = [reader EXCEPT ![p] = IF Interrupted THEN "send" ELSE "read"]
  /\ output' = IF p = "stdout" /\ Interrupted THEN "stopped" ELSE output
  /\ UNCHANGED <<childVars, open, unread, taken, stop, ownerVars, events, supVars>>

ReaderChecks(p) ==
  /\ reader[p] = "check"
  /\ reader' = [reader EXCEPT ![p] = IF Interrupted THEN "send" ELSE "read"]
  /\ output' = IF p = "stdout" /\ Interrupted THEN "stopped" ELSE output
  /\ UNCHANGED <<childVars, open, unread, taken, stop, ownerVars, events, supVars>>

\* Mutant: the reader looks one chunk too far before it refuses the output.
PastLimit_OneMore(read) == read > Limit + 1

\* One chunk past the limit is enough to refuse the output.
PastLimit(read) == read > Limit

\* Limited::read on stdout; stderr is read line by line with no limit on its
\* length (bounded::read_line drops what it does not keep).
ReaderTakes(p) ==
  /\ reader[p] = "read"
  /\ unread[p] > 0
  /\ unread' = [unread EXCEPT ![p] = @ - 1]
  /\ taken' = IF p = "stdout" THEN taken + 1 ELSE taken
  /\ LET refuse == p = "stdout" /\ PastLimit(taken + 1) IN
       /\ reader' = [reader EXCEPT ![p] = IF refuse THEN "send" ELSE "check"]
       /\ output' = IF refuse THEN "refused" ELSE output
  /\ UNCHANGED <<childVars, open, stop, ownerVars, events, supVars>>

ReaderEnds(p) ==
  /\ reader[p] = "read"
  /\ unread[p] = 0
  /\ ~open[p]
  /\ reader' = [reader EXCEPT ![p] = "send"]
  /\ output' = IF p = "stdout" THEN "eof" ELSE output
  /\ UNCHANGED <<childVars, open, unread, taken, stop, ownerVars, events, supVars>>

ReaderSends(p) ==
  /\ reader[p] = "send"
  /\ reader' = [reader EXCEPT ![p] = "ended"]
  /\ Post(p)
  /\ UNCHANGED <<childVars, open, unread, taken, output, stop, ownerVars, supVars>>

-------------------------------------------------------------------------------
(* The owner of the handle: Process::cancel and Drop.  Neither waits.      *)

CancelStores ==
  /\ owner = "idle"
  /\ cancels < MaxCancels
  /\ cancels' = cancels + 1
  /\ owner' = "cancelling"
  /\ stop' = TRUE
  /\ UNCHANGED <<childVars, pipeVars, events, supVars>>

CancelSends ==
  /\ owner = "cancelling"
  /\ owner' = "idle"
  /\ Post("cancel")
  /\ UNCHANGED <<childVars, pipeVars, stop, cancels, supVars>>

DropStores ==
  /\ owner = "idle"
  /\ owner' = "dropping"
  /\ stop' = TRUE
  /\ UNCHANGED <<childVars, pipeVars, cancels, events, supVars>>

DropSends ==
  /\ owner = "dropping"
  /\ owner' = "gone"
  /\ Post("cancel")
  /\ UNCHANGED <<childVars, pipeVars, stop, cancels, supVars>>

-------------------------------------------------------------------------------
(* The supervisor thread.                                                  *)

\* Mutant: the child is killed without a look at its status.
MustKill_Always == TRUE

\* A child that was already reaped is never killed or waited for again.
MustKill == status = "none"

Receives(event) ==
  /\ sup = "recv"
  /\ events # <<>>
  /\ Head(events) = event
  /\ events' = Tail(events)

\* Mutant: a cancelled run waits for its process instead of killing it.
SupReceivesCancel_NoKill ==
  /\ sup = "recv"
  /\ events # <<>>
  /\ Head(events) = "cancel"
  /\ stop' = TRUE
  /\ IF MustKill
       THEN sup' = "wait_cancelled" /\ events' = Tail(events)
       ELSE sup' = "returned" /\ events' = <<>>
  /\ UNCHANGED <<childVars, pipeVars, ownerVars, status, stdout, diagnostics>>

SupReceivesCancel ==
  /\ sup = "recv"
  /\ events # <<>>
  /\ Head(events) = "cancel"
  /\ stop' = TRUE
  /\ IF MustKill
       THEN sup' = "kill_cancelled" /\ events' = Tail(events)
       ELSE sup' = "returned" /\ events' = <<>>
  /\ UNCHANGED <<childVars, pipeVars, ownerVars, status, stdout, diagnostics>>

\* Nothing more is wanted from a run whose output was refused: its diagnostics
\* are not waited for (Option::get_or_insert_with).
SupReceivesStdout ==
  /\ Receives("stdout")
  /\ stdout' = output
  /\ IF output = "refused"
       THEN /\ stop' = TRUE
            /\ diagnostics' = TRUE
            /\ sup' = IF MustKill THEN "kill_refused" ELSE "poll"
       ELSE /\ sup' = "poll"
            /\ UNCHANGED <<stop, diagnostics>>
  /\ UNCHANGED <<childVars, pipeVars, ownerVars, status>>

SupReceivesStderr ==
  /\ Receives("stderr")
  /\ diagnostics' = TRUE
  /\ sup' = "poll"
  /\ UNCHANGED <<childVars, pipeVars, stop, ownerVars, status, stdout>>

\* recv_timeout gave up after POLL_INTERVAL.
SupTimesOut ==
  /\ sup = "recv"
  /\ events = <<>>
  /\ sup' = "poll"
  /\ UNCHANGED <<childVars, pipeVars, stop, ownerVars, events, status, stdout, diagnostics>>

\* Mutant: a cancelled child is killed and not waited for.
SupKills_NoWait ==
  /\ sup \in Killing
  /\ signalled' = (signalled \/ child = "running")
  /\ sup' = IF sup = "kill_refused" THEN "wait_refused" ELSE "returned"
  /\ UNCHANGED <<child, writing, heirs, pipeVars, stop, ownerVars, events,
                 status, stdout, diagnostics>>

SupKills ==
  /\ sup \in Killing
  /\ signalled' = (signalled \/ child = "running")
  /\ sup' = IF sup = "kill_refused" THEN "wait_refused" ELSE "wait_cancelled"
  /\ UNCHANGED <<child, writing, heirs, pipeVars, stop, ownerVars, events,
                 status, stdout, diagnostics>>

Reap ==
  /\ child = "exited"
  /\ child' = "reaped"

ExitStatus == IF signalled THEN "signal" ELSE "exit"

\* A cancelled run ignores the status.
SupWaits ==
  /\ sup \in Waiting
  /\ Reap
  /\ IF sup = "wait_refused"
       THEN sup' = "poll" /\ status' = ExitStatus /\ UNCHANGED events
       ELSE sup' = "returned" /\ events' = <<>> /\ UNCHANGED status
  /\ UNCHANGED <<signalled, writing, heirs, pipeVars, stop, ownerVars, stdout, diagnostics>>

\* The process has exited and both outputs were read to their end.
Complete(exit, out, diag) == exit # "none" /\ out # "none" /\ diag

\* try_wait, unless the status is already known, and the end of the loop.
SupPolls ==
  /\ sup = "poll"
  /\ IF status = "none" /\ child = "exited"
       THEN Reap /\ status' = ExitStatus
       ELSE UNCHANGED <<child, status>>
  /\ sup' = IF Complete(status', stdout, diagnostics) THEN "finish" ELSE "recv"
  /\ UNCHANGED <<signalled, writing, heirs, pipeVars, stop, ownerVars, events,
                 stdout, diagnostics>>

SupFinishes ==
  /\ sup = "finish"
  /\ sup' = "finished"
  /\ events' = <<>>
  /\ UNCHANGED <<childVars, pipeVars, stop, ownerVars, status, stdout, diagnostics>>

-------------------------------------------------------------------------------
ReaderStep(p) == ReaderChecks(p) \/ ReaderTakes(p) \/ ReaderEnds(p) \/ ReaderSends(p)

SupStep ==
  \/ SupReceivesCancel \/ SupReceivesStdout \/ SupReceivesStderr \/ SupTimesOut
  \/ SupKills \/ SupWaits \/ SupPolls \/ SupFinishes

OwnerSends == CancelSends \/ DropSends

ChildStep ==
  \/ ChildExits
  \/ ChildIsKilled
  \/ \E p \in Pipes :
       ChildStartsWrite(p) \/ ChildWrites(p) \/ ChildCloses(p) \/ HeirCloses(p)

Next ==
  \/ ChildStep
  \/ \E p \in Pipes : ReaderStep(p)
  \/ CancelStores
  \/ DropStores
  \/ OwnerSends
  \/ SupStep

Spec == Init /\ [][Next]_vars

\* Threads that are not blocked run, a signalled process dies, and a write that
\* can complete does.  Nothing obliges the child to exit or the user to cancel.
FairSpec ==
  /\ Spec
  /\ \A p \in Pipes : WF_vars(ReaderStep(p))
  /\ \A p \in Pipes : WF_vars(ChildWrites(p))
  /\ WF_vars(OwnerSends)
  /\ WF_vars(SupStep)
  /\ WF_vars(ChildIsKilled)

-------------------------------------------------------------------------------
(* Properties.                                                             *)

\* The supervisor never signals a process it has already reaped: its pid may
\* belong to another program by then (the `status.is_none()` tests).
NeverKillsReaped == sup \in Killing => child # "reaped"

\* Neither a finished nor a cancelled run leaves a process behind, and until it
\* ends the supervisor knows whether the process is still there to be killed.
ReapedAtTheEnd ==
  /\ sup \in Ended => child = "reaped"
  /\ sup # "returned" => (status # "none" <=> child = "reaped")

Outcome == CASE sup = "finished" -> stdout
             [] sup = "returned" -> "discarded"
             [] OTHER -> "none"

\* A result reported as read to its end is the whole output of a process that
\* exited by itself, read within the limit, and its diagnostics are complete.
DeliveredWhole ==
  Outcome = "eof" =>
    /\ ~signalled
    /\ unread["stdout"] = 0 /\ ~open["stdout"]
    /\ taken <= Limit
    /\ reader["stderr"] = "ended"

\* Output past the limit is never held, and always refused.
RefusedPastLimit ==
  /\ taken > Limit <=> output = "refused"
  /\ Outcome \in {"eof", "stopped"} => taken <= Limit

\* The run implements what its doc comments promise.
Abstract ==
  INSTANCE CliRun WITH
    process <- IF child = "reaped" THEN "gone" ELSE "alive",
    asked   <- Requested,
    result  <- Outcome

ImplementsRun == Abstract!Run

\* The readers of a cancelled run end and release what they had read, if the CLI leaves its pipes to
\* no other process.
ReadersEndWithChild ==
  (Requested /\ heirs = {}) ~> \A p \in Pipes : reader[p] = "ended"

\* process.rs:12 "so a cancelled or superseded run releases its partly read output
\* promptly", whatever the CLI started.
CancelReleasesReaders == Requested ~> \A p \in Pipes : reader[p] = "ended"

\* No write of the child blocks for ever on a full pipe: the two pipes are
\* drained independently of each other and of the supervisor.
WritesComplete ==
  \A p \in Pipes : (writing = p) ~> (writing # p)

\* A run whose process and pipes have ended settles.
EndedRunSettles ==
  (child # "running" /\ \A p \in Pipes : ~open[p]) ~> sup \in Ended

\* A refused run settles without waiting for the process or for its stderr.
RefusedRunSettles == (output = "refused") ~> sup \in Ended

\* Nobody waits for ever: not a reader for a process that has ended, not the
\* process for a reader, and not the owner for the result of a run.
NobodyWaitsForever ==
  ReadersEndWithChild /\ WritesComplete /\ EndedRunSettles /\ RefusedRunSettles
===============================================================================
