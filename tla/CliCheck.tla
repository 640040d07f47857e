------------------------------- MODULE CliCheck --------------------------------
(***************************************************************************)
(* The capabilities check of a program chosen as the CLI: check_command and *)
(* read_document of gui/src/cli.rs.  Any program can be chosen: it may never *)
(* exit, write anything, or leave its output open to a process it started.   *)
(* The check polls the program while a thread reads its output, and both are *)
(* waited for with one deadline.                                            *)
(***************************************************************************)
EXTENDS Naturals

VARIABLES
  process,    \* the program: "running", "exited", or "reaped" by the check
  success,    \* whether it exited by itself, and with success
  written,    \* what it has written
  inherited,  \* whether a process it started has its output too
  closed,     \* whether nobody can write the output any more
  reading,    \* what the reader thread is doing, or what document it has sent
  document,   \* the document the check has received
  late,       \* whether the deadline has passed
  verdict     \* "polling", "exited", and at last "accepted" or "refused"

cliCheckVars == <<process, success, written, inherited, closed, reading, document, late, verdict>>

Outputs == {"nothing", "part", "supported", "unsupported", "excess"}

\* The whole documents, and what becomes of an output with no whole one.
Whole == {"supported", "unsupported"}

CliCheckInit ==
  /\ process = "running" /\ success = FALSE
  /\ written = "nothing"
  /\ inherited \in BOOLEAN
  /\ closed = FALSE
  /\ reading = "reading" /\ document = "none"
  /\ late = FALSE
  /\ verdict = "polling"

\* The program or a process it started writes more.
ToolWrites ==
  /\ ~closed /\ (process = "running" \/ inherited)
  /\ \/ written = "nothing" /\ written' = "part"
     \/ written = "part" /\ written' \in Whole
     \/ written' = "excess"
  /\ UNCHANGED <<process, success, inherited, closed, reading, document, late, verdict>>

ToolExits ==
  /\ process = "running"
  /\ process' = "exited"
  /\ success' \in BOOLEAN
  /\ closed' = ~inherited
  /\ UNCHANGED <<written, inherited, reading, document, late, verdict>>

\* The output is closed early, or by the last process that has it.
OutputCloses ==
  /\ ~closed
  /\ process = "running" => ~inherited
  /\ closed' = TRUE /\ inherited' = FALSE
  /\ UNCHANGED <<process, success, written, reading, document, late, verdict>>

\* What becomes of the output.
DocumentOf ==
  IF written \in Whole THEN written
  ELSE IF written = "nothing" THEN "empty"
  ELSE IF written = "part" THEN "unreadable"
  ELSE "rejected"

\* read_document: to the end of the output, even after it did not parse, but no
\* further than the limit.
ReadDocument ==
  /\ reading = "reading"
  /\ closed \/ written = "excess"
  /\ reading' = DocumentOf
  /\ UNCHANGED <<process, success, written, inherited, closed, document, late, verdict>>

DeadlinePasses ==
  /\ ~late
  /\ late' = TRUE
  /\ UNCHANGED <<process, success, written, inherited, closed, reading, document, verdict>>

Received == IF document = "none" /\ reading # "reading" THEN reading ELSE document

\* kill and wait; what the program started lives on.
Killed ==
  /\ process' = "reaped"
  /\ success' = (process = "exited" /\ success)
  /\ closed' = (closed \/ ~inherited)
  /\ verdict' = "refused"

\* One round of the loop: an answer that is too large, the exit, the deadline.
PollTool ==
  /\ verdict = "polling"
  /\ document' = Received
  /\ IF document' = "rejected" THEN Killed
     ELSE IF process = "exited"
       THEN process' = "reaped" /\ verdict' = "exited" /\ UNCHANGED <<success, closed>>
     ELSE IF late THEN Killed
     ELSE UNCHANGED <<process, success, closed, verdict>>
  /\ UNCHANGED <<written, inherited, reading, late>>

\* Mutant: the exit status is not looked at.
Accepts_AnyExit(doc) == doc = "supported"

\* The capabilities cover what Start and the screens use.
Accepts(doc) == success /\ doc = "supported"

\* Mutant: the output of a program that has exited is waited for without end.
OutputDue_Always == Received # "none"

\* recv_timeout: the document, or the deadline.
OutputDue == Received # "none" \/ late

AwaitOutput ==
  /\ verdict = "exited"
  /\ OutputDue
  /\ document' = Received
  /\ verdict' = IF Accepts(document') THEN "accepted" ELSE "refused"
  /\ UNCHANGED <<process, success, written, inherited, closed, reading, late>>

CliCheckNext ==
  \/ ToolWrites \/ ToolExits \/ OutputCloses
  \/ ReadDocument
  \/ DeadlinePasses
  \/ PollTool \/ AwaitOutput

\* The threads run; the program need not do anything.
CliCheckFairness ==
  /\ WF_cliCheckVars(ReadDocument)
  /\ WF_cliCheckVars(PollTool)
  /\ WF_cliCheckVars(AwaitOutput)

CliCheckSpec == CliCheckInit /\ [][CliCheckNext]_cliCheckVars /\ CliCheckFairness

-------------------------------------------------------------------------------
(* Properties.                                                               *)

\* A program is accepted exactly when it exited with success, its output came to
\* an end in time, and the output is one supported document; it is refused before
\* the deadline for its exit status or its output only; and it is never left
\* behind, running or not reaped.
CheckDecides ==
  /\ verdict = "accepted" => success /\ closed /\ written = "supported"
  /\ verdict = "refused" => late \/ written = "excess" \/ ~success \/ written # "supported"
  /\ verdict # "polling" => process = "reaped"

\* Once the time is over the check of any program ends.
CheckEnds == late ~> verdict \in {"accepted", "refused"}
===============================================================================
