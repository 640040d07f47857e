-------------------------------- MODULE Session --------------------------------
(***************************************************************************)
(* The GUI's session: the input, its range, the CLI in use, the analysis and *)
(* what is derived from it, gui/src/app.rs with the range of range_bar.rs    *)
(* and AnalysisJob of cli.rs.  A frame takes in what the threads have left;  *)
(* between frames the user clicks, and the CLI runs and checks end.          *)
(* With it runs the update of Updates.tla.  Bytes are counted in small units. *)
(***************************************************************************)
EXTENDS Updates, FiniteSetsExt

CONSTANTS
  Inputs,        \* the files that may be opened: [name, size]
  MinLimit,      \* MIN_LIMIT
  InitialLimit,  \* INITIAL_LIMIT
  ConfirmAbove,  \* the confirm_range_mib of Settings
  Requests,      \* what the command line may ask for: [input, offset, limit]
  CliPaths,      \* the programs that may be chosen as the CLI
  BundledCli,    \* the one found with no path in Settings
  MaxStarts,     \* bound on the analyses the user starts
  MaxChanges     \* bound on the inputs opened and on the CLI paths chosen

ASSUME SessionAssumption ==
  /\ \A i \in Inputs : i.name # 0 /\ i.size \in Nat
  /\ {MinLimit, InitialLimit, ConfirmAbove} \subseteq Nat \ {0} /\ MinLimit <= InitialLimit
  /\ \A r \in Requests : r.input \in Inputs /\ r.offset \in Nat /\ r.limit \in Nat \cup {-1}
  /\ BundledCli \in CliPaths /\ 0 \notin CliPaths
  /\ {MaxStarts, MaxChanges} \subseteq Nat

VARIABLES
  input,        \* the file opened last
  range,        \* the range to analyze
  location,     \* cli_location: the path the CLI was looked up at
  cli,          \* the result of its check, or that it is being checked
  cliCheck,     \* the check whose answer is awaited
  pendingStart, \* an analysis asked for on the command line waits for the CLI
  confirmStart, \* the dialog for a large range is shown
  running,      \* the analysis job: its input, range, and outcome
  analysis,     \* the result shown: its input, range and number of programs
  analyzed,     \* the range shown as analyzed
  packetPages,  \* the input and range whose packets are paged
  generation,   \* results taken in
  plots,        \* the generation of the result the plots are derived from
  program,      \* the program selected
  error,        \* the error dialog is shown
  starts, changes

sessionVars == <<input, range, location, cli, cliCheck, pendingStart, confirmStart, running,
                 analysis, analyzed, packetPages, generation, plots, program, error, starts,
                 changes>>

NoInput  == [name |-> 0, size |-> 0]
NoRange  == [offset |-> 0, limit |-> 0]
NoResult == [input |-> NoInput, range |-> NoRange, programs |-> 0]
NoPages  == [input |-> NoInput, range |-> NoRange]
NoCheck  == [path |-> 0, answer |-> "none"]
NoJob    == [input |-> NoInput, range |-> NoRange, programs |-> 0, how |-> "none", outcome |-> "none"]

-------------------------------------------------------------------------------
(* The range.                                                                *)

\* is_analyzable, and a size that could be read.
Analyzable(i) == i.size >= MinLimit

\* AnalysisRange::clamp.
Clamp(size, r) ==
  LET limit == Min({Max({r.limit, MinLimit}), size})
  IN IF size < MinLimit THEN [offset |-> 0, limit |-> size]
     ELSE [offset |-> Min({r.offset, size - limit}), limit |-> limit]

InitialRange == [offset |-> 0, limit |-> InitialLimit]

\* Mutant: the range of the command line is not put inside the file.
LaunchRange_AsAsked(request) ==
  [offset |-> request.offset, limit |-> IF request.limit = -1 THEN InitialLimit ELSE request.limit]

\* apply_launch: a limit of 0 is the rest of the file, -1 stands for none given.
LaunchRange(request) ==
  LET size   == request.input.size
      offset == Min({request.offset, size})
      limit  == IF request.limit = 0 THEN size
                ELSE IF request.limit = -1 THEN InitialLimit
                ELSE request.limit
  IN Clamp(size, [offset |-> offset, limit |-> Min({limit, size - offset})])

NeedsConfirmation == range.limit > ConfirmAbove

\* A modal dialog takes the clicks; files can still be dropped.
Interactive == app = "open" /\ running = NoJob /\ ~error /\ ~confirmStart

-------------------------------------------------------------------------------
(* The CLI and its check.                                                    *)

\* Mutant: a check already underway is not replaced.
BeginCliCheck_KeepsFirst(path) ==
  /\ location' = path
  /\ cli' = [state |-> "checking", path |-> 0]
  /\ cliCheck' = IF cliCheck = NoCheck THEN [path |-> path, answer |-> "none"] ELSE cliCheck

\* begin_cli_check: the answer of an earlier check goes nowhere.
BeginCliCheck(path) ==
  /\ location' = path
  /\ cli' = [state |-> "checking", path |-> 0]
  /\ cliCheck' = [path |-> path, answer |-> "none"]

AnswerCliCheck ==
  /\ cliCheck # NoCheck /\ cliCheck.answer = "none"
  /\ \E answer \in {"ok", "bad"} : cliCheck' = [cliCheck EXCEPT !.answer = answer]
  /\ UNCHANGED <<input, range, location, cli, pendingStart, confirmStart, running, analysis,
                 analyzed, packetPages, generation, plots, program, error, starts, changes>>

PollCliCheck ==
  IF cliCheck.answer = "none" THEN UNCHANGED <<cli, cliCheck>>
  ELSE cli' = [state |-> cliCheck.answer, path |-> cliCheck.path] /\ cliCheck' = NoCheck

\* Settings: Browse, or the path field that loses its focus, also to a dialog.
ChangeCli ==
  /\ app = "open" /\ changes < MaxChanges
  /\ changes' = changes + 1
  /\ \E path \in CliPaths : BeginCliCheck(path)
  /\ UNCHANGED <<input, range, pendingStart, confirmStart, running, analysis, analyzed,
                 packetPages, generation, plots, program, error, starts>>

\* Restore defaults: no CLI path, and no skipped version.
RestoreDefaults ==
  /\ Interactive
  /\ IF location # BundledCli THEN BeginCliCheck(BundledCli)
                              ELSE UNCHANGED <<location, cli, cliCheck>>
  /\ skipped' = 0
  /\ UNCHANGED <<input, range, pendingStart, confirmStart, running, analysis, analyzed,
                 packetPages, generation, plots, program, error, starts, changes>>
  /\ UNCHANGED <<kind, installed, current, published, phase, manual, prompted, window, receiver,
                 onExit, app, launches, agreed>>

-------------------------------------------------------------------------------
(* The analysis job.                                                         *)

\* start: the CLI runs, or it cannot be run.
StartJob(how) ==
  \/ /\ running' = [NoJob EXCEPT !.input = input, !.range = range, !.how = how]
     /\ UNCHANGED error
  \/ error' = TRUE /\ UNCHANGED running

\* AnalysisJob::spawn: a document that was parsed is the result, whatever the exit
\* status; it may say that the analysis failed.
JobOutcome(document) ==
  IF document = "parsed" THEN {"report", "failed"} ELSE {"error"}

JobEnds ==
  /\ running # NoJob /\ running.outcome = "none"
  /\ \E document \in {"parsed", "unreadable", "empty", "rejected"}, programs \in 0 .. 2 :
       \E outcome \in JobOutcome(document) :
         running' = [running EXCEPT !.outcome = outcome,
                                    !.programs = IF outcome = "report" THEN programs ELSE 0]
  /\ UNCHANGED <<input, range, location, cli, cliCheck, pendingStart, confirmStart, analysis,
                 analyzed, packetPages, generation, plots, program, error, starts, changes>>

\* Mutant: the plots of the result before stay.
TakeResult_KeepsPlots ==
  /\ analyzed' = running.range
  /\ program' = Min({program, Max({0, running.programs - 1})})
  /\ packetPages' = [input |-> input, range |-> running.range]
  /\ analysis' = [input |-> running.input, range |-> running.range, programs |-> running.programs]
  /\ generation' = generation + 1
  /\ plots' = IF plots = 0 THEN generation' ELSE plots

\* poll_analysis with a report, and update_plots.
TakeResult ==
  /\ analyzed' = running.range
  /\ program' = Min({program, Max({0, running.programs - 1})})
  /\ packetPages' = [input |-> input, range |-> running.range]
  /\ analysis' = [input |-> running.input, range |-> running.range, programs |-> running.programs]
  /\ generation' = generation + 1
  /\ plots' = generation'

KeepResult == UNCHANGED <<analyzed, program, packetPages, analysis, generation, plots>>

PollAnalysis ==
  IF running.outcome = "none" THEN KeepResult /\ UNCHANGED <<running, error>>
  ELSE /\ running' = NoJob
       /\ IF running.outcome = "report" THEN TakeResult /\ UNCHANGED error
                                        ELSE KeepResult /\ error' = TRUE

\* The analysis of the command line, once the check of the CLI is over.
PendingDue == pendingStart /\ cliCheck' = NoCheck

StartPending ==
  /\ pendingStart' = FALSE
  /\ KeepResult
  /\ IF cli'.state = "ok" /\ Analyzable(input) THEN StartJob("launch")
                                               ELSE UNCHANGED <<running, error>>

\* show, with no click.  A job just started has nothing to be taken in.
Frame ==
  /\ app = "open"
  /\ PollCliCheck
  /\ PollUpdates
  /\ IF PendingDue THEN StartPending ELSE PollAnalysis /\ UNCHANGED pendingStart
  /\ range' = Clamp(input.size, range)
  /\ UNCHANGED <<input, location, confirmStart, starts, changes>>
  /\ UNCHANGED <<kind, installed, current, published, skipped, manual, launches, agreed>>

-------------------------------------------------------------------------------
(* What the user does.                                                       *)

\* Mutant: the analysis of the file before goes on.
Open_KeepsRunning(i, r) ==
  /\ input' = i /\ range' = r
  /\ pendingStart' = FALSE /\ confirmStart' = FALSE
  /\ analysis' = NoResult /\ analyzed' = NoRange /\ packetPages' = NoPages /\ plots' = 0
  /\ UNCHANGED running

\* open: the job that is dropped is killed.
OpenInput(i, r) ==
  /\ input' = i /\ range' = r
  /\ pendingStart' = FALSE /\ confirmStart' = FALSE
  /\ analysis' = NoResult /\ analyzed' = NoRange /\ packetPages' = NoPages /\ plots' = 0
  /\ running' = NoJob

\* The file dialog, or a file dropped on the window at any time.
OpenFile ==
  /\ app = "open" /\ changes < MaxChanges
  /\ changes' = changes + 1
  /\ \E i \in Inputs : OpenInput(i, Clamp(i.size, InitialRange))
  /\ UNCHANGED <<location, cli, cliCheck, generation, program, error, starts>>

\* The range bar and the fields.
EditRange ==
  /\ Interactive /\ input # NoInput
  /\ \E offset, limit \in 0 .. input.size :
       range' = Clamp(input.size, [offset |-> offset, limit |-> limit])
  /\ UNCHANGED <<input, location, cli, cliCheck, pendingStart, confirmStart, running, analysis,
                 analyzed, packetPages, generation, plots, program, error, starts, changes>>

ClickStart ==
  /\ Interactive /\ starts < MaxStarts
  /\ cli.state = "ok" /\ input # NoInput /\ Analyzable(input)
  /\ analyzed # range
  /\ starts' = starts + 1
  /\ IF NeedsConfirmation THEN confirmStart' = TRUE /\ UNCHANGED <<running, error>>
                          ELSE StartJob("button") /\ UNCHANGED confirmStart
  /\ UNCHANGED <<input, range, location, cli, cliCheck, pendingStart, analysis, analyzed,
                 packetPages, generation, plots, program, changes>>

\* Analyze does nothing while the CLI is being checked again.
ConfirmAnalyze ==
  /\ app = "open" /\ confirmStart
  /\ confirmStart' = FALSE
  /\ IF cli.state = "ok" THEN StartJob("confirmed") ELSE UNCHANGED <<running, error>>
  /\ UNCHANGED <<input, range, location, cli, cliCheck, pendingStart, analysis, analyzed,
                 packetPages, generation, plots, program, starts, changes>>

ConfirmCancel ==
  /\ app = "open" /\ confirmStart
  /\ confirmStart' = FALSE
  /\ UNCHANGED <<input, range, location, cli, cliCheck, pendingStart, running, analysis, analyzed,
                 packetPages, generation, plots, program, error, starts, changes>>

CancelAnalysis ==
  /\ app = "open" /\ running # NoJob
  /\ running' = NoJob
  /\ UNCHANGED <<input, range, location, cli, cliCheck, pendingStart, confirmStart, analysis,
                 analyzed, packetPages, generation, plots, program, error, starts, changes>>

CloseError ==
  /\ app = "open" /\ error
  /\ error' = FALSE
  /\ UNCHANGED <<input, range, location, cli, cliCheck, pendingStart, confirmStart, running,
                 analysis, analyzed, packetPages, generation, plots, program, starts, changes>>

SelectProgram ==
  /\ Interactive /\ analysis # NoResult
  /\ \E p \in 0 .. analysis.programs - 1 : program' = p
  /\ UNCHANGED <<input, range, location, cli, cliCheck, pendingStart, confirmStart, running,
                 analysis, analyzed, packetPages, generation, plots, error, starts, changes>>

-------------------------------------------------------------------------------
(* The life of the GUI.                                                      *)

SessionInit ==
  /\ input = NoInput /\ range = InitialRange
  /\ location = BundledCli /\ cli = [state |-> "checking", path |-> 0] /\ cliCheck = NoCheck
  /\ pendingStart = FALSE /\ confirmStart = FALSE
  /\ running = NoJob
  /\ analysis = NoResult /\ analyzed = NoRange /\ packetPages = NoPages
  /\ generation = 0 /\ plots = 0 /\ program = 0
  /\ error = FALSE
  /\ starts = 0 /\ changes = 0

\* App::new: with the settings saved, and with what the command line asks for.
LaunchApp ==
  /\ Launch
  /\ BeginCliCheck(location)
  /\ \/ /\ input' = NoInput /\ range' = InitialRange /\ pendingStart' = FALSE
     \/ \E request \in Requests :
          /\ input' = request.input /\ range' = LaunchRange(request)
          /\ pendingStart' = Analyzable(request.input)
  /\ confirmStart' = FALSE /\ running' = NoJob
  /\ analysis' = NoResult /\ analyzed' = NoRange /\ packetPages' = NoPages
  /\ generation' = 0 /\ plots' = 0 /\ program' = 0
  /\ error' = FALSE
  /\ UNCHANGED <<starts, changes>>

\* The job that is dropped is killed.
ExitApp ==
  /\ Exit
  /\ running' = NoJob
  /\ UNCHANGED <<input, range, location, cli, cliCheck, pendingStart, confirmStart, analysis,
                 analyzed, packetPages, generation, plots, program, error, starts, changes>>

\* The update runs beside the session; its window is under the dialogs.
UpdateStep ==
  /\ \/ AnswerCheck \/ AnswerInstall \/ Publish
     \/ Interactive /\ (\/ ClickUpdates \/ TryAgain \/ ClickInstall(running # NoJob)
                        \/ Skip \/ CloseWindow \/ Restart)
     \/ app = "open" /\ CloseApp
  /\ UNCHANGED sessionVars

SessionStep ==
  /\ \/ AnswerCliCheck \/ ChangeCli
     \/ JobEnds
     \/ OpenFile \/ EditRange
     \/ ClickStart \/ ConfirmAnalyze \/ ConfirmCancel
     \/ CancelAnalysis \/ CloseError \/ SelectProgram
  /\ UNCHANGED updateVars

SessionNext == LaunchApp \/ Frame \/ RestoreDefaults \/ SessionStep \/ UpdateStep \/ ExitApp

appVars == <<updateVars, sessionVars>>

\* Frames are drawn (a thread that ends asks for one), and the threads and the CLI
\* come to an end; the user need do nothing.
SessionFairness ==
  /\ WF_appVars(Frame)
  /\ WF_appVars(AnswerCliCheck /\ UNCHANGED updateVars)
  /\ WF_appVars(JobEnds /\ UNCHANGED updateVars)
  /\ WF_appVars((AnswerCheck \/ AnswerInstall) /\ UNCHANGED sessionVars)

SessionSpec == UpdatesInit /\ SessionInit /\ [][SessionNext]_appVars /\ SessionFairness
-------------------------------------------------------------------------------
(* Properties.                                                               *)

\* What is shown belongs together and to the input: the result, the range shown as
\* analyzed, the packets that are paged and the plots; and the program selected
\* is one of the result, whichever results, inputs and failures came between.
ResultOfInput ==
  /\ IF analysis = NoResult THEN analyzed = NoRange /\ packetPages = NoPages /\ plots = 0
     ELSE /\ analysis.input = input /\ analyzed = analysis.range
          /\ packetPages = [input |-> input, range |-> analysis.range]
          /\ plots = generation
          /\ program < Max({1, analysis.programs})

\* A job runs for the input that is open, over a range inside it, of at least one
\* packet's size, that the user confirmed or gave on the command line when it is
\* large; and it is the only thing asked for.
JobOfInput ==
  running # NoJob =>
    /\ running.input = input
    /\ running.range.limit >= MinLimit
    /\ running.range.offset + running.range.limit <= input.size
    /\ running.range.limit > ConfirmAbove => running.how \in {"confirmed", "launch"}
    /\ ~confirmStart /\ ~pendingStart

\* The CLI in use is the one that was looked up last, and its check was of it.
CliOfSettings ==
  app # "closed" =>
    /\ cli.state = "checking" <=> cliCheck # NoCheck
    /\ cliCheck # NoCheck => cliCheck.path = location
    /\ cli.state # "checking" => cli.path = location
    /\ pendingStart => cliCheck # NoCheck

\* The parts of the session fit together, whichever threads and processes end
\* between two frames and whatever is opened, chosen or cancelled meanwhile.
SessionConsistent == ResultOfInput /\ JobOfInput /\ CliOfSettings

\* What is waited for comes: the check of the CLI that is chosen, the analysis of
\* the command line, and the end of an analysis.
WaitingEnds ==
  /\ []<>(cliCheck = NoCheck \/ app # "open")
  /\ []<>(~pendingStart \/ app # "open")
  /\ []<>(running = NoJob \/ app # "open")

\* design.md:588 "Install is disabled while an analysis is running": no analysis is
\* stopped by an update.
NoAnalysisIsStopped == app = "closing" /\ onExit # 0 => running = NoJob

===============================================================================
