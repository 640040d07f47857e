--------------------------------- MODULE MCGui ---------------------------------
(* Four scenarios.  "pages" pages files of five packets, with bytes before the    *)
(* first and after the last one, and ranges that are the whole file, end within a *)
(* packet, or hold none.  "check" is one check of a program chosen as the CLI.    *)
(* "analysing" is a session of files too small, just large enough and large, and  *)
(* "updating" one of an update, with launches enough to see it run.              *)
EXTENDS PacketPages, CliCheck, Session

VARIABLE scenario

MCFiles == {[size |-> 12, phase |-> 1], [size |-> 10, phase |-> 0]}

MCRanges == {[offset |-> 0, limit |-> 20], [offset |-> 2, limit |-> 7], [offset |-> 9, limit |-> 1]}

Small == [name |-> 1, size |-> 1]
Large == [name |-> 2, size |-> 4]

MCInputs == {Small, Large}

MCRequests ==
  {[input |-> Large, offset |-> 1, limit |-> 0], [input |-> Large, offset |-> 9, limit |-> 1],
   [input |-> Small, offset |-> 0, limit |-> -1]}

MCReleases ==
  {[version |-> 2, final |-> TRUE, package |-> TRUE], [version |-> 3, final |-> TRUE, package |-> FALSE],
   [version |-> 4, final |-> FALSE, package |-> TRUE]}

mcVars == <<pageVars, cliCheckVars, appVars, scenario>>

MCInit ==
  /\ PagesInit /\ CliCheckInit /\ UpdatesInit /\ SessionInit
  /\ scenario \in {"pages", "check", "analysing", "updating"}
  /\ scenario # "pages" => file = [size |-> 10, phase |-> 0, offset |-> 0, limit |-> 20]
  /\ scenario # "check" => ~inherited
  /\ published = {} /\ (scenario # "updating" => kind = "on_exit")

\* One launch of the GUI, which looks for no update.
AnalysingNext ==
  /\ SessionNext
  /\ launches' = 1 /\ running'.programs # 1
  /\ phase' = Plain("idle") /\ published' = published /\ window' = FALSE

\* No analysis but one of the command line.
UpdatingNext ==
  /\ SessionNext
  /\ changes' = 0 /\ starts' = 0 /\ ~error'
  /\ input' = Large => range' = [offset |-> 1, limit |-> 3]
  /\ cliCheck'.answer # "bad" /\ running'.programs = 0

MCNext ==
  /\ scenario' = scenario
  /\ \/ scenario = "pages" /\ PagesNext /\ UNCHANGED <<cliCheckVars, appVars>>
     \/ scenario = "check" /\ CliCheckNext /\ UNCHANGED <<pageVars, appVars>>
     \/ scenario = "analysing" /\ AnalysingNext /\ UNCHANGED <<pageVars, cliCheckVars>>
     \/ scenario = "updating" /\ UpdatingNext /\ UNCHANGED <<pageVars, cliCheckVars>>

\* Outside its scenario a frame of the Packets screen may never come.
MCFairness ==
  /\ WF_pageVars(scenario = "pages" /\ Update)
  /\ WF_pageVars(scenario = "pages" /\ AnswerProbe)
  /\ \A p \in PageNumbers : WF_pageVars(scenario = "pages" /\ AnswerPage(p))
  /\ CliCheckFairness
  /\ SessionFairness

MCSpec == MCInit /\ [][MCNext]_mcVars /\ MCFairness

\* Whatever the user or another part waits for comes to an end: a page that stays
\* shown, the check of a CLI, the start from the command line, an analysis, and a
\* search for a release.
EverythingArrives == ShownPageArrives /\ CheckEnds /\ WaitingEnds /\ ChecksEnd
===============================================================================
