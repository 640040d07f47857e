--------------------------------- MODULE MCPsi ---------------------------------
(* Three scenarios.  "reading" is one PID and its packets.  "tracking" has two  *)
(* programs that share a PID, with PMTs of one and of two sections, a PAT that   *)
(* moves a PMT and one, in two sections, that drops a program.  "layout" logs    *)
(* what the tracker reads of the same tables, from a range with one of each.     *)
EXTENDS PacketChecks, PsiLayout

VARIABLE scenario

MCProgramOrder == <<1, 2>>

Entry(program, pid) == [program |-> program, pid |-> pid]

MCFirstPat == <<{Entry(1, 10), Entry(2, 11)}>>

MCPatTables ==
  {MCFirstPat,
   <<{Entry(1, 12)}, {Entry(1, 10), Entry(2, 11)}>>,
   <<{Entry(1, 10)}>>}

Pmt(pcr, streams) == [pcr |-> pcr, streams |-> streams]

MCLayoutPmts == {<<Pmt(20, {20}), Pmt(20, {21})>>, <<Pmt(22, {21})>>}
MCFirstPmts  == <<<<Pmt(22, {21})>>, <<Pmt(99, {21})>>>>

MCPmtTables ==
  [p \in {1, 2} |->
     IF p = 1 THEN MCLayoutPmts \cup {<<Pmt(20, {20}), Pmt(20, {})>>}
              ELSE {<<Pmt(99, {21})>>, <<Pmt(20, {22})>>}]

mcVars == <<readerVars, packetVars, trackVars, layoutVars, scenario>>

NoReading  == sizes = [id \in 1 .. MaxSections |-> HeaderSize]
NoTracking ==
  /\ Current(Pat).contents = MCFirstPat
  /\ \A p \in Programs : Current(p).contents = MCFirstPmts[p]
NoLayout   == at = 0 /\ log = NoLog /\ transitions = <<>> /\ first = <<>> /\ starts = <<>>

MCInit ==
  /\ ChecksInit
  /\ \/ scenario = "reading" /\ TrackInit /\ NoTracking /\ NoLayout
     \/ scenario = "tracking" /\ TrackInit /\ NoReading /\ NoLayout
     \/ scenario = "layout" /\ LayoutInit /\ NoReading /\ NoTracking

\* The log treats every PID and program alike, so program 2 does not change, one
\* program's sections are unusable, and data is dropped on its PIDs.
LayoutScenarioNext ==
  /\ LayoutNext
  /\ starts' # starts =>
       LET e == Last(starts')
       IN e.table # 2 /\ (e.table = Pat => e.section.intact /\ e.section.current)
  /\ Len(sent'[2]) = Len(sent[2])
  /\ Last(sent'[1]).contents \in MCLayoutPmts
  /\ log'.latest[Pat] = 0 => log.latest[Pat] = 0

MCNext ==
  /\ scenario' = scenario
  /\ \/ scenario = "reading" /\ ChecksNext /\ UNCHANGED <<trackVars, layoutVars>>
     \/ scenario = "tracking" /\ TrackNext /\ UNCHANGED <<readerVars, packetVars, layoutVars>>
     \/ scenario = "layout" /\ LayoutScenarioNext /\ UNCHANGED <<readerVars, packetVars>>

MCSpec == MCInit /\ [][MCNext]_mcVars

\* The layout alone.
MCLayoutSpec == (MCInit /\ scenario = "layout") /\ [][MCNext]_mcVars
===============================================================================
