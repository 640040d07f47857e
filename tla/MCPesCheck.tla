------------------------------ MODULE MCPesCheck ------------------------------
(* Small instances of PesCheck, MuxLead and TimestampAnomaly.  A behaviour     *)
(* follows one scenario: "repetition" has every observation of two PIDs, of    *)
(* which one is retyped and one added and removed; "lead" has two video PIDs    *)
(* and an audio PID; "anomaly" has the timestamps of two PIDs near the wrap.    *)
EXTENDS MuxLead, TimestampAnomaly

VARIABLE scenario

MCLayouts == {<<"video", "none", "none">>, <<"video", "audio", "none">>, <<"other", "audio", "none">>}
MCLeadLayouts == {<<"video", "audio", "video">>, <<"none", "audio", "video">>, <<"video", "other", "none">>}
MCAllLayouts == MCLayouts \cup MCLeadLayouts

MCNoStamp == [hasPTS |-> FALSE, hasDTS |-> FALSE, pts |-> 0, dts |-> 0]
MCPTS == [MCNoStamp EXCEPT !.hasPTS = TRUE, !.pts = 2]
MCDTS == [hasPTS |-> TRUE, hasDTS |-> TRUE, pts |-> 1, dts |-> -1]
MCStampSets == {MCNoStamp, MCPTS, MCDTS}

\* After a step of 1 one of 3 exceeds it by GapMinTicks and no more, after one of 3 one of
\* 6 is GapRatio times as long and no more, and after one of 1 it is a jump.
MCStampSteps == {1, 3, 6, -1}

mcVars == <<checkVars, leadVars, anomalyVars, scenario>>

MCInit ==
  /\ LeadInit
  /\ AnomalyInit
  /\ scenario \in {"repetition", "lead", "anomaly"}

\* What the repetition is measured from.  Every problem and cause ends an interval
\* alike, so PID 2 has one of each.
RepetitionNext ==
  /\ offset < MaxObserved
  /\ offset' = offset + 1
  /\ \/ \E types \in MCLayouts : ObserveProgramLayout(types)
     \/ \E p \in {q \in DOMAIN streams : streams[q].active} :
          \/ \E hasPTS \in BOOLEAN, at \in NextTimes(p) : ObserveGoodHeader(p, hasPTS, at)
          \/ \E problem \in HeaderProblems :
               (p = 2 => problem = "malformed") /\ ObserveBadHeader(p, problem)
          \/ \E cause \in BreakCauses :
               (p = 2 => cause = "untrusted_payload") /\ ObserveBreak(p, cause)

\* The leads of three PIDs of which the first layout lists all.
LeadScenarioNext ==
  /\ offset < MaxObserved
  /\ offset' = offset + 1
  /\ \/ \E types \in MCLeadLayouts :
          /\ offset = 0 => types = <<"video", "audio", "video">>
          /\ LeadLayout(types)
     \/ \E p \in {q \in DOMAIN streams : streams[q].active} :
          \/ \E carries \in {MCPTS, MCDTS}, at \in NextTimes(p) :
               /\ ~at.valid => carries = MCPTS
               /\ at.valid /\ at.segment = time[p].segment => at.ticks = time[p].ticks + 3
               /\ LeadPES(p, carries, at)
          \/ p = 2 /\ LeadBadHeader(p, "malformed")
          \/ p # 2 /\ LeadBreak(p, "continuity_error")

MCNext ==
  /\ scenario' = scenario
  /\ \/ scenario = "repetition" /\ RepetitionNext /\ UNCHANGED <<leadVars, anomalyVars>>
     \/ scenario = "lead" /\ LeadScenarioNext /\ UNCHANGED anomalyVars
     \/ scenario = "anomaly" /\ AnomalyNext /\ UNCHANGED <<checkVars, leadVars>>

MCSpec == MCInit /\ [][MCNext]_mcVars
===============================================================================
