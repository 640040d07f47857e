--------------------------- MODULE MCProgramAnalyzer ---------------------------
(* Small instances of ProgramAnalyzer and PcrStats: PIDs 1 and 2 may be        *)
(* elementary streams and PIDs 1 and 3 may carry the PCR.  A behaviour follows *)
(* one scenario: "delivery" has faults, two streams and layout changes over an *)
(* even clock, "timing" has every kind of PCR step and PCR_PID change over one *)
(* stream, "statistics" has what the bitrate and the jitter measure.           *)
EXTENDS ProgramAnalyzer, PcrStats

VARIABLE scenario

MCMoves == {0, 1, 2, 3, -1}

\* A header that takes one packet, and one cut short unless a second follows.
MCShortHeader == [need |-> 1, problem |-> "ok"]
MCLongHeader == [need |-> 2, problem |-> "ok"]
MCHeaders == {MCShortHeader, MCLongHeader}

\* The second stream is removed or added, and the first changes its type.
MCTwoStreams == <<"video", "audio">>
MCOneStream == <<"video", "none">>
MCLayouts == {MCTwoStreams, <<"other", "none">>, MCOneStream}

\* Statistics: PID 2 is removed or added.
MCStatStreams == {{}, {2}}

mcVars == <<analyzerVars, statVars, scenario>>

MCInit ==
  /\ Init
  /\ StatsInit
  /\ \/ scenario = "delivery" /\ pcrPid = 1 /\ Layout = MCTwoStreams
     \/ scenario = "timing" /\ Layout = MCOneStream
     \/ scenario = "statistics" /\ pcrPid = 1 /\ Layout = MCOneStream
  /\ 2 \in bitrate.counted

\* How far the sender's clock moved to the PCR of this packet, if it has one.
Moved(moves, indicated) ==
  \/ prevPcr' = prevPcr /\ kinds' = kinds
  \/ /\ \E move \in moves : prevPcr'.value = (prevPcr.value + move) % PCRWrapTicks
     /\ indicated \/ kinds'["declared"] = kinds["declared"]

DeliveryNext ==
  \/ /\ pos < 4
     /\ \E p \in Pids, payload \in {"none", "untrusted", "start", "more"}, lost \in BOOLEAN :
          (lost => payload \in {"start", "more"}) /\ Packet(p, lost, payload, MCLongHeader)
     /\ Moved({1}, FALSE)
     /\ ~discontinuityPending'
  \/ Len(layouts) = 1 /\ \E types \in MCLayouts \ {MCOneStream} : SetLayout(types, pcrPid)
  \/ Stop
  \/ Finish

TimingNext ==
  \/ /\ pos < 4
     /\ \/ Packet(1, FALSE, "start", MCShortHeader) /\ Moved({1, 3, -1}, FALSE)
        \/ Packet(1, FALSE, "none", MCShortHeader) /\ Moved({1, 3, -1}, TRUE)
        \/ Packet(3, FALSE, "none", MCShortHeader) /\ Moved({1, 3, -1}, TRUE)
  \/ /\ Len(layouts) = 1 \/ pos < 3
     /\ \E newPcrPid \in PcrPids : SetLayout(MCOneStream, newPcrPid)
  \/ Stop
  \/ Finish

\* PID 2 is removed, the PCR_PID moves or both, and all is as before one packet later.
StatisticsNext ==
  \/ /\ \/ StatsPacket(pcrPid) /\ Moved({0, 1, 2}, FALSE)
        \/ StatsPacket(pcrPid) /\ Moved({1}, TRUE)
        \/ pos \in {1, 2, 4} /\ \E p \in {2, NullPid} : StatsPacket(p)
  \/ /\ bitrate.counted = {1, 2, NullPid} /\ pos = 2
     /\ \E pids \in StatStreams, pid \in PcrPids : StatsLayout(pids, pid)
  \/ bitrate.counted # {1, 2, NullPid} /\ pos = 3 /\ StatsLayout({2}, 1)

MCNext ==
  /\ scenario' = scenario
  /\ \/ scenario = "delivery" /\ DeliveryNext /\ UNCHANGED statVars
     \/ scenario = "timing" /\ TimingNext /\ UNCHANGED statVars
     \/ scenario = "statistics" /\ StatisticsNext
        /\ UNCHANGED <<phase, feed, pes, layouts, pcrs, started>>

MCSpec == MCInit /\ [][MCNext]_mcVars
===============================================================================
