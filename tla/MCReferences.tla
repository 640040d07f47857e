----------------------------- MODULE MCReferences ------------------------------
(* Three scenarios.  "references" has one program whose stream moves from PID 1   *)
(* to PID 2, and whose PMT may still be unknown.  "health" has a clock that moves *)
(* on by 60 ticks, so that the packets between two PCRs fall on whole ticks, and  *)
(* PIDs that are only compared.  "repetition" has longer PCR intervals: more       *)
(* packets, with nothing but PCRs of one segment and the PAT, so that intervals    *)
(* of a table lie within a PCR interval, and two late ones may end in one.         *)
EXTENDS PidReferences, PsiHealth, TLC

CONSTANTS
  p1, p2, m1, m2,
  MaxHealthPackets   \* bound on the packets of "health"

VARIABLE scenario

MCSymmetry == Permutations(PcrPids) \cup Permutations(PmtPids)

Program(streams, known) ==
  [programs |-> {[number |-> 1, pmt |-> 3, known |-> known, pcr |-> 1, streams |-> streams, ca |-> {}]},
   network |-> 0]

MCReferenceLayouts ==
  {Program({[pid |-> 1, type |-> "video"]}, TRUE), Program({[pid |-> 2, type |-> "audio"]}, TRUE),
   Program({}, FALSE)}

mcVars == <<referenceVars, healthVars, scenario>>

MCInit == Init /\ HealthInit /\ scenario \in {"references", "health", "repetition"}

\* HealthPacket with a PCR that continues its segment, the PAT or another packet.
RepetitionPacket ==
  /\ ~health.finished
  /\ pos < MaxPackets
  /\ pos' = pos + 1
  /\ \/ \E move \in Moves : PcrPacket(move, FALSE)
     \/ SectionPacket(PAT, TRUE)
     \/ OtherPacket

MCNext ==
  /\ scenario' = scenario
  /\ \/ scenario = "references" /\ Next /\ UNCHANGED healthVars
     \/ scenario = "health" /\ HealthNext /\ pos' <= MaxHealthPackets /\ UNCHANGED referenceVars
     \/ scenario = "repetition" /\ (RepetitionPacket \/ FinishHealth) /\ UNCHANGED referenceVars

MCSpec == MCInit /\ [][MCNext]_mcVars
===============================================================================
