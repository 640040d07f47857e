------------------------------- MODULE PcrClock -------------------------------
(***************************************************************************)
(* The PCR timing of one program: PCRCheck (internal/analysis/pcr.go) and   *)
(* the PCR half of programAnalyzer (tsparser/mpeg_packet.go).               *)
(*                                                                         *)
(* The variable truth is what an observer of the sender would know; the     *)
(* code sees only the 33-bit-like values modulo PCRWrapTicks.               *)
(***************************************************************************)
EXTENDS PcrTimeline

CONSTANTS
  PcrPids,      \* the PIDs a PMT may name as PCR_PID
  Moves,        \* how far the sender's clock may move between two PCRs
  Indicators,   \* the values discontinuity_indicator takes: a subset of BOOLEAN
  MaxPackets    \* bound on the packets of a behaviour

\* No PCR interval comes near the modulus, forwards or backwards: such a move
\* cannot be told apart from a small one.
ASSUME MovesAssumption ==
  /\ Moves \subseteq Int
  /\ Indicators \subseteq BOOLEAN
  /\ \A m \in Moves : m < PCRWrapTicks /\ -m < PCRWrapTicks - PCRJumpLimit

VARIABLES
  pos,          \* packets read so far
  pcrPid,       \* programAnalyzer.pcrPid
  prevPcr,      \* PCRClock.prev
  clock,        \* programAnalyzer.clock, the last PCR as an anchor
  discontinuityPending, pcrPidChanged,
  kinds,        \* PCRCheck.kinds: how often each kind of step occurred
  maxTicks,     \* PCRCheck.maxTicks
  truth         \* [elapsed, bases, marked]: see TruthAfter

pcrVars == <<pcrPid, prevPcr, clock, discontinuityPending, pcrPidChanged, kinds,
             maxTicks, truth>>

PcrInit ==
  /\ pos = 0
  /\ pcrPid \in PcrPids
  /\ prevPcr = [valid |-> FALSE, pid |-> pcrPid, value |-> 0]
  /\ clock = NoAnchor
  /\ discontinuityPending = FALSE
  /\ pcrPidChanged = FALSE
  /\ kinds = [kind \in PCRStepKinds |-> 0]
  /\ maxTicks = 0
  /\ truth = [elapsed |-> 0, bases |-> 0, marked |-> TRUE]

\* The sender's clock moved by move since the last PCR.  It has kept its time
\* base unless something marked a new one in between, or it moved as no PCR
\* interval explains.
TruthAfter(move, value, indicated) ==
  LET new == truth.marked \/ indicated \/ move < 0 \/ move > PCRJumpLimit IN
    [elapsed |-> IF new THEN value ELSE truth.elapsed + move,
     bases   |-> IF new THEN truth.bases + 1 ELSE truth.bases,
     marked  |-> FALSE]

\* discontinuity_indicator on the PCR packet or on one since the last PCR.
Declared(indicated) == indicated \/ discontinuityPending

\* observePcr: a PCR on the PCR_PID, offset at.
ObservePcr(move, indicated, at) ==
  LET value == (prevPcr.value + move) % PCRWrapTicks
      pcr   == [pid |-> pcrPid, value |-> value, discontinuity |-> Declared(indicated),
                pidChanged |-> pcrPidChanged]
      kind  == StepKind(prevPcr, pcr)
  IN
    /\ prevPcr' = [valid |-> TRUE, pid |-> pcrPid, value |-> value]
    /\ clock' = NextPcrAnchor(clock, value, at, Comparable(kind))
    /\ discontinuityPending' = FALSE
    /\ pcrPidChanged' = FALSE
    /\ kinds' = [kinds EXCEPT ![kind] = @ + 1]
    /\ maxTicks' = IF Comparable(kind) /\ StepTicks(prevPcr, pcr) > maxTicks
                     THEN StepTicks(prevPcr, pcr) ELSE maxTicks
    /\ truth' = TruthAfter(move, value, indicated)
    /\ UNCHANGED pcrPid

\* observe: discontinuity_indicator on the PCR_PID in a packet without a PCR.
ObserveIndicator ==
  /\ TRUE \in Indicators
  /\ discontinuityPending' = TRUE
  /\ truth' = [truth EXCEPT !.marked = TRUE]
  /\ UNCHANGED <<pcrPid, prevPcr, clock, pcrPidChanged, kinds, maxTicks>>

\* Mutant: a change of the PCR_PID is only noticed by the PID of the next PCR.
SetPcrPid_NotMarked(pid) ==
  IF pid = pcrPid
    THEN UNCHANGED pcrVars
    ELSE /\ pcrPid' = pid
         /\ discontinuityPending' = FALSE
         /\ clock' = [NoAnchor EXCEPT !.segment = clock.segment]
         /\ truth' = [truth EXCEPT !.marked = TRUE]
         /\ UNCHANGED <<prevPcr, pcrPidChanged, kinds, maxTicks>>

\* setLayout: a new PCR_PID ends the PCR timing segment.
SetPcrPid(pid) ==
  IF pid = pcrPid
    THEN UNCHANGED pcrVars
    ELSE /\ pcrPid' = pid
         /\ discontinuityPending' = FALSE
         /\ pcrPidChanged' = TRUE
         /\ clock' = [NoAnchor EXCEPT !.segment = clock.segment]
         /\ truth' = [truth EXCEPT !.marked = TRUE]
         /\ UNCHANGED <<prevPcr, kinds, maxTicks>>

\* The clock alone, without the PES packets it places.
PcrNext ==
  /\ pos < MaxPackets
  /\ pos' = pos + 1
  /\ \/ \E move \in Moves, indicated \in Indicators : ObservePcr(move, indicated, pos + 1)
     \/ ObserveIndicator
     \/ \E pid \in PcrPids : SetPcrPid(pid)

PcrSpec == PcrInit /\ [][PcrNext]_<<pos, pcrVars>>

-------------------------------------------------------------------------------
SegmentTimeIsTrue ==
  clock.valid =>
    /\ clock.unwrapped = truth.elapsed
    /\ clock.pcr = clock.unwrapped % PCRWrapTicks
    /\ clock.pcr = prevPcr.value

SegmentPerTimeBase == clock.segment = truth.bases

\* The time of the last PCR in its segment is the time that passed on the
\* sender's clock, however many wraparounds lie in the segment.  A segment never
\* spans a change of the sender's time base, and only such a change starts one: a
\* declared one, a change of the PCR_PID (even away and back again), or a move
\* that no PCR interval explains.
ClockIsTrue == SegmentTimeIsTrue /\ SegmentPerTimeBase
===============================================================================
