------------------------------ MODULE PcrTimeline ------------------------------
(***************************************************************************)
(* PCR values, the kinds of step between them, and the timeline that places *)
(* PES packets: internal/analysis/pcr.go and tsparser/pes_health.go.        *)
(***************************************************************************)
EXTENDS Integers

CONSTANTS
  PCRWrapTicks,   \* the PCR modulus
  PCRJumpLimit    \* the largest forward step still measured as an interval

ASSUME TimelineAssumption ==
  /\ PCRWrapTicks \in Nat \ {0}
  /\ PCRJumpLimit \in 0 .. PCRWrapTicks - 1

PCRStepKinds == {"first", "continuous", "wraparound", "declared",
                 "pcr_pid_change", "backward", "forward_jump"}

\* Steps that are measured as an interval within one timing segment.
Comparable(kind) == kind \in {"continuous", "wraparound"}

\* PCRClock.Observe: the kind of the PCR p after the PCR prev.
StepKind(prev, p) ==
  IF ~prev.valid THEN "first"
  ELSE IF p.pid # prev.pid \/ p.pidChanged THEN "pcr_pid_change"
  ELSE IF p.discontinuity THEN "declared"
  ELSE IF p.value >= prev.value
    THEN IF p.value - prev.value <= PCRJumpLimit THEN "continuous" ELSE "forward_jump"
    ELSE IF p.value + PCRWrapTicks - prev.value <= PCRJumpLimit
      THEN "wraparound" ELSE "backward"

\* The interval of a comparable step, counted across the wrap.
StepTicks(prev, p) ==
  IF p.value >= prev.value THEN p.value - prev.value
                           ELSE p.value + PCRWrapTicks - prev.value

Anchors == [valid : BOOLEAN, pcr : Int, unwrapped : Int, pos : Int, segment : Int]

NoAnchor == [valid |-> FALSE, pcr |-> 0, unwrapped |-> 0, pos |-> 0, segment |-> 0]

\* Mutant: the value is not counted on across a wraparound.
NextPcrAnchor_NoUnwrap(prev, pcr, pos, measured) ==
  [valid |-> TRUE, pcr |-> pcr, pos |-> pos, unwrapped |-> pcr,
   segment |-> IF measured THEN prev.segment ELSE prev.segment + 1]

\* nextPcrAnchor: a PCR whose interval from prev was not measured starts a new
\* segment; unwrapped counts on across the wraparounds of a segment.
NextPcrAnchor(prev, pcr, pos, measured) ==
  [valid     |-> TRUE,
   pcr       |-> pcr,
   pos       |-> pos,
   unwrapped |-> IF measured
                   THEN prev.unwrapped + ((pcr + PCRWrapTicks - prev.pcr) % PCRWrapTicks)
                   ELSE pcr,
   segment   |-> IF measured THEN prev.segment ELSE prev.segment + 1]

Arrivals == [valid : BOOLEAN, ticks : Int, segment : Int]

Unplaced == [valid |-> FALSE, ticks |-> 0, segment |-> 0]

\* arrivalAt: the time of the packet at pos, interpolated between the PCRs
\* before and after it when both belong to one segment, in whole ticks.
ArrivalAt(prev, next, pos) ==
  IF prev.valid /\ next.valid /\ next.segment = prev.segment /\ prev.pos < next.pos
    THEN [valid   |-> TRUE,
          ticks   |-> prev.unwrapped
                        + ((next.unwrapped - prev.unwrapped) * (pos - prev.pos))
                            \div (next.pos - prev.pos),
          segment |-> prev.segment]
    ELSE Unplaced
===============================================================================
