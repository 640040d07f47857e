------------------------------- MODULE PcrStats -------------------------------
(***************************************************************************)
(* What a program analysis measures on the PCR time base besides the PES    *)
(* packets: BitrateStats (tsparser/bitrate.go), PcrJitter with its delivery *)
(* assessment (tsparser/pcr_jitter.go) and the time series of the PCRs      *)
(* (tsparser/series.go).  The bitrate and the series follow each step as it *)
(* is classified; the jitter classifies its samples again at the end.       *)
(*                                                                         *)
(* A packet counts as one unit instead of 188 bytes.  A jitter is the exact *)
(* quotient [num, den] of ticks that the code rounds to a floating point    *)
(* number, and a limit is a number of ticks.                                *)
(***************************************************************************)
EXTENDS PcrClock, SequencesExt

CONSTANTS
  StatStreams,      \* the sets of PIDs, without the PCR_PID, a layout may have
  NullPid,          \* stuffing: counted, and not part of the program
  Second,           \* ticks of a bitrate and of a delivery window
  AccuracyLimit, DvbLimit, PlausibleLimit,   \* jitter limits
  TolerancePercent  \* how far the rate of a delivery window may deviate

ASSUME StatsAssumption ==
  /\ Second \in Nat \ {0}
  /\ AccuracyLimit \in Nat /\ DvbLimit \in Nat /\ PlausibleLimit \in Nat
  /\ TolerancePercent \in Nat
  /\ MaxPackets \in Nat
  /\ IsFiniteSet((UNION StatStreams) \cup PcrPids)

VARIABLES
  bitrate,   \* BitrateStats
  samples,   \* PcrJitter.samples
  series,    \* programSeries.pcr
  mux,       \* every packet, and whether its PID was counted, for the properties
  marks      \* the PCR timeline at every PCR, for the properties only

statVars == <<bitrate, samples, series, mux, marks>>

MuxPids == (UNION StatStreams) \cup PcrPids \cup {NullPid}
Windows == 0 .. (MaxPackets * PCRJumpLimit) \div Second

-------------------------------------------------------------------------------
(* BitrateStats.                                                             *)

NoBytes == [p \in MuxPids |-> 0]

\* setLayout.
CountPids(b, pids, pcr) ==
  [b EXCEPT !.counted = pids \cup {pcr, NullPid}, !.programPids = @ \cup pids \cup {pcr}]

NewBitrateStats(pids, pcr) ==
  CountPids([started |-> FALSE, elapsed |-> 0, segments |-> 0, pending |-> NoBytes,
             total |-> NoBytes, buckets |-> [p \in MuxPids |-> [w \in Windows |-> 0]],
             counted |-> {}, programPids |-> {}], pids, pcr)

CountPacket(b, p) == IF p \in b.counted THEN [b EXCEPT !.pending[p] = @ + 1] ELSE b

\* What waits as part of the total, and of the window it began in.
TotalWith(b)   == [p \in MuxPids |-> b.total[p] + b.pending[p]]
BucketsWith(b) ==
  [p \in MuxPids |-> [b.buckets[p] EXCEPT ![b.elapsed \div Second] = @ + b.pending[p]]]

\* Mutant: what waits across a boundary is counted in the next interval.
MarkPcrStep_KeepsPending(b, kind, ticks) ==
  IF ~b.started THEN [b EXCEPT !.started = TRUE, !.segments = 1, !.pending = NoBytes]
  ELSE IF ~Comparable(kind) THEN [b EXCEPT !.segments = @ + 1]
  ELSE [b EXCEPT !.total = TotalWith(b), !.buckets = BucketsWith(b), !.elapsed = @ + ticks,
                 !.pending = NoBytes]

\* markPcrStep: the interval that ends belongs to the window it began in; what
\* came before the first PCR, or across a boundary, is dropped.
MarkPcrStep(b, kind, ticks) ==
  IF ~b.started THEN [b EXCEPT !.started = TRUE, !.segments = 1, !.pending = NoBytes]
  ELSE IF ~Comparable(kind) THEN [b EXCEPT !.segments = @ + 1, !.pending = NoBytes]
  ELSE [b EXCEPT !.total = TotalWith(b), !.buckets = BucketsWith(b), !.elapsed = @ + ticks,
                 !.pending = NoBytes]

FullBuckets(b) == b.elapsed \div Second

\* windowDurations: a last window for the rest of a second.
WindowCount(b) == FullBuckets(b) + (IF b.elapsed % Second > 0 THEN 1 ELSE 0)

FullWindows(b) == 0 .. FullBuckets(b) - 1

SumOver(f, S) == MapThenSumSet(LAMBDA x : f[x], S)

InWindow(b, w) == [p \in MuxPids |-> b.buckets[p][w]]

\* peakBps and programPeakBps.
Peak(b, pids) == Max({0} \cup {SumOver(InWindow(b, w), pids) : w \in FullWindows(b)})

-------------------------------------------------------------------------------
(* PcrJitter.                                                                *)

\* Mutant: a stored sample does not tell that the PCR_PID changed before it.
StoredKind_ByPid(s, i) ==
  StepKind([valid |-> TRUE, pid |-> s[i - 1].pid, value |-> s[i - 1].value],
           [s[i] EXCEPT !.pidChanged = FALSE])

\* pcrStep, of two samples as they were stored.
StoredKind(s, i) ==
  StepKind([valid |-> TRUE, pid |-> s[i - 1].pid, value |-> s[i - 1].value], s[i])

Timed(sample, time) == [pos |-> sample.pos, clock |-> time]

\* The sample i in the segment of the one before it, or in one of its own.
AddTimed(s, segs, i) ==
  IF ~Comparable(StoredKind(s, i)) THEN Append(segs, <<Timed(s[i], s[i].value)>>)
  ELSE LET time == Last(Last(segs)).clock + StepTicks(s[i - 1], s[i])
       IN Append(Front(segs), Append(Last(segs), Timed(s[i], time)))

\* The samples from the second on.
Later(s) == [i \in 1 .. Len(s) - 1 |-> i + 1]

\* analyzePcrJitter: the samples as timing segments; there is one at least.
JitterSegments(s) ==
  FoldLeft(LAMBDA segs, i : AddTimed(s, segs, i), <<<<Timed(s[1], s[1].value)>>>>, Later(s))

\* The jitter of an interior sample against its two neighbours.
JitterAt(p0, p1, p2) ==
  [pos |-> p1.pos,
   num |-> (p1.clock - p0.clock) * (p2.pos - p0.pos) - (p2.clock - p0.clock) * (p1.pos - p0.pos),
   den |-> p2.pos - p0.pos]

JitterPoints(s) ==
  UNION {{JitterAt(seg[i - 1], seg[i], seg[i + 1]) : i \in 2 .. Len(seg) - 1} :
           seg \in Range(JitterSegments(s))}

JitterOver(point, limit) == point.num > limit * point.den \/ -point.num > limit * point.den

\* The interval before the sample i as part of the window in progress.
AddInterval(s, d, i) ==
  IF ~Comparable(StoredKind(s, i)) THEN [d EXCEPT !.units = 0, !.ticks = 0]
  ELSE LET units == d.units + s[i].pos - s[i - 1].pos
           ticks == d.ticks + StepTicks(s[i - 1], s[i])
       IN IF ticks >= Second
            THEN [units |-> 0, ticks |-> 0,
                  windows |-> Append(d.windows, [units |-> units, ticks |-> ticks])]
            ELSE [d EXCEPT !.units = units, !.ticks = ticks]

NoWindows == [units |-> 0, ticks |-> 0, windows |-> <<>>]

\* deliveryWindows: consecutive intervals of a segment that add up to a second.
DeliveryWindows(s) ==
  FoldLeft(LAMBDA d, i : AddInterval(s, d, i), NoWindows, Later(s)).windows

\* The rate of a window deviates from that of all windows by more than the tolerance.
Deviates(w, units, ticks) ==
  LET off == w.units * ticks - units * w.ticks
  IN off * 100 > TolerancePercent * units * w.ticks \/ -off * 100 > TolerancePercent * units * w.ticks

\* assessDelivery.
Delivery(s, points) ==
  LET windows == DeliveryWindows(s)
      units   == SumOver([i \in DOMAIN windows |-> windows[i].units], DOMAIN windows)
      ticks   == SumOver([i \in DOMAIN windows |-> windows[i].ticks], DOMAIN windows)
  IN IF Len(windows) >= 2 /\ \E w \in Range(windows) : Deviates(w, units, ticks) THEN "variable"
     ELSE IF \E q \in points : JitterOver(q, PlausibleLimit) THEN "variable"
     ELSE IF Len(windows) < 2 THEN "unknown" ELSE "constant"

\* evaluate: 3 of 10 samples that start a segment are the most it accepts.
JitterStatus(s) ==
  LET points == JitterPoints(s)
      gaveUp == 10 * (Len(JitterSegments(s)) - 1) > 3 * Len(s)
  IN IF Len(s) < 3 \/ points = {} \/ gaveUp THEN "skipped"
     ELSE IF Delivery(s, points) # "constant" THEN "not_assessable"
     ELSE IF \E q \in points : JitterOver(q, DvbLimit) THEN "ng"
     ELSE IF \E q \in points : JitterOver(q, AccuracyLimit) THEN "warning" ELSE "ok"

-------------------------------------------------------------------------------
(* programSeries.                                                            *)

\* addPcr: elapsed stands still at a discontinuity.
AddPcr(points, at, kind, ticks) ==
  LET before == IF points = <<>> THEN 0 ELSE Last(points).elapsed
  IN Append(points, [pos |-> at, kind |-> kind,
                     elapsed |-> IF Comparable(kind) THEN before + ticks ELSE before])

-------------------------------------------------------------------------------
StatsInit ==
  /\ \E pids \in StatStreams : bitrate = NewBitrateStats(pids, pcrPid)
  /\ samples = <<>> /\ series = <<>> /\ mux = <<>> /\ marks = <<>>

\* observe and observePcr: a packet is counted before its own PCR.
CountOnly(p) ==
  /\ \/ UNCHANGED pcrVars
     \/ p = pcrPid /\ ObserveIndicator
  /\ bitrate' = CountPacket(bitrate, p)
  /\ UNCHANGED <<samples, series, marks>>

CountWithPcr(p) ==
  /\ p = pcrPid
  /\ \E move \in Moves, indicated \in Indicators :
       LET sample == [pos |-> pos + 1, pid |-> pcrPid, value |-> (prevPcr.value + move) % PCRWrapTicks,
                      discontinuity |-> Declared(indicated), pidChanged |-> pcrPidChanged]
           kind   == StepKind(prevPcr, sample)
           ticks  == StepTicks(prevPcr, sample)
       IN /\ ObservePcr(move, indicated, pos + 1)
          /\ bitrate' = MarkPcrStep(CountPacket(bitrate, p), kind, ticks)
          /\ samples' = Append(samples, sample)
          /\ series' = AddPcr(series, pos + 1, kind, ticks)
  /\ marks' = Append(marks, clock')

StatsPacket(p) ==
  /\ pos < MaxPackets
  /\ pos' = pos + 1
  /\ mux' = Append(mux, [pid |-> p, counted |-> p \in bitrate.counted])
  /\ CountOnly(p) \/ CountWithPcr(p)

StatsLayout(pids, pid) ==
  /\ SetPcrPid(pid)
  /\ bitrate' = CountPids(bitrate, pids, pid)
  /\ UNCHANGED <<pos, samples, series, mux, marks>>

\* The statistics alone, without the PES packets.
StatsNext ==
  \/ \E p \in MuxPids : StatsPacket(p)
  \/ \E pids \in StatStreams, pid \in PcrPids : StatsLayout(pids, pid)

StatsSpec == PcrInit /\ StatsInit /\ [][StatsNext]_<<pos, pcrVars, statVars>>

-------------------------------------------------------------------------------
(* Properties.                                                               *)

\* The intervals between two PCRs of one segment of the PCR timeline.
MeasuredSpans == {i \in 1 .. Len(marks) - 1 : marks[i].segment = marks[i + 1].segment}

SpanTicks == [i \in MeasuredSpans |-> marks[i + 1].unwrapped - marks[i].unwrapped]

TicksBefore(n) == SumOver(SpanTicks, {i \in MeasuredSpans : i < n})

CountedIn(i, pids) ==
  Cardinality({k \in marks[i].pos + 1 .. marks[i + 1].pos : mux[k].counted /\ mux[k].pid \in pids})

Counted(pids) == [i \in MeasuredSpans |-> CountedIn(i, pids)]

CountedInWindow(w, pids) ==
  SumOver(Counted(pids), {i \in MeasuredSpans : TicksBefore(i) \div Second = w})

\* The bitrate counts exactly the packets between two PCRs of one segment of the
\* timeline that places PES packets, each in the window its interval begins in,
\* whatever boundaries and layout changes lie between them; and the bitrate, the
\* series and the timeline measure the same time.
BitrateAsDefined ==
  LET program == {mux[k].pid : k \in DOMAIN mux} \cap bitrate.programPids IN
  marks # <<>> =>
    /\ bitrate.elapsed = TicksBefore(Len(marks))
    /\ bitrate.segments = Last(marks).segment
    /\ \A p \in MuxPids :
         /\ bitrate.total[p] = SumOver(Counted({p}), MeasuredSpans)
         /\ Peak(bitrate, {p}) =
              Max({0} \cup {CountedInWindow(w, {p}) : w \in FullWindows(bitrate)})
    /\ Peak(bitrate, bitrate.programPids) =
         Max({0} \cup {CountedInWindow(w, program) : w \in FullWindows(bitrate)})
    /\ \A n \in DOMAIN marks : series[n].elapsed = TicksBefore(n)

\* Three PCRs in a row of one segment of the timeline.
Interior(i) == /\ i - 1 \in DOMAIN marks /\ i + 1 \in DOMAIN marks
               /\ {marks[i - 1].segment, marks[i + 1].segment} = {marks[i].segment}

OnTimeline(i) == [pos |-> marks[i].pos, clock |-> marks[i].unwrapped]

\* Delivery at one rate throughout, as far as the PCRs tell.
Even(i, j, k, l) ==
  (marks[j].pos - marks[i].pos) * (marks[l].unwrapped - marks[k].unwrapped)
    = (marks[l].pos - marks[k].pos) * (marks[j].unwrapped - marks[i].unwrapped)

EvenDelivery ==
  \A i, k \in MeasuredSpans : SpanTicks[i] > 0 /\ Even(i, i + 1, k, k + 1)

\* The jitter, computed at the end from the stored samples, is that of the
\* segments the analysis used while it ran, and every delivery window lies in one
\* of them; an even stream is never found at fault, and one judged ok has no
\* jitter above the limit.
JitterAsDefined ==
  marks # <<>> =>
    LET judged == JitterStatus(samples)
        wanted == {JitterAt(OnTimeline(i - 1), OnTimeline(i), OnTimeline(i + 1)) :
                     i \in {j \in DOMAIN marks : Interior(j)}}
    IN /\ JitterPoints(samples) = wanted
       /\ Len(JitterSegments(samples)) = Last(marks).segment
       /\ EvenDelivery => judged \in {"ok", "skipped"} \/ Len(DeliveryWindows(samples)) < 2
       /\ judged = "ok" => \A q \in wanted : ~JitterOver(q, AccuracyLimit)
       /\ \A w \in Range(DeliveryWindows(samples)) :
            \E i, j \in DOMAIN marks :
              /\ marks[i].segment = marks[j].segment
              /\ w.units = marks[j].pos - marks[i].pos
              /\ w.ticks = marks[j].unwrapped - marks[i].unwrapped /\ w.ticks >= Second

\* What is measured on the PCRs does not depend on where a program changed or what
\* else was kept at the time.
StatisticsAsDefined == BitrateAsDefined /\ JitterAsDefined

\* bitrate.go:219 "windowBytes returns the bytes of a PID in each window of
\* windowDurations": every window that has bytes is one of them.
WindowsHoldAllBytes ==
  \A p \in MuxPids, w \in Windows : bitrate.buckets[p][w] > 0 => w < WindowCount(bitrate)
===============================================================================
