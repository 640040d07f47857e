---------------------------- MODULE PesCheck_proofs ----------------------------
(***************************************************************************)
(* Proofs about PesCheck, for every limit, layout and sequence of PES        *)
(* packets and breaks: what it reports of the intervals between two PTSs is  *)
(* never taken back, and is what the history of the observations defines;    *)
(* about TimestampAnomaly, for every period, ratio and sequence of           *)
(* timestamps and layouts: it finds what the true times define; and about    *)
(* MuxLead, for every period and lead that a stamp can tell: the leads it    *)
(* counts and compares are the true ones.                                    *)
(***************************************************************************)
EXTENDS PesCheck, TimestampAnomaly, MuxLead, Induction, TLAPS

StreamFields ==
  {"type", "active", "applicable", "pes", "unchecked", "untrusted", "problems", "pts", "placed",
   "intervals", "max", "exceeded", "firstOver", "open", "openHasPTS", "openSegment", "openFrom",
   "openStart", "last", "lastAt"}

\* The types of what is reported of the intervals, and of the one in progress.
StreamOK(st) ==
  /\ DOMAIN st = StreamFields /\ st.applicable \in BOOLEAN
  /\ st.exceeded \in Nat /\ st.max.valid \in BOOLEAN /\ st.max.ticks \in Int
  /\ st.open \in BOOLEAN /\ st.openStart \in Int /\ st.openFrom \in Int
  /\ st.last \in Int /\ st.lastAt \in Int

\* An interval in progress is one of a video or audio PID, in the segment of its last
\* time, and began at an offset observed by now.
InTime(st, t, now) ==
  st.open => /\ IsVideoOrAudio(st.type) /\ st.openSegment = t.segment
             /\ st.last = t.ticks /\ st.openStart <= st.last /\ st.openFrom <= now

\* What is reported: what has been recorded, with the interval in progress when it is
\* already above the limit.
Late(st) == st.open /\ st.lastAt # st.openFrom /\ st.last - st.openStart > PTSRepetitionLimitTicks

Reported(st) == IF Late(st) THEN Record(st, Pending(st)) ELSE st

\* What is reported of one state is still reported of another.
Grows(a, b) ==
  /\ a.exceeded <= b.exceeded
  /\ a.max.valid => b.max.valid /\ a.max.ticks <= b.max.ticks

\* Two states with the same interval in progress, or none.
SameProgress(a, b) ==
  /\ b.open = a.open /\ b.openSegment = a.openSegment /\ b.openStart = a.openStart
  /\ b.openFrom = a.openFrom /\ b.last = a.last /\ b.lastAt = a.lastAt

\* Two states that differ in no field of the intervals.
SameIntervals(a, b) ==
  b.exceeded = a.exceeded /\ b.max = a.max /\ SameProgress(a, b)

SameTags(a, b) == b.type = a.type /\ b.applicable = a.applicable /\ b.active = a.active

\* What recording iv makes of a state.
Recorded(a, iv, b) ==
  /\ b.exceeded = IF Over(iv) THEN a.exceeded + 1 ELSE a.exceeded
  /\ b.max = IF (iv.measured \/ Over(iv)) /\ (~a.max.valid \/ iv.ticks > a.max.ticks)
               THEN iv ELSE a.max
  /\ SameTags(a, b) /\ SameProgress(a, b)

-------------------------------------------------------------------------------
(* Recording an interval.                                                    *)

\* The interval in progress.
LEMMA PendingIs ==
  ASSUME NEW st, StreamOK(st)
  PROVE  /\ Pending(st).valid <=> st.open /\ st.lastAt # st.openFrom
         /\ Pending(st).valid => Pending(st).ticks = st.last - st.openStart
         /\ ~Pending(st).measured
         /\ Late(st) <=> Pending(st).valid /\ Over(Pending(st))
BY DEF Pending, Interval, NoInterval, Late, Over, StreamOK

\* What an interval adds to those recorded.
LEMMA RecordIs ==
  ASSUME NEW st, StreamOK(st), NEW iv
  PROVE  DOMAIN Record(st, iv) = StreamFields /\ Recorded(st, iv, Record(st, iv))
<1> DEFINE r == Record(st, iv)
<1>1. CASE ~iv.measured /\ ~Over(iv)
  <2>1. r = st
    BY <1>1 DEF Record
  <2>2. QED BY <1>1, <2>1 DEF SameTags, SameProgress, Recorded, StreamOK
<1>2. CASE iv.measured \/ Over(iv)
  <2>1. r = [st EXCEPT
          !.intervals = IF iv.measured THEN @ + 1 ELSE @,
          !.exceeded  = IF Over(iv) THEN @ + 1 ELSE @,
          !.firstOver = IF Over(iv) /\ st.exceeded = 0 THEN iv.to ELSE @,
          !.max       = IF ~@.valid \/ iv.ticks > @.ticks THEN iv ELSE @]
    BY <1>2 DEF Record
  <2> HIDE DEF r
  <2>2. /\ DOMAIN r = StreamFields
        /\ r.exceeded = IF Over(iv) THEN st.exceeded + 1 ELSE st.exceeded
        /\ r.max = IF ~st.max.valid \/ iv.ticks > st.max.ticks THEN iv ELSE st.max
        /\ r.open = st.open /\ r.openSegment = st.openSegment /\ r.openStart = st.openStart
        /\ r.openFrom = st.openFrom /\ r.last = st.last /\ r.lastAt = st.lastAt
        /\ r.type = st.type /\ r.applicable = st.applicable /\ r.active = st.active
    BY <2>1 DEF StreamOK, StreamFields
  <2>3. QED BY <1>2, <2>2 DEF SameTags, SameProgress, Recorded, r
<1>3. QED BY <1>1, <1>2

\* Recording an interval takes nothing back.
LEMMA RecordGrows ==
  ASSUME NEW st, StreamOK(st), NEW iv, iv.ticks \in Int, iv.valid = TRUE
  PROVE  StreamOK(Record(st, iv)) /\ Grows(st, Record(st, iv))
<1> DEFINE r == Record(st, iv)
<1>1. DOMAIN r = StreamFields /\ Recorded(st, iv, r)
  BY RecordIs
<1> HIDE DEF r
<1>2. r.exceeded \in Nat /\ st.exceeded <= r.exceeded
  BY <1>1 DEF Recorded, StreamOK
<1>3. r.max.valid \in BOOLEAN /\ r.max.ticks \in Int
  BY <1>1 DEF Recorded, StreamOK
<1>4. st.max.valid => r.max.valid /\ st.max.ticks <= r.max.ticks
  BY <1>1 DEF Recorded, StreamOK
<1>5. StreamOK(r)
  BY <1>1, <1>2, <1>3 DEF Recorded, StreamOK, SameProgress, SameTags
<1>6. Grows(st, r)
  BY <1>2, <1>4 DEF Grows
<1>7. QED BY <1>5, <1>6 DEF r

\* What is reported: the recorded intervals and the one in progress.
LEMMA ReportedIs ==
  ASSUME NEW st, StreamOK(st)
  PROVE  /\ StreamOK(Reported(st)) /\ Grows(st, Reported(st)) /\ SameTags(st, Reported(st))
         /\ Late(st) => Recorded(st, Pending(st), Reported(st))
         /\ ~Late(st) => Reported(st) = st
<1>1. CASE Late(st)
  <2>1. Pending(st).valid = TRUE /\ Pending(st).ticks \in Int
    BY <1>1 DEF Pending, Interval, NoInterval, Late, Over, StreamOK
  <2>2. Reported(st) = Record(st, Pending(st))
    BY <1>1 DEF Reported
  <2>3. StreamOK(Reported(st)) /\ Grows(st, Reported(st))
    BY <2>1, <2>2, RecordGrows
  <2>4. Recorded(st, Pending(st), Reported(st))
    BY <2>2, RecordIs
  <2>5. QED BY <1>1, <2>3, <2>4 DEF Recorded
<1>2. CASE ~Late(st)
  BY <1>2 DEF Reported, Grows, StreamOK, SameTags
<1>3. QED BY <1>1, <1>2

\* Ending the interval records what was reported of it.
LEMMA EndIntervalIs ==
  ASSUME NEW st, StreamOK(st)
  PROVE  LET e == EndInterval(st) IN
         /\ StreamOK(e) /\ SameTags(st, e) /\ e.open = FALSE
         /\ e.exceeded = Reported(st).exceeded /\ e.max = Reported(st).max
<1> DEFINE e == EndInterval(st)
           d == IF Pending(st).valid THEN Record(st, Pending(st)) ELSE st
<1>1. d = Reported(st)
  <2>1. CASE Late(st)
    BY <2>1, PendingIs DEF Reported
  <2>2. CASE ~Late(st) /\ Pending(st).valid
    <3>1. ~Pending(st).measured /\ ~Over(Pending(st))
      BY <2>2, PendingIs
    <3>2. QED BY <2>2, <3>1 DEF Reported, Record
  <2>3. CASE ~Pending(st).valid
    BY <2>3, PendingIs DEF Reported
  <2>4. QED BY <2>1, <2>2, <2>3
<1>2. e = [d EXCEPT !.open = FALSE]
  BY DEF EndInterval
<1>3. StreamOK(d) /\ SameTags(st, d)
  BY <1>1, ReportedIs
<1> HIDE DEF d, e
<1>4. /\ DOMAIN e = StreamFields /\ e.open = FALSE /\ e.exceeded = d.exceeded /\ e.max = d.max
      /\ e.openStart = d.openStart /\ e.openFrom = d.openFrom /\ e.last = d.last /\ e.lastAt = d.lastAt
      /\ SameTags(d, e)
  BY <1>2, <1>3 DEF StreamOK, StreamFields, SameTags
<1>5. StreamOK(e) /\ SameTags(st, e)
  BY <1>3, <1>4 DEF StreamOK, SameTags
<1>6. QED BY <1>1, <1>4, <1>5 DEF e

\* States with the same intervals are reported the same.
LEMMA SameReported ==
  ASSUME NEW a, NEW b, StreamOK(a), StreamOK(b), SameIntervals(a, b)
  PROVE  Reported(b).exceeded = Reported(a).exceeded /\ Reported(b).max = Reported(a).max
<1>1. Pending(b) = Pending(a) /\ (Late(b) <=> Late(a))
  BY DEF SameIntervals, SameProgress, Pending, Late, Interval
<1>2. CASE ~Late(a)
  BY <1>1, <1>2 DEF Reported, SameIntervals
<1>3. CASE Late(a)
  <2>1. Recorded(a, Pending(a), Record(a, Pending(a)))
    BY RecordIs
  <2>2. Reported(a) = Record(a, Pending(a)) /\ Reported(b) = Record(b, Pending(a))
    BY <1>1, <1>3 DEF Reported
  <2>3. Over(Pending(a))
    BY <1>3, PendingIs
  <2>4. /\ Record(a, Pending(a)).exceeded = a.exceeded + 1
        /\ Record(a, Pending(a)).max = IF ~a.max.valid \/ Pending(a).ticks > a.max.ticks
                                         THEN Pending(a) ELSE a.max
    BY <2>1, <2>3 DEF Recorded
  <2>5. Recorded(b, Pending(a), Record(b, Pending(a)))
    BY RecordIs
  <2>6. /\ Record(b, Pending(a)).exceeded = b.exceeded + 1
        /\ Record(b, Pending(a)).max = IF ~b.max.valid \/ Pending(a).ticks > b.max.ticks
                                         THEN Pending(a) ELSE b.max
    BY <2>3, <2>5 DEF Recorded
  <2>7. QED BY <2>2, <2>4, <2>6 DEF SameIntervals
<1>4. QED BY <1>2, <1>3

\* A state with the intervals and tags of another has its types.
LEMMA SameIsOK ==
  ASSUME NEW a, NEW b, StreamOK(a), DOMAIN b = StreamFields, SameIntervals(a, b), SameTags(a, b)
  PROVE  StreamOK(b)
BY DEF StreamOK, SameIntervals, SameProgress, SameTags

-------------------------------------------------------------------------------
(* Each operation of the check on the state of one PID.                      *)

\* A step of one PID to state b, with t its last time and now the observations: it
\* takes back nothing that was reported.
StepOK(a, b, t, now) ==
  /\ StreamOK(b) /\ InTime(b, t, now)
  /\ Grows(Reported(a), Reported(b))
  /\ a.applicable => b.applicable

\* Ending the interval in progress is such a step, whatever is counted besides.
LEMMA EndIsStep ==
  ASSUME NEW a, NEW s, StreamOK(a), StreamOK(s), SameIntervals(a, s), a.applicable => s.applicable,
         NEW t, NEW now
  PROVE  StepOK(a, EndInterval(s), t, now)
<1> DEFINE e == EndInterval(s)
<1>1. /\ StreamOK(e) /\ SameTags(s, e) /\ e.open = FALSE
      /\ e.exceeded = Reported(s).exceeded /\ e.max = Reported(s).max
  BY EndIntervalIs
<1> HIDE DEF e
<1>2. Reported(e) = e
  BY <1>1 DEF Reported, Late
<1>3. Reported(s).exceeded = Reported(a).exceeded /\ Reported(s).max = Reported(a).max
  BY SameReported
<1>4. StreamOK(Reported(a))
  BY ReportedIs
<1>5. Grows(Reported(a), Reported(e))
  BY <1>1, <1>2, <1>3, <1>4 DEF Grows, StreamOK
<1>6. InTime(e, t, now)
  BY <1>1 DEF InTime
<1>7. QED BY <1>1, <1>5, <1>6 DEF StepOK, SameTags, e

\* So is one that leaves the intervals alone.
LEMMA IdleIsStep ==
  ASSUME NEW a, NEW s, StreamOK(a), StreamOK(s), SameIntervals(a, s), a.applicable => s.applicable,
         NEW t, NEW now, InTime(s, t, now)
  PROVE  StepOK(a, s, t, now)
<1>1. Reported(s).exceeded = Reported(a).exceeded /\ Reported(s).max = Reported(a).max
  BY SameReported
<1>2. StreamOK(Reported(a))
  BY ReportedIs
<1>3. QED BY <1>1, <1>2 DEF StepOK, Grows, StreamOK

\* A PES packet that opens an interval.
LEMMA OpensIsStep ==
  ASSUME NEW a, NEW s, NEW b, StreamOK(a), StreamOK(s), StreamOK(b), NEW at, NEW now \in Nat,
         at.ticks \in Int, IsVideoOrAudio(b.type), SameTags(a, b),
         s.exceeded = Reported(a).exceeded, s.max = Reported(a).max,
         b.exceeded = s.exceeded, b.max = s.max, b.openSegment = at.segment,
         b.openStart = at.ticks, b.openFrom = now, b.last = at.ticks
  PROVE  StepOK(a, b, at, now)
<1>1. ~Late(b)
  <2>1. b.last - b.openStart = 0
    OBVIOUS
  <2>2. QED BY <2>1, CheckAssumption DEF Late
<1>2. Reported(b) = b
  BY <1>1 DEF Reported
<1>3. StreamOK(Reported(a))
  BY ReportedIs
<1>4. Grows(Reported(a), Reported(b))
  BY <1>2, <1>3 DEF Grows, StreamOK
<1>5. InTime(b, at, now)
  BY DEF InTime
<1>6. QED BY <1>4, <1>5 DEF StepOK, SameTags

\* A PES packet with a PTS closes the interval in progress and opens the next one.
LEMMA ClosesIsStep ==
  ASSUME NEW a, NEW b, StreamOK(a), StreamOK(b), NEW at, NEW now \in Nat, NEW iv,
         at.ticks \in Int, IsVideoOrAudio(b.type), SameTags(a, b), a.open,
         a.last <= at.ticks, iv.valid = TRUE, iv.ticks = at.ticks - a.openStart,
         b.exceeded = Record(a, iv).exceeded, b.max = Record(a, iv).max,
         b.openSegment = at.segment, b.openStart = at.ticks, b.openFrom = now, b.last = at.ticks
  PROVE  StepOK(a, b, at, now)
<1>1. ~Late(b)
  <2>1. b.last - b.openStart = 0
    OBVIOUS
  <2>2. QED BY <2>1, CheckAssumption DEF Late
<1>2. Reported(b) = b
  BY <1>1 DEF Reported
<1>3. Recorded(a, iv, Record(a, iv))
  BY RecordIs
<1>4. Grows(Reported(a), b)
  <2>1. CASE ~Late(a)
    <3>1. iv.ticks \in Int
      BY DEF StreamOK
    <3>2. Grows(a, Record(a, iv))
      BY <3>1, RecordGrows
    <3>3. QED BY <2>1, <3>2 DEF Grows, Reported
  <2>2. CASE Late(a)
    <3>1. Over(iv)
      BY <2>2, CheckAssumption DEF Late, Over, StreamOK
    <3>2. /\ Pending(a).ticks = a.last - a.openStart /\ Over(Pending(a))
          /\ Recorded(a, Pending(a), Reported(a))
      BY <2>2, PendingIs, ReportedIs
    <3>3. Pending(a).ticks \in Int /\ iv.ticks \in Int /\ Pending(a).ticks <= iv.ticks
      BY <3>2 DEF StreamOK
    <3>4. b.exceeded = a.exceeded + 1 /\ Reported(a).exceeded = a.exceeded + 1
      BY <1>3, <3>1, <3>2 DEF Recorded
    <3>5. b.max = IF ~a.max.valid \/ iv.ticks > a.max.ticks THEN iv ELSE a.max
      BY <1>3, <3>1 DEF Recorded
    <3>6. Reported(a).max = IF ~a.max.valid \/ Pending(a).ticks > a.max.ticks
                              THEN Pending(a) ELSE a.max
      BY <3>2 DEF Recorded
    <3>7. b.max.valid /\ Reported(a).max.ticks <= b.max.ticks
      BY <3>3, <3>5, <3>6 DEF StreamOK
    <3>8. Reported(a).exceeded <= b.exceeded
      BY <3>4 DEF StreamOK
    <3>9. QED BY <3>7, <3>8 DEF Grows
  <2>3. QED BY <2>1, <2>2
<1>5. InTime(b, at, now)
  BY DEF InTime
<1>6. QED BY <1>2, <1>4, <1>5 DEF StepOK, SameTags

\* A PES packet without one extends the interval in progress.
LEMMA ExtendsIsStep ==
  ASSUME NEW a, NEW b, StreamOK(a), StreamOK(b), NEW at, NEW now \in Nat, at.ticks \in Int,
         IsVideoOrAudio(a.type), SameTags(a, b), a.open, a.openSegment = at.segment,
         a.openStart <= a.last, a.last <= at.ticks, a.openFrom < now,
         b.exceeded = a.exceeded, b.max = a.max, b.open = a.open, b.openSegment = a.openSegment,
         b.openStart = a.openStart, b.openFrom = a.openFrom, b.last = at.ticks, b.lastAt = now
  PROVE  StepOK(a, b, at, now)
<1>1. InTime(b, at, now)
  BY DEF InTime, SameTags, StreamOK
<1>2. Grows(Reported(a), Reported(b))
  <2>1. CASE ~Late(a)
    <3>1. Grows(b, Reported(b))
      BY ReportedIs
    <3>2. QED BY <2>1, <3>1 DEF Grows, Reported
  <2>2. CASE Late(a)
    <3>1. Late(b)
      BY <2>2, CheckAssumption DEF Late, StreamOK
    <3>2. /\ Pending(a).ticks = a.last - a.openStart /\ Over(Pending(a))
          /\ Recorded(a, Pending(a), Reported(a))
      BY <2>2, PendingIs, ReportedIs
    <3>3. /\ Pending(b).ticks = b.last - b.openStart /\ Over(Pending(b)) /\ Pending(b).valid
          /\ Recorded(b, Pending(b), Reported(b))
      BY <3>1, PendingIs, ReportedIs
    <3>4. Pending(a).ticks \in Int /\ Pending(b).ticks \in Int /\ Pending(a).ticks <= Pending(b).ticks
      BY <3>2, <3>3 DEF StreamOK
    <3>5. Reported(b).exceeded = a.exceeded + 1 /\ Reported(a).exceeded = a.exceeded + 1
      BY <3>2, <3>3 DEF Recorded
    <3>6. Reported(b).max = IF ~a.max.valid \/ Pending(b).ticks > a.max.ticks
                              THEN Pending(b) ELSE a.max
      BY <3>3 DEF Recorded
    <3>7. Reported(a).max = IF ~a.max.valid \/ Pending(a).ticks > a.max.ticks
                              THEN Pending(a) ELSE a.max
      BY <3>2 DEF Recorded
    <3>8. Reported(b).max.valid /\ Reported(a).max.ticks <= Reported(b).max.ticks
      BY <3>3, <3>4, <3>6, <3>7 DEF StreamOK
    <3>9. Reported(a).exceeded <= Reported(b).exceeded
      BY <3>5 DEF StreamOK
    <3>10. QED BY <3>8, <3>9 DEF Grows
  <2>3. QED BY <2>1, <2>2
<1>3. QED BY <1>1, <1>2 DEF StepOK, SameTags

\* A step from a state with the same intervals.
LEMMA StepFromSame ==
  ASSUME NEW a, NEW s, NEW b, StreamOK(a), StreamOK(s), SameIntervals(a, s), SameTags(a, s),
         NEW t, NEW now, StepOK(s, b, t, now)
  PROVE  StepOK(a, b, t, now)
<1>1. Reported(s).exceeded = Reported(a).exceeded /\ Reported(s).max = Reported(a).max
  BY SameReported
<1>2. QED BY <1>1 DEF StepOK, Grows, SameTags

\* What placing a PES packet does to the fields, by what was in progress.
Opened(s, b, at, pos) ==
  /\ SameTags(s, b) /\ b.exceeded = s.exceeded /\ b.max = s.max
  /\ b.open = TRUE /\ b.openSegment = at.segment /\ b.openStart = at.ticks /\ b.openFrom = pos
  /\ b.last = at.ticks /\ b.lastAt = pos

\* An opened interval has the types of one.
LEMMA OpenedOK ==
  ASSUME NEW s, NEW b, NEW at, NEW pos \in Nat, StreamOK(s), at.ticks \in Int,
         DOMAIN b = StreamFields, Opened(s, b, at, pos)
  PROVE  StreamOK(b)
<1>1. b.applicable \in BOOLEAN
  BY Zenon DEF StreamOK, Opened, SameTags
<1>2. b.exceeded \in Nat /\ b.max.valid \in BOOLEAN /\ b.max.ticks \in Int
  BY Zenon DEF StreamOK, Opened
<1>3. b.open \in BOOLEAN
  BY Zenon DEF Opened
<1>4. b.openStart \in Int /\ b.openFrom \in Int /\ b.last \in Int /\ b.lastAt \in Int
  BY DEF Opened
<1>5. QED BY <1>1, <1>2, <1>3, <1>4 DEF StreamOK

\* PESCheck's Place is such a step when the time of the PID does not go back.
LEMMA PlaceIsStep ==
  ASSUME NEW a, StreamOK(a), IsVideoOrAudio(a.type), NEW hasPTS \in BOOLEAN,
         NEW at, at.ticks \in Int, NEW t, NEW old \in Nat, InTime(a, t, old),
         at.segment = t.segment => t.ticks <= at.ticks
  PROVE  StepOK(a, Place(a, hasPTS, at, old + 1), at, old + 1)
<1> DEFINE now == old + 1
           s == IF a.open /\ a.openSegment # at.segment THEN EndInterval(a) ELSE a
           iv == Interval(s.openHasPTS, at.ticks - s.openStart, s.openFrom, now)
           r == Record(s, iv)
           b == Place(a, hasPTS, at, now)
<1>0. now \in Nat /\ old < now
  OBVIOUS
<1>1. CASE ~s.open
  <2>1. b = [[s EXCEPT !.open = TRUE, !.openHasPTS = hasPTS, !.openSegment = at.segment,
                       !.openStart = at.ticks, !.openFrom = now]
               EXCEPT !.placed = @ + 1, !.last = at.ticks, !.lastAt = now]
    BY <1>1 DEF Place
  <2>2. /\ StreamOK(s) /\ SameTags(a, s)
        /\ s.exceeded = Reported(a).exceeded /\ s.max = Reported(a).max
    <3>1. CASE a.open /\ a.openSegment # at.segment
      BY <3>1, EndIntervalIs
    <3>2. CASE ~(a.open /\ a.openSegment # at.segment)
      <4>1. s = a /\ Reported(a) = a
        BY <1>1, <3>2 DEF Reported, Late
      <4>2. QED BY <4>1 DEF SameTags
    <3>3. QED BY <3>1, <3>2
  <2> HIDE DEF s, b, now
  <2>3. DOMAIN b = StreamFields /\ Opened(s, b, at, now)
    BY <2>1, <2>2 DEF StreamOK, StreamFields, Opened, SameTags
  <2>4. StreamOK(b)
    BY <1>0, <2>2, <2>3, OpenedOK
  <2>5. SameTags(a, b) /\ IsVideoOrAudio(b.type)
    BY <2>2, <2>3 DEF SameTags, Opened
  <2>6. StepOK(a, b, at, now)
    BY <1>0, <2>2, <2>3, <2>4, <2>5, OpensIsStep DEF Opened
  <2>7. QED BY <2>6 DEF b, now
<1>2. CASE s.open
  <2>1. s = a /\ a.open /\ a.openSegment = at.segment
    <3>1. CASE a.open /\ a.openSegment # at.segment
      <4>1. EndInterval(a).open = FALSE
        BY EndIntervalIs
      <4>2. QED BY <1>2, <3>1, <4>1
    <3>2. CASE ~(a.open /\ a.openSegment # at.segment)
      BY <1>2, <3>2
    <3>3. QED BY <3>1, <3>2
  <2>2. a.last <= at.ticks /\ a.openStart <= a.last /\ a.openFrom < now
    BY <1>0, <2>1 DEF InTime, StreamOK
  <2>3. CASE hasPTS
    <3>1. b = [[r EXCEPT !.openHasPTS = TRUE, !.openStart = at.ticks, !.openFrom = now]
                 EXCEPT !.placed = @ + 1, !.last = at.ticks, !.lastAt = now]
      BY <1>2, <2>3 DEF Place
    <3>2. iv.valid = TRUE /\ iv.ticks = at.ticks - a.openStart /\ iv.ticks \in Int
      BY <2>1 DEF Interval, StreamOK
    <3>3. r = Record(a, iv)
      BY <2>1
    <3> HIDE DEF s, b, now, iv, r
    <3>4. StreamOK(r) /\ SameTags(a, r) /\ SameProgress(a, r)
      BY <3>2, <3>3, RecordGrows, RecordIs DEF Recorded
    <3>5. DOMAIN b = StreamFields /\ Opened(r, b, at, now)
      <4>1. DOMAIN r = StreamFields
        BY <3>4 DEF StreamOK
      <4>2. r.open = TRUE /\ r.openSegment = at.segment
        BY <2>1, <3>4 DEF SameProgress, StreamOK
      <4>3. QED BY <3>1, <4>1, <4>2 DEF StreamFields, Opened, SameTags
    <3>6. StreamOK(b)
      BY <1>0, <3>4, <3>5, OpenedOK
    <3>7. SameTags(a, b) /\ IsVideoOrAudio(b.type)
      BY <3>4, <3>5 DEF SameTags, Opened
    <3>8. StepOK(a, b, at, now)
      BY <1>0, <2>1, <2>2, <3>2, <3>3, <3>5, <3>6, <3>7, ClosesIsStep DEF Opened
    <3>9. QED BY <3>8 DEF b, now
  <2>4. CASE ~hasPTS
    <3>1. b = [a EXCEPT !.placed = @ + 1, !.last = at.ticks, !.lastAt = now]
      BY <1>2, <2>1, <2>4 DEF Place
    <3> HIDE DEF s, b, now
    <3>2. /\ DOMAIN b = StreamFields /\ SameTags(a, b)
          /\ b.exceeded = a.exceeded /\ b.max = a.max /\ b.open = a.open
          /\ b.openSegment = a.openSegment /\ b.openStart = a.openStart /\ b.openFrom = a.openFrom
          /\ b.last = at.ticks /\ b.lastAt = now
      BY <3>1 DEF StreamOK, StreamFields, SameTags
    <3>3. StreamOK(b)
      BY <1>0, <3>2 DEF StreamOK, SameTags
    <3>4. StepOK(a, b, at, now)
      BY <1>0, <2>1, <2>2, <3>2, <3>3, ExtendsIsStep
    <3>5. QED BY <3>4 DEF b, now
  <2>5. QED BY <2>3, <2>4
<1>3. QED BY <1>1, <1>2

\* The interval in progress is still one as observations go on.
LEMMA InTimeLater ==
  ASSUME NEW a, NEW s, StreamOK(a), SameIntervals(a, s), SameTags(a, s), NEW t, NEW old \in Nat,
         InTime(a, t, old)
  PROVE  InTime(s, t, old + 1)
BY DEF InTime, SameIntervals, SameProgress, SameTags, StreamOK

\* Counting a packet leaves the intervals alone.
LEMMA CountingIs ==
  ASSUME NEW a, StreamOK(a), NEW pes, NEW pts, NEW unchecked, NEW untrusted, NEW problems
  PROVE  /\ LET s == [a EXCEPT !.pes = pes, !.pts = pts] IN
              StreamOK(s) /\ SameIntervals(a, s) /\ SameTags(a, s)
         /\ LET s == [a EXCEPT !.unchecked = unchecked, !.untrusted = untrusted] IN
              StreamOK(s) /\ SameIntervals(a, s) /\ SameTags(a, s)
         /\ LET s == [a EXCEPT !.problems = problems] IN
              StreamOK(s) /\ SameIntervals(a, s) /\ SameTags(a, s)
<1>1. ASSUME NEW s, s = [a EXCEPT !.pes = pes, !.pts = pts]
      PROVE  StreamOK(s) /\ SameIntervals(a, s) /\ SameTags(a, s)
  <2>1. /\ DOMAIN s = StreamFields /\ SameIntervals(a, s) /\ SameTags(a, s)
    BY <1>1 DEF StreamOK, StreamFields, SameIntervals, SameProgress, SameTags
  <2>2. QED BY <2>1, SameIsOK
<1>2. ASSUME NEW s, s = [a EXCEPT !.unchecked = unchecked, !.untrusted = untrusted]
      PROVE  StreamOK(s) /\ SameIntervals(a, s) /\ SameTags(a, s)
  <2>1. /\ DOMAIN s = StreamFields /\ SameIntervals(a, s) /\ SameTags(a, s)
    BY <1>2 DEF StreamOK, StreamFields, SameIntervals, SameProgress, SameTags
  <2>2. QED BY <2>1, SameIsOK
<1>3. ASSUME NEW s, s = [a EXCEPT !.problems = problems]
      PROVE  StreamOK(s) /\ SameIntervals(a, s) /\ SameTags(a, s)
  <2>1. /\ DOMAIN s = StreamFields /\ SameIntervals(a, s) /\ SameTags(a, s)
    BY <1>3 DEF StreamOK, StreamFields, SameIntervals, SameProgress, SameTags
  <2>2. QED BY <2>1, SameIsOK
<1>4. QED BY <1>1, <1>2, <1>3

\* A PES packet with a valid header.
LEMMA GoodHeaderIsStep ==
  ASSUME NEW a, StreamOK(a), NEW hasPTS \in BOOLEAN, NEW at, at.valid => at.ticks \in Int,
         NEW t, NEW old \in Nat, InTime(a, t, old),
         at.valid /\ at.segment = t.segment => t.ticks <= at.ticks
  PROVE  StepOK(a, GoodHeader(a, hasPTS, at, old + 1), IF at.valid THEN at ELSE t, old + 1)
<1> DEFINE s == [a EXCEPT !.pes = @ + 1, !.pts = IF hasPTS THEN @ + 1 ELSE @]
           b == GoodHeader(a, hasPTS, at, old + 1)
           u == IF at.valid THEN at ELSE t
<1>1. StreamOK(s) /\ SameIntervals(a, s) /\ SameTags(a, s)
  BY CountingIs
<1>2. b = IF ~IsVideoOrAudio(s.type) THEN s
          ELSE IF at.valid THEN Place(s, hasPTS, at, old + 1)
          ELSE IF hasPTS THEN EndInterval(s)
          ELSE s
  BY DEF GoodHeader
<1> HIDE DEF s
<1>3. CASE ~IsVideoOrAudio(s.type)
  <2>1. ~s.open
    BY <1>1, <1>3 DEF InTime, SameTags, SameIntervals, SameProgress
  <2>2. InTime(s, u, old + 1)
    BY <2>1 DEF InTime
  <2>3. StepOK(a, s, u, old + 1)
    BY <1>1, <2>2, IdleIsStep DEF SameTags
  <2>4. QED BY <1>2, <1>3, <2>3
<1>4. CASE IsVideoOrAudio(s.type) /\ at.valid
  <2>1. InTime(s, t, old)
    BY <1>1 DEF InTime, SameTags, SameIntervals, SameProgress
  <2>2. StepOK(s, Place(s, hasPTS, at, old + 1), at, old + 1)
    BY <1>1, <1>4, <2>1, PlaceIsStep
  <2>3. StepOK(a, Place(s, hasPTS, at, old + 1), at, old + 1)
    BY <1>1, <2>2, StepFromSame
  <2>4. QED BY <1>2, <1>4, <2>3
<1>5. CASE IsVideoOrAudio(s.type) /\ ~at.valid /\ hasPTS
  <2>1. StepOK(a, EndInterval(s), u, old + 1)
    BY <1>1, EndIsStep DEF SameTags
  <2>2. QED BY <1>2, <1>5, <2>1
<1>6. CASE IsVideoOrAudio(s.type) /\ ~at.valid /\ ~hasPTS
  <2>1. InTime(s, t, old + 1)
    BY <1>1, InTimeLater
  <2>2. StepOK(a, s, t, old + 1)
    BY <1>1, <2>1, IdleIsStep DEF SameTags
  <2>3. QED BY <1>2, <1>6, <2>2
<1>7. QED BY <1>3, <1>4, <1>5, <1>6

\* A PES packet whose header fails a check.
LEMMA BadHeaderIsStep ==
  ASSUME NEW a, StreamOK(a), NEW problem, NEW pos, NEW t, NEW now
  PROVE  StepOK(a, BadHeader(a, problem, pos), t, now)
<1> DEFINE s == [a EXCEPT !.problems[problem] =
                   [count |-> @.count + 1, first |-> IF @.count = 0 THEN pos ELSE @.first]]
<1>1. StreamOK(s) /\ SameIntervals(a, s) /\ SameTags(a, s)
  BY CountingIs
<1>2. BadHeader(a, problem, pos) = EndInterval(s)
  BY DEF BadHeader
<1> HIDE DEF s
<1>3. QED BY <1>1, <1>2, EndIsStep DEF SameTags

\* A break.
LEMMA BrokenIsStep ==
  ASSUME NEW a, StreamOK(a), NEW cause, NEW t, NEW now
  PROVE  StepOK(a, Broken(a, cause), t, now)
<1> DEFINE s == [a EXCEPT
                   !.unchecked = IF cause = "incomplete_header" THEN @ + 1 ELSE @,
                   !.untrusted = IF cause = "untrusted_payload" THEN @ + 1 ELSE @]
<1>1. StreamOK(s) /\ SameIntervals(a, s) /\ SameTags(a, s)
  BY CountingIs
<1>2. Broken(a, cause) = EndInterval(s)
  BY DEF Broken
<1> HIDE DEF s
<1>3. QED BY <1>1, <1>2, EndIsStep DEF SameTags

\* A change of the tags of a PID, which takes no applicable one back.
Retagged(a, b) ==
  /\ DOMAIN b = StreamFields /\ b.applicable \in BOOLEAN /\ (a.applicable => b.applicable)
  /\ SameIntervals(a, b)

\* It keeps the types of the intervals.
LEMMA RetaggedOK ==
  ASSUME NEW a, NEW b, StreamOK(a), Retagged(a, b)
  PROVE  StreamOK(b)
BY DEF StreamOK, SameIntervals, SameProgress, Retagged

\* A change of the tags after the interval has ended.
LEMMA ClosedIsStep ==
  ASSUME NEW a, NEW s, NEW b, NEW t, NEW now, StepOK(a, s, t, now), s.open = FALSE, Retagged(s, b)
  PROVE  StepOK(a, b, t, now)
<1>1. StreamOK(s) /\ StreamOK(b)
  BY RetaggedOK DEF StepOK
<1>2. Reported(b).exceeded = Reported(s).exceeded /\ Reported(b).max = Reported(s).max
  BY <1>1, SameReported DEF Retagged
<1>3. InTime(b, t, now)
  BY DEF InTime, Retagged, SameIntervals, SameProgress
<1>4. QED BY <1>1, <1>2, <1>3 DEF StepOK, Grows, Retagged

\* A PID that leaves the layout.
LEMMA RemovedIsStep ==
  ASSUME NEW a, StreamOK(a), NEW t, NEW old \in Nat, InTime(a, t, old)
  PROVE  StepOK(a, Removed(a), t, old + 1)
<1> DEFINE e == EndInterval(a)
           b == Removed(a)
<1>0. SameIntervals(a, a) /\ SameTags(a, a)
  BY DEF SameIntervals, SameProgress, SameTags
<1>1. CASE ~a.active
  <2>1. InTime(a, t, old + 1)
    BY <1>0, InTimeLater
  <2>2. StepOK(a, a, t, old + 1)
    BY <1>0, <2>1, IdleIsStep
  <2>3. QED BY <1>1, <2>2 DEF Removed
<1>2. CASE a.active
  <2>1. StepOK(a, e, t, old + 1)
    BY <1>0, EndIsStep
  <2>2. b = [e EXCEPT !.active = FALSE]
    BY <1>2 DEF Removed
  <2>3. e.open = FALSE
    BY EndIntervalIs
  <2> HIDE DEF e, b
  <2>4. Retagged(e, b)
    BY <2>1, <2>2 DEF StepOK, StreamOK, StreamFields, Retagged, SameIntervals, SameProgress
  <2>5. StepOK(a, b, t, old + 1)
    BY <2>1, <2>3, <2>4, ClosedIsStep
  <2>6. QED BY <2>5 DEF b
<1>3. QED BY <1>1, <1>2

\* A PID of a new layout that was known.
LEMMA AnnouncedIsStep ==
  ASSUME NEW p \in DOMAIN streams, NEW type, StreamOK(streams[p]), NEW t, NEW old \in Nat,
         InTime(streams[p], t, old)
  PROVE  StepOK(streams[p], Announced(p, type), t, old + 1)
<1> DEFINE a == streams[p]
           e == EndInterval(a)
           s == IF ~a.active \/ a.type # type THEN [e EXCEPT !.type = type] ELSE a
           b == Announced(p, type)
<1>0. SameIntervals(a, a) /\ SameTags(a, a)
  BY DEF SameIntervals, SameProgress, SameTags
<1>1. b = [s EXCEPT !.active = TRUE, !.applicable = @ \/ IsVideoOrAudio(type)]
  BY DEF Announced
<1>2. CASE ~a.active \/ a.type # type
  <2>1. StepOK(a, e, t, old + 1)
    BY <1>0, EndIsStep
  <2>2. e.open = FALSE
    BY EndIntervalIs
  <2>3. s = [e EXCEPT !.type = type]
    BY <1>2
  <2> HIDE DEF a, e, s, b
  <2>4. Retagged(e, s)
    BY <2>1, <2>3 DEF StepOK, StreamOK, StreamFields, Retagged, SameIntervals, SameProgress
  <2>5. StepOK(a, s, t, old + 1) /\ s.open = FALSE
    BY <2>1, <2>2, <2>4, ClosedIsStep DEF Retagged, SameIntervals, SameProgress
  <2>6. Retagged(s, b)
    BY <1>1, <2>5 DEF StepOK, StreamOK, StreamFields, Retagged, SameIntervals, SameProgress
  <2>7. StepOK(a, b, t, old + 1)
    BY <2>5, <2>6, ClosedIsStep
  <2>8. QED BY <2>7 DEF a, b
<1>3. CASE ~(~a.active \/ a.type # type)
  <2>1. s = a
    BY <1>3
  <2> HIDE DEF a, s, b
  <2>2. Retagged(a, b) /\ b.type = a.type
    BY <1>1, <2>1 DEF a, StreamOK, StreamFields, Retagged, SameIntervals, SameProgress
  <2>3. StreamOK(a)
    BY DEF a
  <2>4. StreamOK(b)
    BY <2>2, <2>3, RetaggedOK
  <2>5. InTime(b, t, old + 1)
    BY <2>2, <2>3 DEF a, InTime, Retagged, SameIntervals, SameProgress, StreamOK
  <2>6. StepOK(a, b, t, old + 1)
    BY <2>2, <2>3, <2>4, <2>5, IdleIsStep DEF Retagged
  <2>7. QED BY <2>6 DEF a, b
<1>4. QED BY <1>2, <1>3

\* A PID of a new layout that was not known.
LEMMA NewStreamOK ==
  ASSUME NEW p, p \notin DOMAIN streams, NEW type, NEW t, NEW now
  PROVE  StreamOK(Announced(p, type)) /\ InTime(Announced(p, type), t, now)
<1> DEFINE b == Announced(p, type)
           s == NewStream(type)
<1>1. b = [s EXCEPT !.active = TRUE, !.applicable = @ \/ IsVideoOrAudio(type)]
  BY DEF Announced
<1>2. /\ DOMAIN s = StreamFields /\ s.applicable = FALSE /\ s.exceeded = 0 /\ s.max = NoInterval
      /\ s.open = FALSE /\ s.openStart = 0 /\ s.openFrom = 0 /\ s.last = 0 /\ s.lastAt = 0
  BY DEF NewStream, StreamFields
<1> HIDE DEF b, s
<1>3. /\ DOMAIN b = StreamFields /\ b.applicable \in BOOLEAN /\ b.exceeded = 0
      /\ b.max = NoInterval /\ b.open = FALSE /\ b.openStart = 0 /\ b.openFrom = 0
      /\ b.last = 0 /\ b.lastAt = 0
  BY <1>1, <1>2 DEF StreamFields
<1>4. StreamOK(b)
  <2>1. NoInterval.valid = FALSE /\ NoInterval.ticks = 0
    BY DEF NoInterval
  <2>2. b.max.valid \in BOOLEAN /\ b.max.ticks = 0 /\ b.open \in BOOLEAN
    BY <1>3, <2>1, Zenon
  <2>3. QED BY <1>3, <2>2 DEF StreamOK
<1>5. InTime(b, t, now)
  BY <1>3 DEF InTime
<1>6. QED BY <1>4, <1>5 DEF b

-------------------------------------------------------------------------------
(* The invariant and the theorem.                                            *)

\* Every PID known has a time, and its interval in progress is one of that time.
CheckInv ==
  /\ DOMAIN streams \subseteq Pids
  /\ offset \in Nat
  /\ time \in [Pids -> [segment : Int, ticks : Int]]
  /\ \A p \in DOMAIN streams : StreamOK(streams[p]) /\ InTime(streams[p], time[p], offset)

\* A step of the check keeps every PID it knows, and takes nothing back of any.
CheckStep ==
  /\ DOMAIN streams \subseteq DOMAIN streams'
  /\ DOMAIN streams' \subseteq Pids
  /\ time' \in [Pids -> [segment : Int, ticks : Int]]
  /\ \A p \in DOMAIN streams : StepOK(streams[p], streams'[p], time'[p], offset')
  /\ \A p \in DOMAIN streams' \ DOMAIN streams :
       StreamOK(streams'[p]) /\ InTime(streams'[p], time'[p], offset')

\* A step of one PID to state b leaves the others as they were.
LEMMA OnePidSteps ==
  ASSUME CheckInv, offset' = offset + 1, NEW p \in DOMAIN streams, NEW b,
         streams' = [streams EXCEPT ![p] = b],
         time' \in [Pids -> [segment : Int, ticks : Int]],
         \A q \in Pids : q # p => time'[q] = time[q],
         StepOK(streams[p], b, time'[p], offset')
  PROVE  CheckStep
<1>1. DOMAIN streams' = DOMAIN streams
  OBVIOUS
<1>2. ASSUME NEW q \in DOMAIN streams
      PROVE  StepOK(streams[q], streams'[q], time'[q], offset')
  <2>1. CASE q = p
    BY <2>1
  <2>2. CASE q # p
    <3>1. streams'[q] = streams[q] /\ time'[q] = time[q] /\ offset \in Nat
      BY <2>2 DEF CheckInv
    <3>2. StreamOK(streams[q]) /\ InTime(streams[q], time[q], offset)
      BY DEF CheckInv
    <3>3. SameIntervals(streams[q], streams[q]) /\ SameTags(streams[q], streams[q])
      BY DEF SameIntervals, SameProgress, SameTags
    <3>4. InTime(streams[q], time[q], offset + 1)
      BY <3>1, <3>2, <3>3, InTimeLater
    <3>5. StepOK(streams[q], streams[q], time[q], offset + 1)
      BY <3>2, <3>3, <3>4, IdleIsStep
    <3>6. QED BY <3>1, <3>5
  <2>3. QED BY <2>1, <2>2
<1>3. QED BY <1>1, <1>2 DEF CheckStep, CheckInv

\* Every step of the check is such a step.
LEMMA NextIsStep ==
  ASSUME CheckInv, CheckNext
  PROVE  CheckStep
<1>0. offset' = offset + 1 /\ offset \in Nat
  BY DEF CheckNext, CheckInv
<1>1. ASSUME NEW types \in Layouts, ObserveProgramLayout(types)
      PROVE  CheckStep
  <2> DEFINE current == {p \in Pids : types[p] # "none"}
  <2>1. streams' = [p \in DOMAIN streams \cup current |->
                      IF p \in current THEN Announced(p, types[p]) ELSE Removed(streams[p])]
    BY <1>1 DEF ObserveProgramLayout
  <2>2. time' = time
    BY <1>1 DEF ObserveProgramLayout
  <2>3. DOMAIN streams' = DOMAIN streams \cup current
    BY <2>1
  <2>4. ASSUME NEW p \in DOMAIN streams
        PROVE  StepOK(streams[p], streams'[p], time'[p], offset')
    <3>1. StreamOK(streams[p]) /\ InTime(streams[p], time[p], offset)
      BY DEF CheckInv
    <3>2. CASE p \in current
      <4>1. streams'[p] = Announced(p, types[p])
        BY <2>1, <3>2
      <4>2. StepOK(streams[p], Announced(p, types[p]), time[p], offset + 1)
        BY <1>0, <3>1, AnnouncedIsStep
      <4>3. QED BY <1>0, <2>2, <4>1, <4>2
    <3>3. CASE p \notin current
      <4>1. streams'[p] = Removed(streams[p])
        BY <2>1, <3>3
      <4>2. StepOK(streams[p], Removed(streams[p]), time[p], offset + 1)
        BY <1>0, <3>1, RemovedIsStep
      <4>3. QED BY <1>0, <2>2, <4>1, <4>2
    <3>4. QED BY <3>2, <3>3
  <2>5. ASSUME NEW p \in DOMAIN streams' \ DOMAIN streams
        PROVE  StreamOK(streams'[p]) /\ InTime(streams'[p], time'[p], offset')
    <3>1. p \in current /\ p \notin DOMAIN streams
      BY <2>3
    <3>2. streams'[p] = Announced(p, types[p])
      BY <2>1, <3>1
    <3>3. QED BY <3>1, <3>2, NewStreamOK
  <2>6. current \subseteq Pids
    OBVIOUS
  <2> HIDE DEF current
  <2>7. QED BY <2>2, <2>3, <2>4, <2>5, <2>6 DEF CheckStep, CheckInv
<1>2. ASSUME NEW p \in {q \in DOMAIN streams : streams[q].active},
             NEW hasPTS \in BOOLEAN, NEW at \in NextTimes(p), ObserveGoodHeader(p, hasPTS, at)
      PROVE  CheckStep
  <2> DEFINE a == streams[p]
             u == IF at.valid THEN at ELSE time[p]
  <2>1. /\ p \in DOMAIN streams /\ p \in Pids /\ StreamOK(a) /\ InTime(a, time[p], offset)
        /\ time[p] \in [segment : Int, ticks : Int]
    BY DEF CheckInv
  <2>2. /\ at.valid => at.segment \in Int /\ at.ticks \in Int
        /\ at.valid /\ at.segment = time[p].segment => time[p].ticks <= at.ticks
    <3>1. CASE at = NoTime
      BY <3>1 DEF NoTime
    <3>2. CASE at = [valid |-> TRUE, segment |-> time[p].segment + 1, ticks |-> 0]
      BY <2>1, <3>2
    <3>3. ASSUME NEW g \in Gaps,
                 at = [valid |-> TRUE, segment |-> time[p].segment, ticks |-> time[p].ticks + g]
          PROVE  /\ at.valid => at.segment \in Int /\ at.ticks \in Int
                 /\ at.valid /\ at.segment = time[p].segment => time[p].ticks <= at.ticks
      <4>1. g \in Nat
        BY CheckAssumption
      <4>2. QED BY <2>1, <3>3, <4>1
    <3>4. QED BY <3>1, <3>2, <3>3 DEF NextTimes
  <2>3. StepOK(a, GoodHeader(a, hasPTS, at, offset + 1), u, offset + 1)
    BY <1>0, <2>1, <2>2, GoodHeaderIsStep
  <2>4. /\ streams' = [streams EXCEPT ![p] = GoodHeader(a, hasPTS, at, offset + 1)]
        /\ time' = IF at.valid THEN [time EXCEPT ![p] = [segment |-> at.segment, ticks |-> at.ticks]]
                               ELSE time
    BY <1>2 DEF ObserveGoodHeader
  <2>5. /\ time' \in [Pids -> [segment : Int, ticks : Int]]
        /\ \A q \in Pids : q # p => time'[q] = time[q]
        /\ time'[p].segment = u.segment /\ time'[p].ticks = u.ticks
    BY <2>1, <2>2, <2>4 DEF CheckInv
  <2> HIDE DEF a, u
  <2>6. StepOK(a, GoodHeader(a, hasPTS, at, offset + 1), time'[p], offset')
    BY <1>0, <2>3, <2>5 DEF StepOK, InTime
  <2>7. QED BY <1>0, <2>1, <2>4, <2>5, <2>6, OnePidSteps DEF a
<1>3. ASSUME NEW p \in {q \in DOMAIN streams : streams[q].active},
             NEW problem \in HeaderProblems, ObserveBadHeader(p, problem)
      PROVE  CheckStep
  <2>1. p \in DOMAIN streams /\ StreamOK(streams[p])
    BY DEF CheckInv
  <2>2. StepOK(streams[p], BadHeader(streams[p], problem, offset + 1), time'[p], offset')
    BY <2>1, BadHeaderIsStep
  <2>3. /\ streams' = [streams EXCEPT ![p] = BadHeader(streams[p], problem, offset + 1)]
        /\ time' = time
    BY <1>3 DEF ObserveBadHeader
  <2>4. time' \in [Pids -> [segment : Int, ticks : Int]] /\ \A q \in Pids : q # p => time'[q] = time[q]
    BY <2>3 DEF CheckInv
  <2>5. QED BY <1>0, <2>1, <2>2, <2>3, <2>4, OnePidSteps
<1>4. ASSUME NEW p \in {q \in DOMAIN streams : streams[q].active},
             NEW cause \in BreakCauses, ObserveBreak(p, cause)
      PROVE  CheckStep
  <2>1. p \in DOMAIN streams /\ StreamOK(streams[p])
    BY DEF CheckInv
  <2>2. StepOK(streams[p], Broken(streams[p], cause), time'[p], offset')
    BY <2>1, BrokenIsStep
  <2>3. /\ streams' = [streams EXCEPT ![p] = Broken(streams[p], cause)]
        /\ time' = time
    BY <1>4 DEF ObserveBreak
  <2>4. time' \in [Pids -> [segment : Int, ticks : Int]] /\ \A q \in Pids : q # p => time'[q] = time[q]
    BY <2>3 DEF CheckInv
  <2>5. QED BY <1>0, <2>1, <2>2, <2>3, <2>4, OnePidSteps
<1>5. QED BY <1>1, <1>2, <1>3, <1>4 DEF CheckNext

\* No PID is known to begin with.
LEMMA InitEstablishesCheckInv == CheckInit => CheckInv
BY DEF CheckInit, CheckInv

\* Every step keeps the invariant.
LEMMA NextKeepsCheckInv == CheckInv /\ [CheckNext]_checkVars => CheckInv'
<1> SUFFICES ASSUME CheckInv, [CheckNext]_checkVars PROVE CheckInv'
  OBVIOUS
<1>1. CASE CheckNext
  <2>1. CheckStep
    BY <1>1, NextIsStep
  <2>2. offset' \in Nat
    BY <1>1 DEF CheckNext, CheckInv
  <2>3. \A p \in DOMAIN streams' : StreamOK(streams'[p]) /\ InTime(streams'[p], time'[p], offset')
    BY <2>1 DEF CheckStep, StepOK
  <2>4. QED BY <2>1, <2>2, <2>3 DEF CheckStep, CheckInv
<1>2. CASE UNCHANGED checkVars
  BY <1>2 DEF CheckInv, checkVars
<1>3. QED BY <1>1, <1>2

\* The invariant holds throughout: the intervals in progress are those of the last times.
THEOREM CheckInvHolds == CheckSpec => []CheckInv
<1>1. CheckInit => CheckInv
  BY InitEstablishesCheckInv
<1>2. CheckInv /\ [CheckNext]_checkVars => CheckInv'
  BY NextKeepsCheckInv
<1>3. QED BY <1>1, <1>2, PTL DEF CheckSpec

\* The result of a PID is read from what is reported of it.
LEMMA ResultIs ==
  ASSUME NEW st, StreamOK(st)
  PROVE  /\ RepetitionResult(st).exceeded = Reported(st).exceeded
         /\ RepetitionResult(st).max = Reported(st).max
         /\ RepetitionResult(st).status = "ng" <=> st.applicable /\ Reported(st).exceeded > 0
<1> DEFINE ended == Pending(st).valid /\ Over(Pending(st))
           r == IF ended THEN Record(st, Pending(st)) ELSE st
<1>1. r = Reported(st)
  BY PendingIs DEF Reported
<1>2. RepetitionResult(st).exceeded = r.exceeded /\ RepetitionResult(st).max = r.max
  BY DEF RepetitionResult
<1>3. RepetitionResult(st).status =
        IF ~st.applicable THEN "skipped" ELSE IF r.exceeded > 0 THEN "ng"
        ELSE IF st.intervals > 0 THEN "ok" ELSE "insufficient_data"
  BY DEF RepetitionResult
<1> HIDE DEF r
<1>4. QED BY <1>1, <1>2, <1>3

\* Nothing that was reported of a PID is taken back.
NothingTakenBack ==
  \A p \in DOMAIN streams :
    LET before == RepetitionResult(streams[p])
        after  == RepetitionResult(streams'[p])
    IN /\ before.status = "ng" => after.status = "ng"
       /\ before.exceeded <= after.exceeded
       /\ before.max.valid => after.max.valid /\ before.max.ticks <= after.max.ticks

\* A step that takes nothing back of the intervals takes nothing back of the results.
LEMMA StepTakesNothingBack ==
  ASSUME NEW a, NEW b, NEW t, NEW now, StreamOK(a), StepOK(a, b, t, now)
  PROVE  LET before == RepetitionResult(a)
             after  == RepetitionResult(b)
         IN /\ before.status = "ng" => after.status = "ng"
            /\ before.exceeded <= after.exceeded
            /\ before.max.valid => after.max.valid /\ before.max.ticks <= after.max.ticks
<1>1. StreamOK(b) /\ StreamOK(Reported(a)) /\ StreamOK(Reported(b))
  BY ReportedIs DEF StepOK
<1>2. Grows(Reported(a), Reported(b)) /\ (a.applicable => b.applicable)
  BY DEF StepOK
<1>3. RepetitionResult(a).status = "ng" => RepetitionResult(b).status = "ng"
  BY <1>1, <1>2, ResultIs DEF Grows, StreamOK
<1>4. RepetitionResult(a).exceeded <= RepetitionResult(b).exceeded
  BY <1>1, <1>2, ResultIs DEF Grows
<1>5. RepetitionResult(a).max.valid =>
        /\ RepetitionResult(b).max.valid
        /\ RepetitionResult(a).max.ticks <= RepetitionResult(b).max.ticks
  BY <1>1, <1>2, ResultIs DEF Grows
<1>6. QED BY <1>3, <1>4, <1>5

\* Once a PID exceeds the limit it does so for the rest of the analysis, and what is
\* reported of its intervals only grows, whatever is observed next.
THEOREM ResultsNeverTakenBack == CheckSpec => NgIsFinal
<1>1. CheckInv /\ [CheckNext]_checkVars => [NothingTakenBack]_checkVars
  <2> SUFFICES ASSUME CheckInv, CheckNext PROVE NothingTakenBack
    BY DEF NothingTakenBack
  <2>1. CheckStep
    BY NextIsStep
  <2>2. ASSUME NEW p \in DOMAIN streams
        PROVE  LET before == RepetitionResult(streams[p])
                   after  == RepetitionResult(streams'[p])
               IN /\ before.status = "ng" => after.status = "ng"
                  /\ before.exceeded <= after.exceeded
                  /\ before.max.valid => after.max.valid /\ before.max.ticks <= after.max.ticks
    <3>1. StreamOK(streams[p]) /\ StepOK(streams[p], streams'[p], time'[p], offset')
      BY <2>1 DEF CheckStep, CheckInv
    <3>2. QED BY <3>1, StepTakesNothingBack
  <2>3. QED BY <2>2 DEF NothingTakenBack
<1>2. [][NothingTakenBack]_checkVars <=> NgIsFinal
  BY DEF NothingTakenBack, NgIsFinal
<1>3. QED BY <1>1, <1>2, CheckInvHolds, PTL DEF CheckSpec

-------------------------------------------------------------------------------
(* The history of a PID, one observation after another.                      *)

EntryKinds == {"pes", "layout"} \cup HeaderProblems \cup BreakCauses

HistoryEntry ==
  [kind : EntryKinds, offset : Nat, at : [valid : BOOLEAN, segment : Int, ticks : Int],
   pts : BOOLEAN, applies : BOOLEAN]

IsPoint(e) == e.kind = "pes" /\ e.applies /\ e.at.valid

IsCut(e) == e.kind # "pes" \/ (e.applies /\ e.pts /\ ~e.at.valid)

\* h2 is h with an observation more, the n-th.
Longer(h, h2, n) ==
  /\ n \in Nat \ {0} /\ DOMAIN h = 1 .. n - 1 /\ DOMAIN h2 = 1 .. n
  /\ \A k \in 1 .. n - 1 : h2[k] = h[k]

\* The observations of a PID come in order, at times that do not go back.
HistoryOK(h, t, now) ==
  /\ h \in Seq(HistoryEntry)
  /\ \A k \in DOMAIN h : h[k].offset <= now
  /\ \A k, l \in DOMAIN h : k < l => h[k].offset < h[l].offset
  /\ \A k \in Points(h) : /\ h[k].at.segment <= t.segment
                          /\ h[k].at.segment = t.segment => h[k].at.ticks <= t.ticks
  /\ \A k, l \in Points(h) :
       k < l => /\ h[k].at.segment <= h[l].at.segment
                /\ h[k].at.segment = h[l].at.segment => h[k].at.ticks <= h[l].at.ticks

\* The first of an interval, and the last one before a cut.
Leads(h, i) == h[i].pts \/ \A k \in Points(h) : ~Follows(h, k, i)

Ends(h, j) == \A k \in Points(h) : ~Follows(h, j, k)

IsMeasured(h, i, j) == Follows(h, i, j) /\ h[i].pts /\ h[j].pts /\ NoPTSBetween(h, i, j)

IsBound(h, i, j) ==
  /\ Follows(h, i, j) /\ NoPTSBetween(h, i, j) /\ Leads(h, i)
  /\ IF h[j].pts THEN ~h[i].pts ELSE Ends(h, j)

Known(h) == MeasuredIntervals(h) \cup LowerBounds(h)

\* Appending makes a history longer.
LEMMA AppendedIsLonger ==
  ASSUME NEW S, NEW h \in Seq(S), NEW e \in S
  PROVE  /\ Longer(h, Append(h, e), Len(h) + 1) /\ Append(h, e)[Len(h) + 1] = e
         /\ Append(h, e) \in Seq(S)
BY DEF Longer

\* What is known of an observation.
LEMMA EntriesAre ==
  ASSUME NEW h, NEW t, NEW now, HistoryOK(h, t, now)
  PROVE  \A k \in DOMAIN h :
           /\ k \in Nat /\ h[k].offset \in Nat /\ h[k].pts \in BOOLEAN
           /\ h[k].at.segment \in Int /\ h[k].at.ticks \in Int
<1> TAKE k \in DOMAIN h
<1>1. h \in Seq(HistoryEntry)
  BY DEF HistoryOK
<1>2. h[k] \in HistoryEntry /\ k \in Nat
  BY <1>1
<1>3. h[k].at \in [valid : BOOLEAN, segment : Int, ticks : Int] /\ h[k].offset \in Nat /\ h[k].pts \in BOOLEAN
  BY <1>2 DEF HistoryEntry
<1>4. QED BY <1>2, <1>3

\* The intervals as pairs of points.
LEMMA PairsAre ==
  ASSUME NEW h
  PROVE  /\ \A x : x \in MeasuredIntervals(h) <=>
                     \E i, j \in Points(h) : x = <<i, j>> /\ IsMeasured(h, i, j)
         /\ \A x : x \in LowerBounds(h) <=>
                     \E i, j \in Points(h) : x = <<i, j>> /\ IsBound(h, i, j)
         /\ \A x : x \in TooLong(h) <=> x \in Known(h) /\ Ticks(h, x) > PTSRepetitionLimitTicks
<1>1. MeasuredIntervals(h) = {x \in Points(h) \X Points(h) : IsMeasured(h, x[1], x[2])}
  BY DEF MeasuredIntervals, IsMeasured
<1>2. LowerBounds(h) = {x \in Points(h) \X Points(h) : IsBound(h, x[1], x[2])}
  BY DEF LowerBounds, IsBound, Leads, Ends
<1>3. QED BY <1>1, <1>2 DEF TooLong, Known

\* The points and cuts of a longer history.
LEMMA PointsOfLonger ==
  ASSUME NEW h, NEW h2, NEW n, Longer(h, h2, n)
  PROVE  /\ Points(h) \subseteq 1 .. n - 1 /\ Cuts(h) \subseteq 1 .. n - 1
         /\ \A k : k \in Points(h2) <=> k \in Points(h) \/ (k = n /\ IsPoint(h2[n]))
         /\ \A k : k \in Cuts(h2) <=> k \in Cuts(h) \/ (k = n /\ IsCut(h2[n]))
<1>1. \A k : k \in 1 .. n <=> k \in 1 .. n - 1 \/ k = n
  BY DEF Longer
<1>2. n \notin 1 .. n - 1
  BY DEF Longer
<1>3. QED BY <1>1, <1>2, Zenon DEF Longer, Points, Cuts, IsPoint, IsCut

\* What lies between two earlier observations stays the same.
LEMMA BetweenOfLonger ==
  ASSUME NEW h, NEW h2, NEW n, Longer(h, h2, n), NEW i \in 1 .. n - 1, NEW j \in 1 .. n - 1
  PROVE  /\ Follows(h2, i, j) <=> Follows(h, i, j)
         /\ NoPTSBetween(h2, i, j) <=> NoPTSBetween(h, i, j)
         /\ IsMeasured(h2, i, j) <=> IsMeasured(h, i, j)
<1>1. n \in Nat /\ i < n /\ j < n /\ h2[i] = h[i] /\ h2[j] = h[j] /\ ~(n < j) /\ ~(n < i)
  BY DEF Longer
<1>2. \A k \in Points(h) : k \in 1 .. n - 1 /\ h2[k] = h[k]
  BY PointsOfLonger DEF Longer
<1>3. Follows(h2, i, j) <=> Follows(h, i, j)
  BY <1>1, PointsOfLonger DEF Follows
<1>4. NoPTSBetween(h2, i, j) <=> NoPTSBetween(h, i, j)
  BY <1>1, <1>2, PointsOfLonger DEF NoPTSBetween
<1>5. QED BY <1>1, <1>3, <1>4 DEF IsMeasured

\* The intervals stay the same when the new observation follows no earlier one.
LEMMA KnownKept ==
  ASSUME NEW h, NEW h2, NEW n, Longer(h, h2, n),
         IsPoint(h2[n]) => \A k \in Points(h) : ~Follows(h2, k, n)
  PROVE  MeasuredIntervals(h2) = MeasuredIntervals(h) /\ Known(h2) = Known(h)
<1>1. \A k \in Points(h) : k \in 1 .. n - 1 /\ h2[k] = h[k]
  BY PointsOfLonger DEF Longer
<1>2. \A i, j \in Points(h) : /\ Follows(h2, i, j) <=> Follows(h, i, j)
                              /\ NoPTSBetween(h2, i, j) <=> NoPTSBetween(h, i, j)
                              /\ IsMeasured(h2, i, j) <=> IsMeasured(h, i, j)
  BY <1>1, BetweenOfLonger
<1>3. ASSUME NEW i \in Points(h), NEW j \in Points(h)
      PROVE  IsBound(h2, i, j) <=> IsBound(h, i, j)
  <2>1. Leads(h2, i) <=> Leads(h, i)
    <3>1. ~Follows(h2, n, i)
      BY <1>1 DEF Follows, Longer
    <3>2. QED BY <1>1, <1>2, <3>1, PointsOfLonger DEF Leads
  <2>2. Ends(h2, j) <=> Ends(h, j)
    BY <1>1, <1>2, PointsOfLonger DEF Ends
  <2>3. QED BY <1>1, <1>2, <2>1, <2>2 DEF IsBound
<1>4. ASSUME NEW i \in Points(h2), NEW j \in Points(h2), Follows(h2, i, j)
      PROVE  i \in Points(h) /\ j \in Points(h)
  <2>1. n \in Nat /\ ~(n < n) /\ \A k \in 1 .. n - 1 : ~(n < k)
    BY DEF Longer
  <2>2. i # n
    BY <1>1, <1>4, <2>1, PointsOfLonger DEF Follows
  <2>3. j # n
    BY <1>4, <2>2, PointsOfLonger
  <2>4. QED BY <2>2, <2>3, PointsOfLonger
<1>5. \A k \in Points(h) : k \in Points(h2)
  BY PointsOfLonger
<1>6. \A x : x \in MeasuredIntervals(h2) <=> x \in MeasuredIntervals(h)
  <2>1. \A i, j \in Points(h2) : IsMeasured(h2, i, j) => i \in Points(h) /\ j \in Points(h)
    BY <1>4 DEF IsMeasured
  <2>2. QED BY <1>2, <1>5, <2>1, PairsAre
<1>7. \A x : x \in LowerBounds(h2) <=> x \in LowerBounds(h)
  <2>1. \A i, j \in Points(h2) : IsBound(h2, i, j) => i \in Points(h) /\ j \in Points(h)
    BY <1>4 DEF IsBound
  <2>2. QED BY <1>3, <1>5, <2>1, PairsAre
<1>8. QED BY <1>6, <1>7 DEF Known

-------------------------------------------------------------------------------
(* The interval in progress.                                                 *)

\* The PES packets after the last cut and in the segment of the last one: i began the
\* interval in progress, and j is the last of them.
Live(h, i, j) ==
  /\ i \in Points(h) /\ j \in Points(h) /\ i <= j
  /\ \A k \in Points(h) : k <= j
  /\ \A c \in Cuts(h) : c < i
  /\ h[i].at.segment = h[j].at.segment
  /\ \A k \in Points(h) : i < k => ~h[k].pts
  /\ Leads(h, i)

\* Those after i follow it, are followed by j, and the new one follows all of them; one
\* before i that the new one follows is followed by i.
LEMMA LiveFollows ==
  ASSUME NEW h, NEW t, NEW now, HistoryOK(h, t, now), NEW h2, NEW n, Longer(h, h2, n),
         NEW i, NEW j, Live(h, i, j), h2[n].at.segment = h[i].at.segment, NEW k \in Points(h)
  PROVE  /\ k \in 1 .. n - 1 /\ n \in Nat
         /\ i < k => Follows(h, i, k)
         /\ i <= k /\ k < j => Follows(h, k, j)
         /\ i <= k => Follows(h2, k, n)
         /\ k < i /\ Follows(h2, k, n) => Follows(h, k, i)
<1>1. /\ n \in Nat /\ \A m \in Points(h) : m \in 1 .. n - 1 /\ h2[m] = h[m] /\ h[m].at.segment \in Int
      /\ \A c \in Cuts(h) : c \in 1 .. n - 1
  <2>1. \A m \in Points(h) : m \in DOMAIN h
    BY DEF Points
  <2>2. QED BY <2>1, EntriesAre, PointsOfLonger DEF Longer
<1>2. i \in 1 .. n - 1 /\ j \in 1 .. n - 1 /\ k \in 1 .. n - 1 /\ k <= j
  BY <1>1 DEF Live
<1>3. ASSUME i <= k PROVE h[k].at.segment = h[i].at.segment
  <2>1. /\ i < k => h[i].at.segment <= h[k].at.segment
        /\ k < j => h[k].at.segment <= h[j].at.segment
    BY DEF Live, HistoryOK
  <2>2. h[i].at.segment = h[j].at.segment
    BY DEF Live
  <2>3. h[i].at.segment \in Int /\ h[j].at.segment \in Int /\ h[k].at.segment \in Int
    BY <1>1 DEF Live
  <2>4. QED BY <1>2, <1>3, <2>1, <2>2, <2>3
<1>4. \A c \in Cuts(h) : c < i /\ c \in Int
  BY <1>1 DEF Live
<1>5. ASSUME i < k PROVE Follows(h, i, k)
  BY <1>2, <1>3, <1>4, <1>5 DEF Follows
<1>6. ASSUME i <= k, k < j PROVE Follows(h, k, j)
  BY <1>2, <1>3, <1>4, <1>6 DEF Follows, Live
<1>7. \A c \in Cuts(h2) : c \in Cuts(h) \/ c = n
  BY PointsOfLonger
<1>8. ASSUME i <= k PROVE Follows(h2, k, n)
  BY <1>1, <1>2, <1>3, <1>4, <1>7, <1>8 DEF Follows
<1>9. ASSUME k < i, Follows(h2, k, n) PROVE Follows(h, k, i)
  <2>1. \A c \in Cuts(h) : c \in Cuts(h2)
    BY PointsOfLonger
  <2>2. h[k].at.segment = h[i].at.segment
    BY <1>1, <1>9 DEF Follows
  <2>3. QED BY <1>1, <1>2, <1>9, <2>1, <2>2 DEF Follows
<1>10. QED BY <1>1, <1>2, <1>5, <1>6, <1>8, <1>9

\* The pair in progress is a bound, unless it is one PES packet.
LEMMA LiveIsBound ==
  ASSUME NEW h, NEW t, NEW now, HistoryOK(h, t, now), NEW i, NEW j, Live(h, i, j)
  PROVE  /\ i \in DOMAIN h /\ j \in DOMAIN h /\ i \in Nat /\ j \in Nat
         /\ <<i, j>> \notin MeasuredIntervals(h)
         /\ <<i, j>> \in Known(h) <=> i # j
<1>0. i \in DOMAIN h /\ j \in DOMAIN h /\ i \in Nat /\ j \in Nat /\ i <= j
  <2>1. i \in DOMAIN h /\ j \in DOMAIN h
    BY DEF Live, Points
  <2>2. DOMAIN h \subseteq Nat
    BY DEF HistoryOK
  <2>3. QED BY <2>1, <2>2 DEF Live
<1>1. Follows(h, i, j) => i < j
  BY DEF Follows
<1>2. i < j => ~h[j].pts
  BY DEF Live
<1>3. ~IsMeasured(h, i, j)
  BY <1>1, <1>2 DEF IsMeasured
<1>4. IsBound(h, i, j) <=> i # j
  <2>1. CASE i = j
    BY <1>0, <1>1, <2>1 DEF IsBound
  <2>2. CASE i # j
    <3>1. i < j
      BY <1>0, <2>2
    <3>2. Follows(h, i, j)
      <4>1. \A c \in Cuts(h) : c < i /\ c \in Int
        BY DEF Live, Cuts, HistoryOK
      <4>2. QED BY <1>0, <3>1, <4>1 DEF Follows, Live
    <3>3. NoPTSBetween(h, i, j)
      BY DEF NoPTSBetween, Live
    <3>4. Ends(h, j)
      <4>1. \A k \in Points(h) : k <= j /\ k \in Int
        BY DEF Live, Points, HistoryOK
      <4>2. QED BY <1>0, <4>1 DEF Ends, Follows
    <3>5. QED BY <1>2, <2>2, <3>1, <3>2, <3>3, <3>4 DEF IsBound, Live
  <2>3. QED BY <2>1, <2>2
<1>5. <<i, j>> \notin MeasuredIntervals(h)
  <2>1. \A a, b : <<a, b>> = <<i, j>> => a = i /\ b = j
    OBVIOUS
  <2>2. QED BY <1>3, <2>1, PairsAre
<1>6. <<i, j>> \in LowerBounds(h) <=> IsBound(h, i, j)
  <2>1. i \in Points(h) /\ j \in Points(h)
    BY DEF Live
  <2>2. \A a, b : <<a, b>> = <<i, j>> => a = i /\ b = j
    OBVIOUS
  <2>3. QED BY <2>1, <2>2, PairsAre
<1>7. QED BY <1>0, <1>4, <1>5, <1>6 DEF Known

\* What a PES packet in the segment of the interval in progress adds: that interval now
\* ends with it, and is measured when both have a PTS.
Prolongs(h, h2, i, j, n) ==
  /\ \A x : x \in MeasuredIntervals(h2) <=>
              x \in MeasuredIntervals(h) \/ (x = <<i, n>> /\ h[i].pts /\ h2[n].pts)
  /\ \A x : x \in Known(h2) <=> (x \in Known(h) /\ x # <<i, j>>) \/ x = <<i, n>>

\* It is the only new interval.
LEMMA OneIntervalNew ==
  ASSUME NEW h, NEW t, NEW now, HistoryOK(h, t, now), NEW h2, NEW n, Longer(h, h2, n),
         NEW i, NEW j, Live(h, i, j), h2[n].at.segment = h[i].at.segment, IsPoint(h2[n]),
         NEW k \in Points(h)
  PROVE  /\ IsMeasured(h2, k, n) <=> k = i /\ h[i].pts /\ h2[n].pts
         /\ IsBound(h2, k, n) <=> k = i /\ ~(h[i].pts /\ h2[n].pts)
<1>0. /\ i \in Points(h) /\ j \in Points(h) /\ i \in 1 .. n - 1 /\ k \in 1 .. n - 1 /\ n \in Nat
      /\ \A m \in Points(h) : m \in 1 .. n - 1 /\ h2[m] = h[m]
      /\ \A m : m \in Points(h2) <=> m \in Points(h) \/ m = n
  BY PointsOfLonger DEF Live, Longer
<1>1. /\ i < k => Follows(h, i, k)
      /\ i <= k => Follows(h2, k, n)
      /\ k < i /\ Follows(h2, k, n) => Follows(h, k, i)
  BY LiveFollows
<1>2. Ends(h2, n)
  <2>1. \A m \in Points(h2) : m <= n /\ m \in Int
    BY <1>0
  <2>2. QED BY <1>0, <2>1 DEF Ends, Follows
<1>3. Leads(h2, k) <=> Leads(h, k)
  <2>1. \A m \in Points(h) : Follows(h2, m, k) <=> Follows(h, m, k)
    BY <1>0, BetweenOfLonger
  <2>2. ~Follows(h2, n, k)
    BY <1>0 DEF Follows
  <2>3. h2[k] = h[k]
    BY <1>0
  <2>4. QED BY <1>0, <2>1, <2>2, <2>3 DEF Leads
<1>4. CASE k = i
  <2>1. NoPTSBetween(h2, i, n)
    <3>1. \A m \in Points(h2) : i < m /\ m < n => m \in Points(h) /\ ~h2[m].pts
      BY <1>0 DEF Live
    <3>2. QED BY <3>1 DEF NoPTSBetween
  <2>2. Follows(h2, i, n) /\ Leads(h2, i) /\ h2[i] = h[i]
    BY <1>0, <1>1, <1>3, <1>4 DEF Live
  <2>3. QED BY <1>2, <1>4, <2>1, <2>2 DEF IsMeasured, IsBound
<1>5. CASE i < k
  <2>1. ~h[k].pts /\ h2[k] = h[k]
    BY <1>0, <1>5 DEF Live
  <2>2. ~Leads(h, k)
    BY <1>0, <1>1, <1>5, <2>1 DEF Leads
  <2>3. k # i
    BY <1>0, <1>5
  <2>4. QED BY <1>3, <2>1, <2>2, <2>3 DEF IsMeasured, IsBound
<1>6. CASE k < i
  <2>1. ASSUME Follows(h2, k, n), NoPTSBetween(h2, k, n) PROVE FALSE
    <3>1. ~Leads(h, i) \/ h[i].pts
      BY <1>1, <1>6, <2>1 DEF Leads
    <3>2. h2[i].pts
      BY <1>0, <3>1 DEF Live
    <3>3. i \in Points(h2) /\ k < i /\ i < n
      BY <1>0, <1>6
    <3>4. QED BY <2>1, <3>2, <3>3 DEF NoPTSBetween
  <2>2. k # i
    BY <1>0, <1>6
  <2>3. QED BY <2>1, <2>2 DEF IsMeasured, IsBound
<1>7. QED BY <1>0, <1>4, <1>5, <1>6

\* The bound in progress is the only one that is no interval any more.
LEMMA OneBoundLess ==
  ASSUME NEW h, NEW t, NEW now, HistoryOK(h, t, now), NEW h2, NEW n, Longer(h, h2, n),
         NEW i, NEW j, Live(h, i, j), h2[n].at.segment = h[i].at.segment, IsPoint(h2[n]),
         NEW a \in Points(h), NEW b \in Points(h)
  PROVE  IsBound(h2, a, b) <=> IsBound(h, a, b) /\ ~(a = i /\ b = j)
<1>0. /\ i \in Points(h) /\ j \in Points(h) /\ i \in 1 .. n - 1 /\ j \in 1 .. n - 1
      /\ a \in 1 .. n - 1 /\ b \in 1 .. n - 1 /\ n \in Nat /\ b <= j /\ i <= j
      /\ \A m \in Points(h) : m \in 1 .. n - 1 /\ h2[m] = h[m]
      /\ \A m : m \in Points(h2) <=> m \in Points(h) \/ m = n
  BY PointsOfLonger DEF Live, Longer
<1>1. /\ Follows(h2, a, b) <=> Follows(h, a, b)
      /\ NoPTSBetween(h2, a, b) <=> NoPTSBetween(h, a, b)
      /\ h2[a] = h[a] /\ h2[b] = h[b]
  BY <1>0, BetweenOfLonger
<1>2. Leads(h2, a) <=> Leads(h, a)
  <2>1. \A m \in Points(h) : Follows(h2, m, a) <=> Follows(h, m, a)
    BY <1>0, BetweenOfLonger
  <2>2. ~Follows(h2, n, a)
    BY <1>0 DEF Follows
  <2>3. QED BY <1>0, <1>1, <2>1, <2>2 DEF Leads
<1>3. Ends(h2, b) <=> Ends(h, b) /\ ~Follows(h2, b, n)
  <2>1. \A m \in Points(h) : Follows(h2, b, m) <=> Follows(h, b, m)
    BY <1>0, BetweenOfLonger
  <2>2. QED BY <1>0, <2>1 DEF Ends
<1>4. IsBound(h2, a, b) => IsBound(h, a, b)
  BY <1>1, <1>2, <1>3 DEF IsBound
<1>5. ASSUME a = i, b = j PROVE ~IsBound(h2, a, b)
  <2>1. CASE i = j
    BY <1>0, <1>5, <2>1 DEF IsBound, Follows
  <2>2. CASE i # j
    <3>1. ~h[j].pts
      BY <1>0, <2>2 DEF Live
    <3>2. Follows(h2, j, n)
      BY <1>0, LiveFollows
    <3>3. QED BY <1>1, <1>3, <1>5, <3>1, <3>2 DEF IsBound
  <2>3. QED BY <2>1, <2>2
<1>6. ASSUME IsBound(h, a, b), ~IsBound(h2, a, b) PROVE a = i /\ b = j
  <2>1. ~h[b].pts /\ Ends(h, b) /\ Follows(h2, b, n) /\ Follows(h, a, b)
        /\ NoPTSBetween(h, a, b) /\ Leads(h, a)
    BY <1>1, <1>2, <1>3, <1>6 DEF IsBound
  <2>2. i <= b
    <3>1. SUFFICES ASSUME b < i PROVE FALSE
      BY <1>0
    <3>2. Follows(h, b, i)
      BY <2>1, <3>1, LiveFollows
    <3>3. QED BY <1>0, <2>1, <3>2 DEF Ends
  <2>3. b = j
    <3>1. SUFFICES ASSUME b < j PROVE FALSE
      BY <1>0
    <3>2. Follows(h, b, j)
      BY <2>2, <3>1, LiveFollows
    <3>3. QED BY <1>0, <2>1, <3>2 DEF Ends
  <2>4. a < j
    BY <2>1, <2>3 DEF Follows
  <2>5. a <= i
    <3>1. SUFFICES ASSUME i < a PROVE FALSE
      BY <1>0
    <3>2. ~h[a].pts /\ Follows(h, i, a)
      BY <3>1, LiveFollows DEF Live
    <3>3. QED BY <1>0, <2>1, <3>2 DEF Leads
  <2>6. a = i
    <3>1. SUFFICES ASSUME a < i PROVE FALSE
      BY <1>0, <2>5
    <3>2. Follows(h2, a, n)
      <4>1. \A c \in Cuts(h2) : c \in Cuts(h) \/ c = n
        BY PointsOfLonger
      <4>2. \A c \in Cuts(h) : c \in 1 .. n - 1 /\ c < i
        BY PointsOfLonger DEF Live
      <4>3. h[a].at.segment = h[j].at.segment
        BY <2>1, <2>3 DEF Follows
      <4>4. h2[a].at.segment = h2[n].at.segment
        BY <1>1, <4>3 DEF Live
      <4>5. \A c \in Cuts(h2) : ~(a < c /\ c < n)
        <5>1. ASSUME NEW c \in Cuts(h), a < c PROVE FALSE
          <6>1. c < i /\ c < b /\ c \in 1 .. n - 1
            BY <1>0, <2>3, <4>2
          <6>2. QED BY <2>1, <5>1, <6>1 DEF Follows
        <5>2. QED BY <1>0, <4>1, <5>1
      <4>6. QED BY <1>0, <4>4, <4>5 DEF Follows
    <3>3. Follows(h, a, i)
      BY <3>1, <3>2, LiveFollows
    <3>4. h[i].pts
      BY <1>0, <3>3 DEF Live, Leads
    <3>5. CASE i = j
      BY <2>1, <2>3, <3>4, <3>5
    <3>6. CASE i < j
      BY <1>0, <2>1, <2>3, <3>1, <3>4, <3>6 DEF NoPTSBetween
    <3>7. QED BY <1>0, <3>5, <3>6
  <2>7. QED BY <2>3, <2>6
<1>7. QED BY <1>4, <1>5, <1>6

\* So the intervals known change by that one.
LEMMA KnownProlonged ==
  ASSUME NEW h, NEW t, NEW now, HistoryOK(h, t, now), NEW h2, NEW n, Longer(h, h2, n),
         NEW i, NEW j, Live(h, i, j), h2[n].at.segment = h[i].at.segment, IsPoint(h2[n])
  PROVE  Prolongs(h, h2, i, j, n)
<1>0. /\ i \in Points(h) /\ j \in Points(h) /\ n \in Nat
      /\ \A m \in Points(h) : m \in 1 .. n - 1 /\ m # n
      /\ \A m : m \in Points(h2) <=> m \in Points(h) \/ m = n
  BY PointsOfLonger DEF Live, Longer
<1>1. \A a, b \in Points(h) : /\ IsMeasured(h2, a, b) <=> IsMeasured(h, a, b)
                              /\ IsBound(h2, a, b) <=> IsBound(h, a, b) /\ ~(a = i /\ b = j)
  BY <1>0, BetweenOfLonger, OneBoundLess
<1>2. \A a \in Points(h) : /\ IsMeasured(h2, a, n) <=> a = i /\ h[i].pts /\ h2[n].pts
                           /\ IsBound(h2, a, n) <=> a = i /\ ~(h[i].pts /\ h2[n].pts)
  BY OneIntervalNew
<1>3. \A b \in Points(h2) : ~IsMeasured(h2, n, b) /\ ~IsBound(h2, n, b)
  <2>1. \A b \in Points(h2) : b <= n /\ b \in Int
    BY <1>0
  <2>2. QED BY <1>0, <2>1 DEF IsMeasured, IsBound, Follows
<1>4. \A x : x \in MeasuredIntervals(h2) <=>
               x \in MeasuredIntervals(h) \/ (x = <<i, n>> /\ h[i].pts /\ h2[n].pts)
  <2>1. ASSUME NEW x \in MeasuredIntervals(h2)
        PROVE  x \in MeasuredIntervals(h) \/ (x = <<i, n>> /\ h[i].pts /\ h2[n].pts)
    <3>1. PICK a \in Points(h2), b \in Points(h2) : x = <<a, b>> /\ IsMeasured(h2, a, b)
      BY PairsAre
    <3>2. a \in Points(h)
      BY <1>0, <1>3, <3>1
    <3>3. CASE b = n
      BY <1>2, <3>1, <3>2, <3>3
    <3>4. CASE b \in Points(h)
      BY <1>1, <3>1, <3>2, <3>4, PairsAre
    <3>5. QED BY <1>0, <3>1, <3>3, <3>4
  <2>2. ASSUME NEW x \in MeasuredIntervals(h) PROVE x \in MeasuredIntervals(h2)
    <3>1. PICK a \in Points(h), b \in Points(h) : x = <<a, b>> /\ IsMeasured(h, a, b)
      BY PairsAre
    <3>2. QED BY <1>0, <1>1, <3>1, PairsAre
  <2>3. h[i].pts /\ h2[n].pts => <<i, n>> \in MeasuredIntervals(h2)
    BY <1>0, <1>2, PairsAre
  <2>4. QED BY <2>1, <2>2, <2>3
<1>5. \A x : x \in LowerBounds(h2) <=> (x \in LowerBounds(h) /\ x # <<i, j>>)
                                        \/ (x = <<i, n>> /\ ~(h[i].pts /\ h2[n].pts))
  <2>1. ASSUME NEW x \in LowerBounds(h2)
        PROVE  (x \in LowerBounds(h) /\ x # <<i, j>>) \/ (x = <<i, n>> /\ ~(h[i].pts /\ h2[n].pts))
    <3>1. PICK a \in Points(h2), b \in Points(h2) : x = <<a, b>> /\ IsBound(h2, a, b)
      BY PairsAre
    <3>2. a \in Points(h)
      BY <1>0, <1>3, <3>1
    <3>3. CASE b = n
      BY <1>2, <3>1, <3>2, <3>3
    <3>4. CASE b \in Points(h)
      <4>1. IsBound(h, a, b) /\ ~(a = i /\ b = j)
        BY <1>1, <3>1, <3>2, <3>4
      <4>2. x # <<i, j>>
        BY <3>1, <4>1
      <4>3. QED BY <3>1, <3>2, <3>4, <4>1, <4>2, PairsAre
    <3>5. QED BY <1>0, <3>1, <3>3, <3>4
  <2>2. ASSUME NEW x \in LowerBounds(h), x # <<i, j>> PROVE x \in LowerBounds(h2)
    <3>1. PICK a \in Points(h), b \in Points(h) : x = <<a, b>> /\ IsBound(h, a, b)
      BY PairsAre
    <3>2. QED BY <1>0, <1>1, <2>2, <3>1, PairsAre
  <2>3. ~(h[i].pts /\ h2[n].pts) => <<i, n>> \in LowerBounds(h2)
    BY <1>0, <1>2, PairsAre
  <2>4. QED BY <2>1, <2>2, <2>3
<1>6. \A x \in MeasuredIntervals(h) : x # <<i, j>>
  BY LiveIsBound
<1>7. QED BY <1>4, <1>5, <1>6 DEF Prolongs, Known

-------------------------------------------------------------------------------
(* What is counted of the intervals.                                         *)

\* The intervals, those above the limit, the first of them and the longest of all are
\* those of the measured pairs M and of the pairs T that are too long.
TallyOf(st, h, M, T) ==
  /\ IsFiniteSet(M) /\ IsFiniteSet(T)
  /\ st.intervals = Cardinality(M) /\ st.exceeded = Cardinality(T)
  /\ T = {} => st.firstOver = 0
  /\ T # {} => /\ \E x \in T : st.firstOver = h[x[2]].offset
               /\ \A y \in T : st.firstOver <= h[y[2]].offset
  /\ ~st.max.valid => M \cup T = {}
  /\ st.max.valid => /\ \E x \in M \cup T : st.max.ticks = Ticks(h, x)
                     /\ \A y \in M \cup T : Ticks(h, y) <= st.max.ticks

\* Two states with the same counts.
SameCounts(a, b) ==
  /\ b.intervals = a.intervals /\ b.firstOver = a.firstOver
  /\ b.exceeded = a.exceeded /\ b.max = a.max

\* A recorded interval is counted.
LEMMA RecordCounts ==
  ASSUME NEW st, StreamOK(st), NEW iv
  PROVE  /\ Record(st, iv).intervals = IF iv.measured THEN st.intervals + 1 ELSE st.intervals
         /\ Record(st, iv).firstOver = IF Over(iv) /\ st.exceeded = 0 THEN iv.to ELSE st.firstOver
         /\ Record(st, iv).openHasPTS = st.openHasPTS
<1> DEFINE r == Record(st, iv)
<1>1. CASE ~iv.measured /\ ~Over(iv)
  <2>1. r = st
    BY <1>1 DEF Record
  <2>2. QED BY <1>1, <2>1
<1>2. CASE iv.measured \/ Over(iv)
  <2>1. r = [st EXCEPT
          !.intervals = IF iv.measured THEN @ + 1 ELSE @,
          !.exceeded  = IF Over(iv) THEN @ + 1 ELSE @,
          !.firstOver = IF Over(iv) /\ st.exceeded = 0 THEN iv.to ELSE @,
          !.max       = IF ~@.valid \/ iv.ticks > @.ticks THEN iv ELSE @]
    BY <1>2 DEF Record
  <2> HIDE DEF r
  <2>2. QED BY <2>1 DEF StreamOK, StreamFields, r
<1>3. QED BY <1>1, <1>2

\* A tally of states with the same counts, and of histories that agree on its pairs.
LEMMA TallySame ==
  ASSUME NEW a, NEW b, NEW h, NEW h2, NEW M, NEW T, TallyOf(a, h, M, T), SameCounts(a, b),
         \A x \in M \cup T : Ticks(h2, x) = Ticks(h, x) /\ h2[x[2]] = h[x[2]]
  PROVE  TallyOf(b, h2, M, T)
<1>1. b.intervals = a.intervals /\ b.firstOver = a.firstOver /\ b.exceeded = a.exceeded /\ b.max = a.max
  BY DEF SameCounts
<1>2. T # {} => /\ \E x \in T : b.firstOver = h2[x[2]].offset
                /\ \A y \in T : b.firstOver <= h2[y[2]].offset
  BY <1>1 DEF TallyOf
<1>3. b.max.valid => /\ \E x \in M \cup T : b.max.ticks = Ticks(h2, x)
                     /\ \A y \in M \cup T : Ticks(h2, y) <= b.max.ticks
  BY <1>1 DEF TallyOf
<1>4. QED BY <1>1, <1>2, <1>3 DEF TallyOf

\* Recording the interval of one more pair tallies it, if it ends last.
LEMMA TallyRecord ==
  ASSUME NEW st, StreamOK(st), NEW h, NEW M, NEW T, TallyOf(st, h, M, T), NEW x,
         x \notin M, x \notin T, \A y \in M \cup T : Ticks(h, y) \in Int,
         \A y \in T : h[y[2]].offset \in Nat /\ h[y[2]].offset <= h[x[2]].offset,
         h[x[2]].offset \in Nat,
         NEW iv, iv.valid = TRUE, iv.ticks = Ticks(h, x), iv.ticks \in Int,
         iv.to = h[x[2]].offset,
         NEW N, iv.measured => N = M \cup {x}, ~iv.measured => N = M,
         NEW U, Over(iv) => U = T \cup {x}, ~Over(iv) => U = T
  PROVE  TallyOf(Record(st, iv), h, N, U)
<1> DEFINE r == Record(st, iv)
<1>1. /\ r.intervals = IF iv.measured THEN st.intervals + 1 ELSE st.intervals
      /\ r.firstOver = IF Over(iv) /\ st.exceeded = 0 THEN iv.to ELSE st.firstOver
      /\ r.exceeded = IF Over(iv) THEN st.exceeded + 1 ELSE st.exceeded
      /\ r.max = IF (iv.measured \/ Over(iv)) /\ (~st.max.valid \/ iv.ticks > st.max.ticks)
                   THEN iv ELSE st.max
  BY RecordCounts, RecordIs DEF Recorded
<1> HIDE DEF r
<1>2. IsFiniteSet(N) /\ r.intervals = Cardinality(N)
  <2>1. CASE iv.measured
    BY <1>1, <2>1, FS_AddElement DEF TallyOf
  <2>2. CASE ~iv.measured
    BY <1>1, <2>2 DEF TallyOf
  <2>3. QED BY <2>1, <2>2
<1>3. IsFiniteSet(U) /\ r.exceeded = Cardinality(U)
  <2>1. CASE Over(iv)
    BY <1>1, <2>1, FS_AddElement DEF TallyOf
  <2>2. CASE ~Over(iv)
    BY <1>1, <2>2 DEF TallyOf
  <2>3. QED BY <2>1, <2>2
<1>4. /\ U = {} => r.firstOver = 0
      /\ U # {} => /\ \E z \in U : r.firstOver = h[z[2]].offset
                   /\ \A y \in U : r.firstOver <= h[y[2]].offset
  <2>1. st.exceeded = 0 <=> T = {}
    BY FS_EmptySet DEF TallyOf
  <2>2. CASE Over(iv) /\ T = {}
    <3>1. U = {x} /\ r.firstOver = h[x[2]].offset
      BY <1>1, <2>1, <2>2
    <3>2. QED BY <3>1
  <2>3. CASE Over(iv) /\ T # {}
    <3>1. U = T \cup {x} /\ r.firstOver = st.firstOver
      BY <1>1, <2>1, <2>3
    <3>2. PICK z \in T : st.firstOver = h[z[2]].offset
      BY <2>3 DEF TallyOf
    <3>3. \A y \in T : st.firstOver <= h[y[2]].offset
      BY <2>3 DEF TallyOf
    <3>4. QED BY <3>1, <3>2, <3>3
  <2>4. CASE ~Over(iv)
    <3>1. U = T /\ r.firstOver = st.firstOver
      BY <1>1, <2>4
    <3>2. QED BY <3>1 DEF TallyOf
  <2>5. QED BY <2>2, <2>3, <2>4
<1>5. /\ ~r.max.valid => N \cup U = {}
      /\ r.max.valid => /\ \E z \in N \cup U : r.max.ticks = Ticks(h, z)
                        /\ \A y \in N \cup U : Ticks(h, y) <= r.max.ticks
  <2>1. CASE ~iv.measured /\ ~Over(iv)
    <3>1. N = M /\ U = T /\ r.max = st.max
      BY <1>1, <2>1
    <3>2. QED BY <3>1 DEF TallyOf
  <2>2. CASE iv.measured \/ Over(iv)
    <3>1. \A y : y \in N \cup U <=> y \in M \cup T \/ y = x
      BY <2>2
    <3>2. r.max = IF ~st.max.valid \/ iv.ticks > st.max.ticks THEN iv ELSE st.max
      BY <1>1, <2>2
    <3>3. CASE ~st.max.valid
      <4>1. M \cup T = {} /\ r.max = iv
        BY <3>2, <3>3 DEF TallyOf
      <4>2. \A y \in N \cup U : y = x
        BY <3>1, <4>1
      <4>3. x \in N \cup U
        BY <3>1
      <4>4. r.max.valid /\ r.max.ticks = Ticks(h, x) /\ Ticks(h, x) <= r.max.ticks
        BY <4>1
      <4>5. QED BY <4>2, <4>3, <4>4
    <3>4. CASE st.max.valid
      <4>1. PICK z \in M \cup T : st.max.ticks = Ticks(h, z)
        BY <3>4 DEF TallyOf
      <4>2. \A y \in M \cup T : Ticks(h, y) <= st.max.ticks
        BY <3>4 DEF TallyOf
      <4>3. st.max.ticks \in Int
        BY <4>1
      <4>4. CASE iv.ticks > st.max.ticks
        <5>1. r.max.valid /\ r.max.ticks = iv.ticks
          BY <3>2, <4>4
        <5>2. \A y \in N \cup U : Ticks(h, y) <= iv.ticks
          BY <3>1, <4>2, <4>3, <4>4
        <5>3. QED BY <3>1, <5>1, <5>2
      <4>5. CASE ~(iv.ticks > st.max.ticks)
        <5>1. r.max = st.max
          BY <3>2, <3>4, <4>5
        <5>2. \A y \in N \cup U : Ticks(h, y) <= st.max.ticks
          BY <3>1, <4>2, <4>3, <4>5
        <5>3. QED BY <3>1, <3>4, <4>1, <5>1, <5>2
      <4>6. QED BY <4>4, <4>5
    <3>5. QED BY <3>3, <3>4
  <2>3. QED BY <2>1, <2>2
<1>6. QED BY <1>2, <1>3, <1>4, <1>5 DEF TallyOf, r

-------------------------------------------------------------------------------
(* What is counted of a PID is what its history defines.                     *)

\* The interval in progress is that between the i-th and the j-th observation.
Progress(st, h, i, j) ==
  /\ st.openHasPTS = h[i].pts /\ st.openSegment = h[i].at.segment
  /\ st.openFrom = h[i].offset /\ st.openStart = h[i].at.ticks
  /\ st.last = h[j].at.ticks /\ st.lastAt = h[j].offset

InProgress(st, h, i, j) ==
  /\ Live(h, i, j) /\ Progress(st, h, i, j)
  /\ TallyOf(st, h, MeasuredIntervals(h), TooLong(h) \ {<<i, j>>})

AllCut(h) == \A k \in Points(h) : \E c \in Cuts(h) : k < c

\* What has been recorded is every interval but the one in progress.
Counts(st, h) ==
  /\ st.open => \E i, j \in Points(h) : InProgress(st, h, i, j)
  /\ ~st.open => AllCut(h) /\ TallyOf(st, h, MeasuredIntervals(h), TooLong(h))

\* The pairs of a history.
LEMMA PairsOf ==
  ASSUME NEW h, NEW t, NEW now, HistoryOK(h, t, now), NEW x \in Known(h)
  PROVE  /\ Ticks(h, x) \in Nat /\ x[1] \in Points(h) /\ x[2] \in Points(h)
         /\ x[2] \in DOMAIN h /\ h[x[2]].offset \in Nat
<1>1. PICK i \in Points(h), j \in Points(h) : x = <<i, j>> /\ Follows(h, i, j)
  BY PairsAre DEF Known, IsMeasured, IsBound
<1>2. i < j /\ h[i].at.segment = h[j].at.segment
  BY <1>1 DEF Follows
<1>3. h[i].at.ticks <= h[j].at.ticks
  BY <1>2 DEF HistoryOK
<1>4. i \in DOMAIN h /\ j \in DOMAIN h
  BY DEF Points
<1>5. h[i].at.ticks \in Int /\ h[j].at.ticks \in Int /\ h[j].offset \in Nat
  BY <1>4, EntriesAre
<1>6. x[1] = i /\ x[2] = j
  BY <1>1
<1>7. Ticks(h, x) \in Nat
  BY <1>3, <1>5, <1>6 DEF Ticks
<1>8. QED BY <1>4, <1>5, <1>6, <1>7

\* The intervals of a longer history with the same known ones.
LEMMA TooLongKept ==
  ASSUME NEW h, NEW t, NEW now, HistoryOK(h, t, now), NEW h2, NEW n, Longer(h, h2, n),
         Known(h2) = Known(h)
  PROVE  /\ TooLong(h2) = TooLong(h)
         /\ \A x \in Known(h) : Ticks(h2, x) = Ticks(h, x) /\ h2[x[2]] = h[x[2]]
<1>1. ASSUME NEW x \in Known(h) PROVE Ticks(h2, x) = Ticks(h, x) /\ h2[x[2]] = h[x[2]]
  <2>1. x[1] \in Points(h) /\ x[2] \in Points(h)
    BY PairsOf
  <2>2. \A k \in Points(h) : h2[k] = h[k]
    BY PointsOfLonger DEF Longer
  <2>3. h2[x[1]] = h[x[1]] /\ h2[x[2]] = h[x[2]]
    BY <2>1, <2>2
  <2>4. QED BY <2>3 DEF Ticks
<1>2. \A x : x \in TooLong(h2) <=> x \in TooLong(h)
  BY <1>1, PairsAre
<1>3. QED BY <1>1, <1>2

\* What is reported of a state: the interval in progress is counted when it is too long.
LEMMA ReportedTally ==
  ASSUME NEW st, StreamOK(st), NEW h, NEW t, NEW now, HistoryOK(h, t, now), Counts(st, h)
  PROVE  /\ TallyOf(Reported(st), h, MeasuredIntervals(h), TooLong(h))
         /\ Reported(st).intervals = st.intervals
<1> DEFINE M == MeasuredIntervals(h)
           T == TooLong(h)
<1>1. CASE ~st.open
  <2>1. Reported(st) = st
    BY <1>1 DEF Reported, Late
  <2>2. QED BY <1>1, <2>1 DEF Counts
<1>2. CASE st.open
  <2>1. PICK i \in Points(h), j \in Points(h) : InProgress(st, h, i, j)
    BY <1>2 DEF Counts
  <2> DEFINE x == <<i, j>>
             U == T \ {x}
  <2>2. /\ i \in DOMAIN h /\ j \in DOMAIN h /\ i \in Nat /\ j \in Nat
        /\ x \notin M /\ (x \in Known(h) <=> i # j) /\ Live(h, i, j)
    BY <2>1, LiveIsBound DEF InProgress
  <2>3. i # j <=> h[i].offset # h[j].offset
    <3>1. i < j => h[i].offset < h[j].offset
      BY <2>2 DEF HistoryOK
    <3>2. h[i].offset \in Nat /\ h[j].offset \in Nat
      BY <2>2, EntriesAre
    <3>3. i <= j
      BY <2>2 DEF Live
    <3>4. QED BY <2>2, <3>1, <3>2, <3>3
  <2>4. Ticks(h, x) = st.last - st.openStart
    BY <2>1 DEF InProgress, Progress, Ticks
  <2>5. x \in T <=> Late(st)
    <3>1. x \in T <=> x \in Known(h) /\ Ticks(h, x) > PTSRepetitionLimitTicks
      BY PairsAre
    <3>2. Late(st) <=> i # j /\ st.last - st.openStart > PTSRepetitionLimitTicks
      BY <1>2, <2>1, <2>3 DEF Late, InProgress, Progress
    <3>3. QED BY <2>2, <2>4, <3>1, <3>2
  <2>6. TallyOf(st, h, M, U)
    BY <2>1 DEF InProgress
  <2>7. CASE ~Late(st)
    <3>1. U = T /\ Reported(st) = st
      BY <2>5, <2>7 DEF Reported
    <3>2. QED BY <2>6, <3>1
  <2>8. CASE Late(st)
    <3> DEFINE iv == Pending(st)
    <3>1. iv = Interval(FALSE, st.last - st.openStart, st.openFrom, st.lastAt)
      BY <2>8 DEF Pending, Late
    <3>2. /\ ~iv.measured /\ iv.valid = TRUE /\ iv.ticks = Ticks(h, x) /\ iv.to = h[x[2]].offset
          /\ Over(iv) /\ Reported(st) = Record(st, iv)
      <4>1. /\ ~iv.measured /\ iv.valid = TRUE /\ iv.ticks = st.last - st.openStart
            /\ iv.to = st.lastAt
        BY <3>1 DEF Interval
      <4>2. Over(iv)
        BY <2>8, <4>1 DEF Late, Over
      <4>3. st.lastAt = h[x[2]].offset
        BY <2>1 DEF InProgress, Progress
      <4>4. QED BY <2>4, <2>8, <4>1, <4>2, <4>3 DEF Reported
    <3> HIDE DEF iv
    <3>3. \A y \in Known(h) : /\ Ticks(h, y) \in Int /\ h[y[2]].offset \in Nat
                              /\ h[y[2]].offset <= h[x[2]].offset
      <4>1. ASSUME NEW y \in Known(h) PROVE h[y[2]].offset <= h[j].offset
        <5>1. y[2] \in Points(h) /\ y[2] \in DOMAIN h /\ h[y[2]].offset \in Nat
          BY PairsOf
        <5>2. y[2] <= j /\ y[2] \in Nat
          BY <2>2, <5>1, EntriesAre DEF Live
        <5>3. y[2] < j => h[y[2]].offset < h[j].offset
          BY <2>2, <5>1 DEF HistoryOK
        <5>4. h[j].offset \in Nat
          BY <2>2, EntriesAre
        <5>5. QED BY <2>2, <5>1, <5>2, <5>3, <5>4
      <4>2. QED BY <4>1, PairsOf
    <3>4. M \cup U \subseteq Known(h) /\ x \in Known(h) /\ x \in T
      BY <2>5, <2>8, PairsAre DEF Known
    <3>5. T = U \cup {x} /\ x \notin U
      BY <3>4
    <3> HIDE DEF M, T, U, x
    <3>6. TallyOf(Record(st, iv), h, M, T)
      <4>1. /\ \A y \in M \cup U : Ticks(h, y) \in Int
            /\ \A y \in U : h[y[2]].offset \in Nat /\ h[y[2]].offset <= h[x[2]].offset
            /\ h[x[2]].offset \in Nat
        BY <3>3, <3>4
      <4>2. iv.ticks \in Int
        BY <3>2, <3>3, <3>4
      <4>3. QED BY <2>2, <2>6, <3>2, <3>5, <4>1, <4>2, TallyRecord
    <3>7. Reported(st).intervals = st.intervals
      BY <3>2, RecordCounts
    <3>8. QED BY <3>2, <3>6, <3>7 DEF M, T
  <2>9. QED BY <2>7, <2>8
<1>3. QED BY <1>1, <1>2

\* Ending the interval keeps what was reported.
LEMMA EndCounts ==
  ASSUME NEW st, StreamOK(st)
  PROVE  SameCounts(Reported(st), EndInterval(st))
<1> DEFINE e == EndInterval(st)
           d == IF Pending(st).valid THEN Record(st, Pending(st)) ELSE st
<1>1. d = Reported(st)
  <2>1. CASE Late(st)
    BY <2>1, PendingIs DEF Reported
  <2>2. CASE ~Late(st) /\ Pending(st).valid
    <3>1. ~Pending(st).measured /\ ~Over(Pending(st))
      BY <2>2, PendingIs
    <3>2. QED BY <2>2, <3>1 DEF Reported, Record
  <2>3. CASE ~Pending(st).valid
    BY <2>3, PendingIs DEF Reported
  <2>4. QED BY <2>1, <2>2, <2>3
<1>2. e = [d EXCEPT !.open = FALSE]
  BY DEF EndInterval
<1>3. StreamOK(d)
  BY <1>1, ReportedIs
<1> HIDE DEF d, e
<1>4. SameCounts(d, e)
  BY <1>2, <1>3 DEF StreamOK, StreamFields, SameCounts
<1>5. QED BY <1>1, <1>4 DEF e

\* After a break every interval is recorded.
LEMMA CutKeepsCounts ==
  ASSUME NEW a, StreamOK(a), NEW h, NEW t, NEW now, HistoryOK(h, t, now), Counts(a, h),
         NEW h2, NEW n, Longer(h, h2, n), IsCut(h2[n]),
         NEW b, b.open = FALSE, SameCounts(Reported(a), b)
  PROVE  Counts(b, h2)
<1>1. ~IsPoint(h2[n])
  BY DEF IsPoint, IsCut
<1>2. MeasuredIntervals(h2) = MeasuredIntervals(h) /\ Known(h2) = Known(h)
  BY <1>1, KnownKept
<1>3. /\ TooLong(h2) = TooLong(h)
      /\ \A x \in Known(h) : Ticks(h2, x) = Ticks(h, x) /\ h2[x[2]] = h[x[2]]
  BY <1>2, TooLongKept
<1>4. MeasuredIntervals(h) \cup TooLong(h) \subseteq Known(h)
  BY PairsAre DEF Known
<1>5. TallyOf(b, h2, MeasuredIntervals(h), TooLong(h))
  BY <1>3, <1>4, ReportedTally, TallySame
<1>6. AllCut(h2)
  <2>1. n \in Cuts(h2) /\ \A k \in Points(h2) : k \in 1 .. n - 1 /\ n \in Nat
    BY <1>1, PointsOfLonger DEF Longer
  <2>2. QED BY <2>1 DEF AllCut
<1>7. QED BY <1>2, <1>3, <1>5, <1>6 DEF Counts

\* An observation that is neither changes nothing.
LEMMA IdleKeepsCounts ==
  ASSUME NEW a, NEW h, NEW t, NEW now, HistoryOK(h, t, now), Counts(a, h),
         NEW h2, NEW n, Longer(h, h2, n), ~IsCut(h2[n]), ~IsPoint(h2[n]),
         NEW b, SameCounts(a, b), SameProgress(a, b), b.openHasPTS = a.openHasPTS
  PROVE  Counts(b, h2)
<1>1. MeasuredIntervals(h2) = MeasuredIntervals(h) /\ Known(h2) = Known(h)
  BY KnownKept
<1>2. /\ TooLong(h2) = TooLong(h)
      /\ \A x \in Known(h) : Ticks(h2, x) = Ticks(h, x) /\ h2[x[2]] = h[x[2]]
  BY <1>1, TooLongKept
<1>3. MeasuredIntervals(h) \cup TooLong(h) \subseteq Known(h)
  BY PairsAre DEF Known
<1>4. Points(h2) = Points(h) /\ Cuts(h2) = Cuts(h) /\ b.open = a.open
  BY PointsOfLonger DEF SameProgress
<1>5. \A k \in Points(h) : k \in 1 .. n - 1 /\ h2[k] = h[k]
  BY PointsOfLonger DEF Longer
<1>6. ASSUME a.open PROVE \E i, j \in Points(h2) : InProgress(b, h2, i, j)
  <2>1. PICK i \in Points(h), j \in Points(h) : InProgress(a, h, i, j)
    BY <1>6 DEF Counts
  <2>2. TallyOf(b, h2, MeasuredIntervals(h), TooLong(h) \ {<<i, j>>})
    BY <1>2, <1>3, <2>1, TallySame DEF InProgress
  <2>3. Progress(b, h2, i, j)
    BY <1>5, <2>1 DEF InProgress, Progress, SameProgress
  <2>4. Leads(h2, i) <=> Leads(h, i)
    <3>1. \A k \in Points(h) : Follows(h2, k, i) <=> Follows(h, k, i)
      BY <1>5, BetweenOfLonger
    <3>2. QED BY <1>4, <1>5, <3>1 DEF Leads
  <2>5. Live(h2, i, j)
    BY <1>4, <1>5, <2>1, <2>4 DEF InProgress, Live
  <2>6. QED BY <1>1, <1>2, <1>4, <2>2, <2>3, <2>5 DEF InProgress
<1>7. ASSUME ~a.open PROVE AllCut(h2) /\ TallyOf(b, h2, MeasuredIntervals(h2), TooLong(h2))
  <2>1. AllCut(h2)
    BY <1>4, <1>7 DEF Counts, AllCut
  <2>2. TallyOf(b, h2, MeasuredIntervals(h), TooLong(h))
    BY <1>2, <1>3, <1>7, TallySame DEF Counts
  <2>3. QED BY <1>1, <1>2, <2>1, <2>2
<1>8. QED BY <1>4, <1>6, <1>7 DEF Counts

\* A PES packet that follows none begins an interval.
LEMMA OpensCounts ==
  ASSUME NEW s, NEW h, NEW t, NEW now, HistoryOK(h, t, now),
         TallyOf(s, h, MeasuredIntervals(h), TooLong(h)),
         NEW h2, NEW n, Longer(h, h2, n), IsPoint(h2[n]), \A k \in Points(h) : ~Follows(h2, k, n),
         NEW b, SameCounts(s, b), b.open = TRUE, Progress(b, h2, n, n)
  PROVE  Counts(b, h2)
<1>1. MeasuredIntervals(h2) = MeasuredIntervals(h) /\ Known(h2) = Known(h)
  BY KnownKept
<1>2. /\ TooLong(h2) = TooLong(h)
      /\ \A x \in Known(h) : Ticks(h2, x) = Ticks(h, x) /\ h2[x[2]] = h[x[2]]
  BY <1>1, TooLongKept
<1>3. MeasuredIntervals(h) \cup TooLong(h) \subseteq Known(h)
  BY PairsAre DEF Known
<1>4. TallyOf(b, h2, MeasuredIntervals(h), TooLong(h))
  BY <1>2, <1>3, TallySame
<1>5. /\ n \in Nat /\ \A k : k \in Points(h2) <=> k \in Points(h) \/ k = n
      /\ \A k \in Points(h) : k \in 1 .. n - 1
  BY PointsOfLonger DEF Longer
<1>6. TooLong(h) \ {<<n, n>>} = TooLong(h)
  <2>1. \A x \in Known(h) : x[2] \in 1 .. n - 1
    BY <1>5, PairsOf
  <2>2. n \notin 1 .. n - 1 /\ <<n, n>>[2] = n
    BY <1>5
  <2>3. <<n, n>> \notin Known(h)
    BY <2>1, <2>2
  <2>4. QED BY <1>3, <2>3
<1>7. Live(h2, n, n)
  <2>1. \A c \in Cuts(h2) : c < n
    <3>1. ~IsCut(h2[n])
      BY DEF IsPoint, IsCut
    <3>2. \A c \in Cuts(h) : c \in 1 .. n - 1
      BY PointsOfLonger
    <3>3. QED BY <1>5, <3>1, <3>2, PointsOfLonger
  <2>2. Leads(h2, n)
    BY <1>5 DEF Leads, Follows
  <2>3. QED BY <1>5, <2>1, <2>2 DEF Live
<1>8. InProgress(b, h2, n, n)
  BY <1>1, <1>2, <1>4, <1>6, <1>7 DEF InProgress
<1>9. QED BY <1>5, <1>8 DEF Counts

\* The pairs of a longer history whose interval in progress goes on.
LEMMA ProlongedPairs ==
  ASSUME NEW h, NEW t, NEW now, HistoryOK(h, t, now), NEW h2, NEW n, Longer(h, h2, n),
         NEW i, NEW j, Live(h, i, j), h2[n].at.segment = h[i].at.segment, IsPoint(h2[n])
  PROVE  /\ <<i, n>> \notin Known(h) /\ <<i, n>> \in Known(h2)
         /\ \A x \in Known(h) : Ticks(h2, x) = Ticks(h, x) /\ h2[x[2]] = h[x[2]]
         /\ TooLong(h2) \ {<<i, n>>} = TooLong(h) \ {<<i, j>>}
<1>1. Prolongs(h, h2, i, j, n)
  BY KnownProlonged
<1>2. \A k \in Points(h) : k \in 1 .. n - 1 /\ h2[k] = h[k]
  BY PointsOfLonger DEF Longer
<1>3. ASSUME NEW x \in Known(h) PROVE Ticks(h2, x) = Ticks(h, x) /\ h2[x[2]] = h[x[2]]
  <2>1. x[1] \in Points(h) /\ x[2] \in Points(h)
    BY PairsOf
  <2>2. h2[x[1]] = h[x[1]] /\ h2[x[2]] = h[x[2]]
    BY <1>2, <2>1
  <2>3. QED BY <2>2 DEF Ticks
<1>4. <<i, n>> \notin Known(h)
  <2>1. \A x \in Known(h) : x[2] \in 1 .. n - 1
    BY <1>2, PairsOf
  <2>2. n \notin 1 .. n - 1 /\ <<i, n>>[2] = n
    BY DEF Longer
  <2>3. QED BY <2>1, <2>2
<1>5. \A x : x \in TooLong(h2) /\ x # <<i, n>> <=> x \in TooLong(h) /\ x # <<i, j>>
  <2>1. \A x : x \in Known(h2) /\ x # <<i, n>> <=> x \in Known(h) /\ x # <<i, j>>
    BY <1>1, <1>4 DEF Prolongs
  <2>2. QED BY <1>3, <2>1, PairsAre
<1>6. <<i, n>> \in Known(h2)
  BY <1>1 DEF Prolongs
<1>7. QED BY <1>3, <1>4, <1>5, <1>6

\* A PES packet with a PTS records the interval and begins the next one.
LEMMA ClosesCounts ==
  ASSUME NEW a, StreamOK(a), NEW h, NEW t, NEW now, HistoryOK(h, t, now),
         NEW h2, NEW u, NEW later, HistoryOK(h2, u, later), NEW n, Longer(h, h2, n),
         NEW i, NEW j, InProgress(a, h, i, j), h2[n].at.segment = h[i].at.segment,
         IsPoint(h2[n]), h2[n].pts,
         NEW iv, iv = Interval(a.openHasPTS, h2[n].at.ticks - a.openStart, a.openFrom, h2[n].offset),
         NEW b, SameCounts(Record(a, iv), b), b.open = TRUE, Progress(b, h2, n, n)
  PROVE  Counts(b, h2)
<1> DEFINE M == MeasuredIntervals(h)
           S == TooLong(h) \ {<<i, j>>}
           x == <<i, n>>
<1>0. Live(h, i, j) /\ Progress(a, h, i, j) /\ TallyOf(a, h, M, S)
  BY DEF InProgress
<1>1. /\ x \notin Known(h) /\ x \in Known(h2)
      /\ \A y \in Known(h) : Ticks(h2, y) = Ticks(h, y) /\ h2[y[2]] = h[y[2]]
      /\ TooLong(h2) \ {x} = S
  BY <1>0, ProlongedPairs
<1>2. Prolongs(h, h2, i, j, n)
  BY <1>0, KnownProlonged
<1>3. M \cup S \subseteq Known(h)
  BY PairsAre DEF Known
<1>4. SameCounts(a, a)
  BY DEF SameCounts
<1>5. TallyOf(a, h2, M, S)
  <2> HIDE DEF M, S
  <2> QED BY <1>0, <1>1, <1>3, <1>4, TallySame
<1>6. /\ n \in Nat /\ \A k : k \in Points(h2) <=> k \in Points(h) \/ k = n
      /\ \A k \in Points(h) : k \in 1 .. n - 1 /\ h2[k] = h[k]
  BY PointsOfLonger DEF Longer
<1>7. i \in Points(h) /\ h2[i] = h[i]
  BY <1>0, <1>6 DEF Live
<1>8. /\ iv.valid = TRUE /\ iv.ticks = Ticks(h2, x) /\ iv.to = h2[x[2]].offset
      /\ iv.measured <=> h[i].pts
      /\ iv.ticks \in Int
  <2>1. /\ iv.valid = TRUE /\ iv.ticks = h2[n].at.ticks - a.openStart /\ iv.to = h2[n].offset
        /\ iv.measured = a.openHasPTS
    BY DEF Interval
  <2>2. a.openStart = h2[i].at.ticks /\ a.openHasPTS = h[i].pts
    BY <1>0, <1>7 DEF Progress
  <2>3. Ticks(h2, x) = h2[n].at.ticks - h2[i].at.ticks
    BY DEF Ticks
  <2>4. Ticks(h2, x) \in Int
    <3> HIDE DEF x
    <3> QED BY <1>1, PairsOf
  <2>5. iv.ticks = Ticks(h2, x)
    BY <2>1, <2>2, <2>3
  <2>6. QED BY <2>1, <2>2, <2>4, <2>5
<1>9. /\ h2[x[2]].offset \in Nat
      /\ \A y \in Known(h) : /\ Ticks(h2, y) \in Int /\ h2[y[2]].offset \in Nat
                             /\ h2[y[2]].offset <= h2[x[2]].offset
  <2>1. n \in DOMAIN h2 /\ x[2] = n
    BY DEF Longer
  <2>2. ASSUME NEW y \in Known(h)
        PROVE  /\ Ticks(h2, y) \in Int /\ h2[y[2]].offset \in Nat
               /\ h2[y[2]].offset <= h2[n].offset
    <3>1. Ticks(h2, y) \in Int /\ y[2] \in 1 .. n - 1 /\ h2[y[2]].offset \in Nat
      BY <1>1, <1>6, PairsOf
    <3>2. y[2] \in DOMAIN h2 /\ y[2] < n
      BY <1>6, <3>1 DEF Longer
    <3>3. h2[y[2]].offset < h2[n].offset
      BY <2>1, <3>2 DEF HistoryOK
    <3>4. h2[n].offset \in Nat
      BY <2>1, EntriesAre
    <3>5. QED BY <3>1, <3>3, <3>4
  <2>3. h2[n].offset \in Nat
    BY <2>1, EntriesAre
  <2>4. QED BY <2>1, <2>2, <2>3
<1>10. /\ iv.measured => MeasuredIntervals(h2) = M \cup {x}
       /\ ~iv.measured => MeasuredIntervals(h2) = M
  BY <1>2, <1>8 DEF Prolongs
<1>11. /\ Over(iv) => TooLong(h2) = S \cup {x}
       /\ ~Over(iv) => TooLong(h2) = S
  <2>1. x \in TooLong(h2) <=> Over(iv)
    BY <1>1, <1>8, PairsAre DEF Over
  <2> HIDE DEF S, x
  <2>2. QED BY <1>1, <2>1
<1>12. TallyOf(Record(a, iv), h2, MeasuredIntervals(h2), TooLong(h2))
  <2> DEFINE N == MeasuredIntervals(h2)
             U == TooLong(h2)
  <2>1. x \notin M /\ x \notin S
    BY <1>1, <1>3
  <2>2. /\ \A y \in M \cup S : Ticks(h2, y) \in Int
        /\ \A y \in S : h2[y[2]].offset \in Nat /\ h2[y[2]].offset <= h2[x[2]].offset
    BY <1>3, <1>9
  <2> HIDE DEF M, S, x, N, U
  <2>3. TallyOf(Record(a, iv), h2, N, U)
    BY <1>5, <1>8, <1>9, <1>10, <1>11, <2>1, <2>2, TallyRecord DEF N, U
  <2>4. QED BY <2>3 DEF N, U
<1>13. TallyOf(b, h2, MeasuredIntervals(h2), TooLong(h2))
  BY <1>12, TallySame
<1>14. Live(h2, n, n)
  <2>1. \A c \in Cuts(h2) : c < n
    <3>1. ~IsCut(h2[n])
      BY DEF IsPoint, IsCut
    <3>2. \A c \in Cuts(h) : c \in 1 .. n - 1
      BY PointsOfLonger
    <3>3. QED BY <1>6, <3>1, <3>2, PointsOfLonger
  <2>2. QED BY <1>6, <2>1 DEF Live, Leads
<1>15. TooLong(h2) \ {<<n, n>>} = TooLong(h2)
  <2>1. <<n, n>> \notin Known(h2)
    BY <1>14, LiveIsBound
  <2>2. QED BY <2>1, PairsAre
<1>16. InProgress(b, h2, n, n)
  BY <1>13, <1>14, <1>15 DEF InProgress
<1>17. QED BY <1>6, <1>16 DEF Counts

\* One without extends it.
LEMMA ExtendsCounts ==
  ASSUME NEW a, NEW h, NEW t, NEW now, HistoryOK(h, t, now), NEW h2, NEW n, Longer(h, h2, n),
         NEW i, NEW j, InProgress(a, h, i, j), h2[n].at.segment = h[i].at.segment,
         IsPoint(h2[n]), ~h2[n].pts,
         NEW b, SameCounts(a, b), b.open = TRUE, Progress(b, h2, i, n)
  PROVE  Counts(b, h2)
<1> DEFINE M == MeasuredIntervals(h)
           S == TooLong(h) \ {<<i, j>>}
<1>0. Live(h, i, j) /\ TallyOf(a, h, M, S)
  BY DEF InProgress
<1>1. /\ <<i, n>> \notin Known(h) /\ <<i, n>> \in Known(h2)
      /\ \A y \in Known(h) : Ticks(h2, y) = Ticks(h, y) /\ h2[y[2]] = h[y[2]]
      /\ TooLong(h2) \ {<<i, n>>} = TooLong(h) \ {<<i, j>>}
  BY <1>0, ProlongedPairs
<1>2. MeasuredIntervals(h2) = M
  <2>1. Prolongs(h, h2, i, j, n)
    BY <1>0, KnownProlonged
  <2>2. QED BY <2>1 DEF Prolongs
<1>3. M \cup S \subseteq Known(h)
  BY PairsAre DEF Known
<1>4. TallyOf(b, h2, M, S)
  <2> HIDE DEF M, S
  <2> QED BY <1>0, <1>1, <1>3, TallySame
<1>5. /\ n \in Nat /\ \A k : k \in Points(h2) <=> k \in Points(h) \/ k = n
      /\ \A k \in Points(h) : k \in 1 .. n - 1 /\ h2[k] = h[k]
  BY PointsOfLonger DEF Longer
<1>6. i \in Points(h) /\ i \in 1 .. n - 1 /\ h2[i] = h[i]
  BY <1>0, <1>5 DEF Live
<1>7. Live(h2, i, n)
  <2>1. \A c \in Cuts(h2) : c < i
    <3>1. ~IsCut(h2[n])
      BY DEF IsPoint, IsCut
    <3>2. QED BY <1>0, <3>1, PointsOfLonger DEF Live
  <2>2. Leads(h2, i)
    <3>1. \A k \in Points(h) : Follows(h2, k, i) <=> Follows(h, k, i)
      BY <1>5, <1>6, BetweenOfLonger
    <3>2. ~Follows(h2, n, i)
      BY <1>5, <1>6 DEF Follows
    <3>3. QED BY <1>0, <1>5, <1>6, <3>1, <3>2 DEF Live, Leads
  <2>3. \A k \in Points(h2) : i < k => ~h2[k].pts
    BY <1>0, <1>5 DEF Live
  <2>4. h2[i].at.segment = h2[n].at.segment
    BY <1>6
  <2>5. QED BY <1>5, <1>6, <2>1, <2>2, <2>3, <2>4 DEF Live
<1>8. InProgress(b, h2, i, n)
  BY <1>1, <1>2, <1>4, <1>7 DEF InProgress
<1>9. QED BY <1>5, <1>6, <1>8 DEF Counts

-------------------------------------------------------------------------------
(* Each operation of the check on what is counted of one PID.                *)

\* Two states with the same counts and the same interval in progress.
Alike(a, b) == SameCounts(a, b) /\ SameProgress(a, b) /\ b.openHasPTS = a.openHasPTS

\* They are reported the same.
LEMMA AlikeReported ==
  ASSUME NEW a, NEW b, StreamOK(a), StreamOK(b), Alike(a, b)
  PROVE  SameCounts(Reported(a), Reported(b))
<1>1. Reported(b).exceeded = Reported(a).exceeded /\ Reported(b).max = Reported(a).max
  BY SameReported DEF Alike, SameCounts, SameIntervals
<1>2. Pending(b) = Pending(a) /\ (Late(b) <=> Late(a))
  BY DEF Alike, SameProgress, Pending, Late, Interval
<1>3. CASE ~Late(a)
  BY <1>2, <1>3 DEF Reported, Alike
<1>4. CASE Late(a)
  <2>1. /\ Record(a, Pending(a)).intervals = IF Pending(a).measured THEN a.intervals + 1 ELSE a.intervals
        /\ Record(a, Pending(a)).firstOver =
             IF Over(Pending(a)) /\ a.exceeded = 0 THEN Pending(a).to ELSE a.firstOver
    BY RecordCounts
  <2>2. /\ Record(b, Pending(a)).intervals = IF Pending(a).measured THEN b.intervals + 1 ELSE b.intervals
        /\ Record(b, Pending(a)).firstOver =
             IF Over(Pending(a)) /\ b.exceeded = 0 THEN Pending(a).to ELSE b.firstOver
    BY RecordCounts
  <2>3. Reported(a) = Record(a, Pending(a)) /\ Reported(b) = Record(b, Pending(a))
    BY <1>2, <1>4 DEF Reported
  <2>4. QED BY <1>1, <2>1, <2>2, <2>3 DEF Alike, SameCounts
<1>5. QED BY <1>3, <1>4

\* Ending the interval of a state that is like another one keeps what was reported.
LEMMA EndAlike ==
  ASSUME NEW a, NEW s, StreamOK(a), StreamOK(s), Alike(a, s)
  PROVE  SameCounts(Reported(a), EndInterval(s)) /\ EndInterval(s).open = FALSE
<1>1. SameCounts(Reported(a), Reported(s)) /\ SameCounts(Reported(s), EndInterval(s))
  BY AlikeReported, EndCounts
<1>2. QED BY <1>1, EndIntervalIs DEF SameCounts

\* Counting a packet leaves the intervals alone.
LEMMA CountingAlike ==
  ASSUME NEW a, StreamOK(a), NEW pes, NEW pts, NEW unchecked, NEW untrusted, NEW problems
  PROVE  /\ Alike(a, [a EXCEPT !.pes = pes, !.pts = pts])
         /\ Alike(a, [a EXCEPT !.unchecked = unchecked, !.untrusted = untrusted])
         /\ Alike(a, [a EXCEPT !.problems = problems])
<1>1. ASSUME NEW s, s = [a EXCEPT !.pes = pes, !.pts = pts] PROVE Alike(a, s)
  BY <1>1 DEF StreamOK, StreamFields, Alike, SameCounts, SameProgress
<1>2. ASSUME NEW s, s = [a EXCEPT !.unchecked = unchecked, !.untrusted = untrusted] PROVE Alike(a, s)
  BY <1>2 DEF StreamOK, StreamFields, Alike, SameCounts, SameProgress
<1>3. ASSUME NEW s, s = [a EXCEPT !.problems = problems] PROVE Alike(a, s)
  BY <1>3 DEF StreamOK, StreamFields, Alike, SameCounts, SameProgress
<1>4. QED BY <1>1, <1>2, <1>3

\* PESCheck's Place counts what the observation adds to the history.
LEMMA PlaceCounts ==
  ASSUME NEW a, StreamOK(a), NEW h, NEW t, NEW old, HistoryOK(h, t, old), InTime(a, t, old),
         t.segment \in Int, Counts(a, h), NEW h2, NEW u, NEW now, HistoryOK(h2, u, now),
         NEW n, Longer(h, h2, n), IsPoint(h2[n]), NEW hasPTS \in BOOLEAN, h2[n].pts = hasPTS,
         NEW at, h2[n].at = at, h2[n].offset = now, t.segment <= at.segment
  PROVE  Counts(Place(a, hasPTS, at, now), h2)
<1> DEFINE s == IF a.open /\ a.openSegment # at.segment THEN EndInterval(a) ELSE a
           iv == Interval(s.openHasPTS, at.ticks - s.openStart, s.openFrom, now)
           r == Record(s, iv)
           b == Place(a, hasPTS, at, now)
<1>0. at.segment \in Int /\ \A k \in Points(h) : h2[k] = h[k] /\ h[k].at.segment \in Int
  <2>1. n \in DOMAIN h2 /\ \A k \in Points(h) : k \in DOMAIN h /\ h2[k] = h[k]
    BY PointsOfLonger DEF Longer
  <2>2. QED BY <2>1, EntriesAre
<1>1. CASE ~s.open
  <2>1. b = [[s EXCEPT !.open = TRUE, !.openHasPTS = hasPTS, !.openSegment = at.segment,
                       !.openStart = at.ticks, !.openFrom = now]
               EXCEPT !.placed = @ + 1, !.last = at.ticks, !.lastAt = now]
    BY <1>1 DEF Place
  <2>2. /\ StreamOK(s) /\ TallyOf(s, h, MeasuredIntervals(h), TooLong(h))
        /\ \A k \in Points(h) : ~Follows(h2, k, n)
    <3>1. CASE a.open /\ a.openSegment # at.segment
      <4>1. s = EndInterval(a) /\ StreamOK(s) /\ SameCounts(Reported(a), s)
        BY <3>1, EndIntervalIs, EndCounts
      <4>2. TallyOf(Reported(a), h, MeasuredIntervals(h), TooLong(h))
        BY ReportedTally
      <4>3. TallyOf(s, h, MeasuredIntervals(h), TooLong(h))
        <5> HIDE DEF s
        <5> QED BY <4>1, <4>2, TallySame
      <4>4. t.segment < at.segment
        BY <1>0, <3>1 DEF InTime
      <4>5. \A k \in Points(h) : h2[k].at.segment # h2[n].at.segment
        BY <1>0, <4>4 DEF HistoryOK
      <4>6. QED BY <4>1, <4>3, <4>5 DEF Follows
    <3>2. CASE ~(a.open /\ a.openSegment # at.segment)
      <4>1. s = a /\ ~a.open
        BY <1>1, <3>2
      <4>2. AllCut(h) /\ TallyOf(a, h, MeasuredIntervals(h), TooLong(h))
        BY <4>1 DEF Counts
      <4>3. \A k \in Points(h) : \E c \in Cuts(h2) : k < c /\ c < n
        <5>1. \A c \in Cuts(h) : c \in Cuts(h2) /\ c < n
          BY PointsOfLonger DEF Longer
        <5>2. QED BY <4>2, <5>1 DEF AllCut
      <4>4. QED BY <4>1, <4>2, <4>3 DEF Follows
    <3>3. QED BY <3>1, <3>2
  <2> HIDE DEF s, b
  <2>3. SameCounts(s, b) /\ b.open = TRUE
    BY <2>1, <2>2 DEF StreamOK, StreamFields, SameCounts
  <2>4. /\ b.openHasPTS = hasPTS /\ b.openSegment = at.segment /\ b.openStart = at.ticks
        /\ b.openFrom = now /\ b.last = at.ticks /\ b.lastAt = now
    BY <2>1, <2>2 DEF StreamOK, StreamFields
  <2>5. Progress(b, h2, n, n)
    BY <2>4 DEF Progress
  <2>6. Counts(b, h2)
    BY <2>2, <2>3, <2>5, OpensCounts
  <2>7. QED BY <2>6 DEF b
<1>2. CASE s.open
  <2>1. s = a /\ a.open /\ a.openSegment = at.segment
    <3>1. CASE a.open /\ a.openSegment # at.segment
      <4>1. EndInterval(a).open = FALSE
        BY EndIntervalIs
      <4>2. QED BY <1>2, <3>1, <4>1
    <3>2. CASE ~(a.open /\ a.openSegment # at.segment)
      BY <1>2, <3>2
    <3>3. QED BY <3>1, <3>2
  <2>2. PICK i \in Points(h), j \in Points(h) : InProgress(a, h, i, j)
    BY <2>1 DEF Counts
  <2>3. h2[n].at.segment = h[i].at.segment
    BY <2>1, <2>2 DEF InProgress, Progress
  <2>4. CASE hasPTS
    <3>1. b = [[r EXCEPT !.openHasPTS = TRUE, !.openStart = at.ticks, !.openFrom = now]
                 EXCEPT !.placed = @ + 1, !.last = at.ticks, !.lastAt = now]
      BY <1>2, <2>4 DEF Place
    <3>2. /\ iv = Interval(a.openHasPTS, h2[n].at.ticks - a.openStart, a.openFrom, h2[n].offset)
          /\ r = Record(a, iv)
      BY <2>1
    <3> HIDE DEF s, b, iv, r
    <3>3. DOMAIN r = StreamFields /\ SameProgress(a, r)
      BY <3>2, RecordIs DEF Recorded
    <3>4. /\ SameCounts(r, b) /\ b.open = r.open /\ b.openSegment = r.openSegment
          /\ b.openHasPTS = TRUE /\ b.openStart = at.ticks
          /\ b.openFrom = now /\ b.last = at.ticks /\ b.lastAt = now
      BY <3>1, <3>3 DEF StreamFields, SameCounts
    <3>5. b.open = TRUE /\ b.openSegment = at.segment
      BY <2>1, <3>3, <3>4 DEF SameProgress, StreamOK
    <3>6. Progress(b, h2, n, n) /\ h2[n].pts
      BY <2>4, <3>4, <3>5 DEF Progress
    <3>7. Counts(b, h2)
      BY <2>2, <2>3, <3>2, <3>4, <3>5, <3>6, ClosesCounts
    <3>8. QED BY <3>7 DEF b
  <2>5. CASE ~hasPTS
    <3>1. b = [a EXCEPT !.placed = @ + 1, !.last = at.ticks, !.lastAt = now]
      BY <1>2, <2>1, <2>5 DEF Place
    <3> HIDE DEF s, b
    <3>2. /\ SameCounts(a, b) /\ b.open = a.open /\ b.openSegment = a.openSegment
          /\ b.openHasPTS = a.openHasPTS /\ b.openStart = a.openStart
          /\ b.openFrom = a.openFrom /\ b.last = at.ticks /\ b.lastAt = now
      BY <3>1 DEF StreamOK, StreamFields, SameCounts
    <3>3. b.open = TRUE /\ ~h2[n].pts
      BY <2>1, <2>5, <3>2 DEF StreamOK
    <3>4. Progress(b, h2, i, n)
      <4>1. Progress(a, h, i, j) /\ h2[i] = h[i]
        BY <1>0, <2>2 DEF InProgress
      <4>2. QED BY <3>2, <4>1 DEF Progress
    <3>5. Counts(b, h2)
      BY <2>2, <2>3, <3>2, <3>3, <3>4, ExtendsCounts
    <3>6. QED BY <3>5 DEF b
  <2>6. QED BY <2>4, <2>5
<1>3. QED BY <1>1, <1>2

\* A state like another one, of the same history.
LEMMA AlikeCounts ==
  ASSUME NEW a, NEW b, NEW h, Counts(a, h), Alike(a, b)
  PROVE  Counts(b, h)
<1>1. b.open = a.open /\ SameCounts(a, b)
  BY DEF Alike, SameProgress
<1>2. \A T : TallyOf(a, h, MeasuredIntervals(h), T) => TallyOf(b, h, MeasuredIntervals(h), T)
  BY <1>1, TallySame
<1>3. \A i, j : Progress(a, h, i, j) => Progress(b, h, i, j)
  BY DEF Alike, SameProgress, Progress
<1>4. \A i, j : InProgress(a, h, i, j) => InProgress(b, h, i, j)
  BY <1>2, <1>3 DEF InProgress
<1>5. QED BY <1>1, <1>2, <1>4 DEF Counts

\* A PES packet with a valid header.
LEMMA GoodHeaderCounts ==
  ASSUME NEW a, StreamOK(a), NEW h, NEW t, NEW old, HistoryOK(h, t, old), InTime(a, t, old),
         t.segment \in Int, Counts(a, h), NEW h2, NEW u, NEW now, HistoryOK(h2, u, now),
         NEW n, Longer(h, h2, n), NEW hasPTS \in BOOLEAN, h2[n].pts = hasPTS, h2[n].kind = "pes",
         h2[n].applies = IsVideoOrAudio(a.type),
         NEW at, h2[n].at = at, h2[n].offset = now, at.valid => t.segment <= at.segment,
         InTime(a, t, now)
  PROVE  Counts(GoodHeader(a, hasPTS, at, now), h2)
<1> DEFINE s == [a EXCEPT !.pes = @ + 1, !.pts = IF hasPTS THEN @ + 1 ELSE @]
           b == GoodHeader(a, hasPTS, at, now)
<1>1. StreamOK(s) /\ SameTags(a, s) /\ Alike(a, s)
  BY CountingIs, CountingAlike
<1>2. b = IF ~IsVideoOrAudio(s.type) THEN s
          ELSE IF at.valid THEN Place(s, hasPTS, at, now)
          ELSE IF hasPTS THEN EndInterval(s)
          ELSE s
  BY DEF GoodHeader
<1> HIDE DEF s
<1>3. s.type = a.type /\ Counts(s, h)
  BY <1>1, AlikeCounts DEF SameTags
<1>4. CASE ~IsVideoOrAudio(s.type) \/ (~at.valid /\ ~hasPTS)
  <2>1. ~IsPoint(h2[n]) /\ ~IsCut(h2[n]) /\ b = s
    BY <1>2, <1>3, <1>4 DEF IsPoint, IsCut
  <2>2. Counts(s, h2)
    BY <1>1, <2>1, IdleKeepsCounts DEF Alike
  <2>3. QED BY <2>1, <2>2
<1>5. CASE IsVideoOrAudio(s.type) /\ at.valid
  <2>1. IsPoint(h2[n])
    BY <1>3, <1>5 DEF IsPoint
  <2>2. InTime(s, t, old)
    BY <1>1 DEF InTime, SameTags, Alike, SameProgress
  <2>3. Counts(Place(s, hasPTS, at, now), h2)
    BY <1>1, <1>3, <1>5, <2>1, <2>2, PlaceCounts
  <2>4. QED BY <1>2, <1>5, <2>3
<1>6. CASE IsVideoOrAudio(s.type) /\ ~at.valid /\ hasPTS
  <2>1. IsCut(h2[n]) /\ b = EndInterval(s)
    BY <1>2, <1>3, <1>6 DEF IsCut
  <2>2. SameCounts(Reported(a), EndInterval(s)) /\ EndInterval(s).open = FALSE
    BY <1>1, EndAlike
  <2>3. Counts(EndInterval(s), h2)
    BY <2>1, <2>2, CutKeepsCounts
  <2>4. QED BY <2>1, <2>3
<1>7. QED BY <1>4, <1>5, <1>6

\* A PES packet whose header fails a check.
LEMMA BadHeaderCounts ==
  ASSUME NEW a, StreamOK(a), NEW h, NEW t, NEW now, HistoryOK(h, t, now), Counts(a, h),
         NEW h2, NEW n, Longer(h, h2, n), h2[n].kind # "pes", NEW problem, NEW pos
  PROVE  Counts(BadHeader(a, problem, pos), h2)
<1> DEFINE s == [a EXCEPT !.problems[problem] =
                   [count |-> @.count + 1, first |-> IF @.count = 0 THEN pos ELSE @.first]]
<1>1. StreamOK(s) /\ Alike(a, s)
  BY CountingIs, CountingAlike
<1>2. BadHeader(a, problem, pos) = EndInterval(s)
  BY DEF BadHeader
<1> HIDE DEF s
<1>3. SameCounts(Reported(a), EndInterval(s)) /\ EndInterval(s).open = FALSE
  BY <1>1, EndAlike
<1>4. Counts(EndInterval(s), h2)
  BY <1>3, CutKeepsCounts DEF IsCut
<1>5. QED BY <1>2, <1>4

\* A break.
LEMMA BrokenCounts ==
  ASSUME NEW a, StreamOK(a), NEW h, NEW t, NEW now, HistoryOK(h, t, now), Counts(a, h),
         NEW h2, NEW n, Longer(h, h2, n), h2[n].kind # "pes", NEW cause
  PROVE  Counts(Broken(a, cause), h2)
<1> DEFINE s == [a EXCEPT
                   !.unchecked = IF cause = "incomplete_header" THEN @ + 1 ELSE @,
                   !.untrusted = IF cause = "untrusted_payload" THEN @ + 1 ELSE @]
<1>1. StreamOK(s) /\ Alike(a, s)
  BY CountingIs, CountingAlike
<1>2. Broken(a, cause) = EndInterval(s)
  BY DEF Broken
<1> HIDE DEF s
<1>3. SameCounts(Reported(a), EndInterval(s)) /\ EndInterval(s).open = FALSE
  BY <1>1, EndAlike
<1>4. Counts(EndInterval(s), h2)
  BY <1>3, CutKeepsCounts DEF IsCut
<1>5. QED BY <1>2, <1>4

\* Changing the tags leaves the intervals alone.
LEMMA TaggedAlike ==
  ASSUME NEW a, DOMAIN a = StreamFields, NEW active, NEW applicable, NEW type
  PROVE  /\ Alike(a, [a EXCEPT !.active = active, !.applicable = applicable])
         /\ Alike(a, [a EXCEPT !.type = type]) /\ Alike(a, [a EXCEPT !.active = active])
         /\ DOMAIN [a EXCEPT !.type = type] = StreamFields
         /\ [a EXCEPT !.active = active, !.applicable = applicable].open = a.open
         /\ [a EXCEPT !.type = type].open = a.open /\ [a EXCEPT !.active = active].open = a.open
BY DEF StreamFields, Alike, SameCounts, SameProgress

\* Counts alike are the same.
LEMMA SameCountsAlike ==
  ASSUME NEW a, NEW b, NEW c, SameCounts(a, b), Alike(b, c)
  PROVE  SameCounts(a, c)
BY DEF Alike, SameCounts

\* A PID that was not in progress has ended its interval.
LEMMA EndIdle ==
  ASSUME NEW a, StreamOK(a), ~a.open
  PROVE  Alike(a, EndInterval(a))
<1>1. ~Pending(a).valid
  BY PendingIs
<1>2. EndInterval(a) = [a EXCEPT !.open = FALSE]
  BY <1>1 DEF EndInterval
<1>3. a.open = FALSE
  BY DEF StreamOK
<1>4. QED BY <1>2, <1>3 DEF StreamOK, StreamFields, Alike, SameCounts, SameProgress

\* A PID of a new layout that was known: a change of it cuts its history.
LEMMA AnnouncedCounts ==
  ASSUME NEW p \in DOMAIN streams, NEW type, StreamOK(streams[p]),
         NEW h, NEW t, NEW now, HistoryOK(h, t, now), Counts(streams[p], h),
         NEW h2, NEW n, Longer(h, h2, n), h2[n].kind # "pes"
  PROVE  /\ streams[p].active /\ streams[p].type = type => Counts(Announced(p, type), h)
         /\ ~(streams[p].active /\ streams[p].type = type) => Counts(Announced(p, type), h2)
<1> DEFINE a == streams[p]
           e == EndInterval(a)
           s == IF ~a.active \/ a.type # type THEN [e EXCEPT !.type = type] ELSE a
           b == Announced(p, type)
<1>1. b = [s EXCEPT !.active = TRUE, !.applicable = s.applicable \/ IsVideoOrAudio(type)]
  BY DEF Announced
<1>2. CASE a.active /\ a.type = type
  <2>1. s = a
    BY <1>2
  <2> HIDE DEF a, b, s
  <2>2. DOMAIN a = StreamFields
    BY DEF a, StreamOK
  <2>3. Alike(a, b)
    BY <1>1, <2>1, <2>2, TaggedAlike
  <2>4. Counts(a, h)
    BY DEF a
  <2>5. Counts(b, h)
    BY <2>3, <2>4, AlikeCounts
  <2>6. QED BY <1>2, <2>5 DEF a, b
<1>3. CASE ~(a.active /\ a.type = type)
  <2>1. s = [e EXCEPT !.type = type]
    BY <1>3
  <2>2. StreamOK(e) /\ e.open = FALSE /\ SameCounts(Reported(a), e)
    BY EndIntervalIs, EndCounts
  <2>3. StreamOK(a) /\ Counts(a, h)
    OBVIOUS
  <2> HIDE DEF a, b, s, e
  <2>4. DOMAIN e = StreamFields
    BY <2>2 DEF StreamOK
  <2>5. DOMAIN s = StreamFields /\ Alike(e, s)
    BY <2>1, <2>4, TaggedAlike
  <2>6. Alike(s, b)
    BY <1>1, <2>5, TaggedAlike
  <2>7. SameCounts(Reported(a), b)
    BY <2>2, <2>5, <2>6, SameCountsAlike
  <2>8. b.open = FALSE
    BY <2>2, <2>5, <2>6 DEF Alike, SameProgress
  <2>9. Counts(b, h2)
    BY <2>3, <2>7, <2>8, CutKeepsCounts DEF IsCut
  <2>10. QED BY <1>3, <2>9 DEF a, b
<1>4. QED BY <1>2, <1>3

\* A PID that leaves the layout: its history is cut, unless it had no intervals.
LEMMA RemovedCounts ==
  ASSUME NEW a, StreamOK(a), NEW h, NEW t, NEW now, HistoryOK(h, t, now), Counts(a, h),
         NEW h2, NEW n, Longer(h, h2, n), h2[n].kind # "pes"
  PROVE  /\ ~a.active \/ ~a.open => Counts(Removed(a), h)
         /\ a.active => Counts(Removed(a), h2)
<1> DEFINE e == EndInterval(a)
           b == [e EXCEPT !.active = FALSE]
<1>1. Removed(a) = IF a.active THEN b ELSE a
  BY DEF Removed
<1>2. StreamOK(e) /\ e.open = FALSE /\ SameCounts(Reported(a), e) /\ (~a.open => Alike(a, e))
  BY EndIntervalIs, EndCounts, EndIdle
<1> HIDE DEF e
<1>3. Alike(e, b) /\ b.open = e.open
  BY <1>2, TaggedAlike DEF StreamOK
<1> HIDE DEF b
<1>4. SameCounts(Reported(a), b)
  BY <1>2, <1>3, SameCountsAlike
<1>5. Counts(b, h2)
  BY <1>2, <1>3, <1>4, CutKeepsCounts DEF IsCut
<1>6. ~a.open => Counts(b, h)
  BY <1>2, <1>3, AlikeCounts
<1>7. QED BY <1>1, <1>5, <1>6

\* A PID of a new layout that was not known has been observed to do nothing.
LEMMA NewStreamCounts ==
  ASSUME NEW p, p \notin DOMAIN streams, NEW type
  PROVE  Counts(Announced(p, type), <<>>)
<1> DEFINE b == Announced(p, type)
           s == NewStream(type)
<1>1. b = [s EXCEPT !.active = TRUE, !.applicable = @ \/ IsVideoOrAudio(type)]
  BY DEF Announced
<1>2. /\ DOMAIN s = StreamFields /\ s.exceeded = 0 /\ s.max = NoInterval /\ s.intervals = 0
      /\ s.firstOver = 0 /\ s.open = FALSE
  BY DEF NewStream, StreamFields
<1> HIDE DEF b, s
<1>3. /\ b.exceeded = 0 /\ b.max = NoInterval /\ b.intervals = 0 /\ b.firstOver = 0
      /\ b.open = FALSE
  BY <1>1, <1>2 DEF StreamFields
<1>4. Points(<<>>) = {}
  BY DEF Points
<1>5. MeasuredIntervals(<<>>) = {} /\ TooLong(<<>>) = {}
  BY <1>4 DEF MeasuredIntervals, LowerBounds, TooLong
<1>6. IsFiniteSet({}) /\ Cardinality({}) = 0
  BY FS_EmptySet
<1>7. NoInterval.valid = FALSE
  BY DEF NoInterval
<1>8. TallyOf(b, <<>>, {}, {})
  BY <1>3, <1>6, <1>7 DEF TallyOf
<1>9. QED BY <1>3, <1>4, <1>5, <1>8 DEF Counts, AllCut, b

-------------------------------------------------------------------------------
(* The history as the check goes on.                                         *)

\* A history is one of all that follows.
LEMMA HistoryKept ==
  ASSUME NEW h, NEW t, NEW old \in Nat, HistoryOK(h, t, old)
  PROVE  HistoryOK(h, t, old + 1)
<1>1. \A k \in DOMAIN h : h[k].offset \in Nat /\ h[k].offset <= old
  BY EntriesAre DEF HistoryOK
<1>2. \A k \in DOMAIN h : h[k].offset <= old + 1
  BY <1>1
<1>3. QED BY <1>2 DEF HistoryOK

\* An observation at a time that does not go back is one more of the history.
LEMMA HistoryGrows ==
  ASSUME NEW h, NEW t \in [segment : Int, ticks : Int], NEW old \in Nat, HistoryOK(h, t, old),
         NEW e \in HistoryEntry, e.offset = old + 1, NEW u \in [segment : Int, ticks : Int],
         t.segment <= u.segment, t.segment = u.segment => t.ticks <= u.ticks,
         IsPoint(e) => e.at.segment = u.segment /\ e.at.ticks = u.ticks
  PROVE  /\ HistoryOK(Append(h, e), u, old + 1) /\ Longer(h, Append(h, e), Len(h) + 1)
         /\ Append(h, e)[Len(h) + 1] = e
<1> DEFINE h2 == Append(h, e)
           n == Len(h) + 1
<1>1. h \in Seq(HistoryEntry)
  BY DEF HistoryOK
<1>2. Longer(h, h2, n) /\ h2[n] = e /\ h2 \in Seq(HistoryEntry)
  BY <1>1, AppendedIsLonger
<1> HIDE DEF h2, n
<1>3. /\ n \in Nat /\ DOMAIN h2 = 1 .. n /\ DOMAIN h = 1 .. n - 1
      /\ \A k \in 1 .. n - 1 : h2[k] = h[k]
  BY <1>2 DEF Longer
<1>4. \A k \in DOMAIN h2 : k = n \/ (k \in DOMAIN h /\ h2[k] = h[k] /\ k < n)
  BY <1>3
<1>5. \A k \in DOMAIN h :
        /\ h[k].offset \in Nat /\ h[k].offset <= old
        /\ h[k].at.segment \in Int /\ h[k].at.ticks \in Int
  BY EntriesAre DEF HistoryOK
<1>6. \A k \in DOMAIN h2 : h2[k].offset <= old + 1
  BY <1>2, <1>4, <1>5
<1>7. \A k, l \in DOMAIN h2 : k < l => h2[k].offset < h2[l].offset
  <2> TAKE k, l \in DOMAIN h2
  <2> HAVE k < l
  <2>1. k \in DOMAIN h /\ h2[k] = h[k]
    BY <1>3, <1>4
  <2>2. CASE l = n
    BY <1>2, <1>5, <2>1, <2>2
  <2>3. CASE l \in DOMAIN h /\ h2[l] = h[l]
    BY <2>1, <2>3 DEF HistoryOK
  <2>4. QED BY <1>4, <2>2, <2>3
<1>8. \A k \in Points(h2) : k \in DOMAIN h2 /\ IsPoint(h2[k])
  BY DEF Points, IsPoint
<1>9. \A k \in Points(h2) : k = n \/ (k \in Points(h) /\ k \in DOMAIN h /\ h2[k] = h[k] /\ k < n)
  BY <1>4 DEF Points
<1>10. IsPoint(e) => e.at.segment = u.segment /\ e.at.ticks = u.ticks
  OBVIOUS
<1>11. \A k \in Points(h) :
         /\ h[k].at.segment <= u.segment
         /\ h[k].at.segment = u.segment => h[k].at.ticks <= u.ticks
  <2> TAKE k \in Points(h)
  <2>1. /\ h[k].at.segment <= t.segment
        /\ h[k].at.segment = t.segment => h[k].at.ticks <= t.ticks
    BY DEF HistoryOK
  <2>2. h[k].at.segment \in Int /\ h[k].at.ticks \in Int
    BY <1>5 DEF Points
  <2>3. t.segment \in Int /\ t.ticks \in Int /\ u.segment \in Int /\ u.ticks \in Int
    OBVIOUS
  <2>4. QED BY <2>1, <2>2, <2>3
<1>12. \A k \in Points(h2) : /\ h2[k].at.segment <= u.segment
                             /\ h2[k].at.segment = u.segment => h2[k].at.ticks <= u.ticks
  <2> TAKE k \in Points(h2)
  <2>1. CASE k = n
    <3>1. h2[k].at.segment = u.segment /\ h2[k].at.ticks = u.ticks
      BY <1>2, <1>8, <1>10, <2>1
    <3>2. u.segment \in Int /\ u.ticks \in Int
      OBVIOUS
    <3>3. QED BY <3>1, <3>2
  <2>2. CASE k # n
    BY <1>9, <1>11, <2>2
  <2>3. QED BY <2>1, <2>2
<1>13. \A k, l \in Points(h2) :
         k < l => /\ h2[k].at.segment <= h2[l].at.segment
                  /\ h2[k].at.segment = h2[l].at.segment => h2[k].at.ticks <= h2[l].at.ticks
  <2> TAKE k, l \in Points(h2)
  <2> HAVE k < l
  <2>1. k \in Points(h) /\ h2[k] = h[k]
    BY <1>3, <1>8, <1>9
  <2>2. CASE l = n
    <3>1. h2[l].at.segment = u.segment /\ h2[l].at.ticks = u.ticks
      BY <1>2, <1>8, <1>10, <2>2
    <3>2. QED BY <1>12, <3>1
  <2>3. CASE l # n
    <3>1. l \in Points(h) /\ h2[l] = h[l]
      BY <1>9, <2>3
    <3>2. QED BY <2>1, <3>1 DEF HistoryOK
  <2>4. QED BY <2>2, <2>3
<1>14. HistoryOK(h2, u, old + 1)
  BY <1>2, <1>6, <1>7, <1>12, <1>13 DEF HistoryOK
<1>15. QED BY <1>2, <1>14 DEF h2, n

\* The history of each PID, and what is counted of those that are known.
HistoryInv ==
  /\ DOMAIN history = Pids
  /\ \A p \in Pids : HistoryOK(history[p], time[p], offset)
  /\ \A p \in DOMAIN streams : Counts(streams[p], history[p])
  /\ \A p \in Pids \ DOMAIN streams : history[p] = <<>>

ResultsInv == CheckInv /\ HistoryInv

\* An observation of one PID leaves the histories of the others as they were.
LEMMA OnePidCounts ==
  ASSUME ResultsInv, offset' = offset + 1, NEW p \in DOMAIN streams, NEW b,
         streams' = [streams EXCEPT ![p] = b],
         time' \in [Pids -> [segment : Int, ticks : Int]],
         \A q \in Pids : q # p => time'[q] = time[q],
         time[p].segment <= time'[p].segment,
         time[p].segment = time'[p].segment => time[p].ticks <= time'[p].ticks,
         NEW e \in HistoryEntry, e.offset = offset + 1, Noted(p, e),
         IsPoint(e) => e.at.segment = time'[p].segment /\ e.at.ticks = time'[p].ticks,
         LET h  == history[p]
             h2 == Append(h, e)
         IN HistoryOK(h2, time'[p], offset + 1) /\ Longer(h, h2, Len(h) + 1) /\ h2[Len(h) + 1] = e
              => Counts(b, h2)
  PROVE  HistoryInv'
<1> DEFINE h == history[p]
           h2 == Append(h, e)
<1>1. /\ offset \in Nat /\ p \in Pids /\ DOMAIN streams \subseteq Pids /\ DOMAIN history = Pids
      /\ time \in [Pids -> [segment : Int, ticks : Int]]
      /\ \A q \in Pids : HistoryOK(history[q], time[q], offset)
  BY DEF ResultsInv, CheckInv, HistoryInv
<1>2. history' = [history EXCEPT ![p] = h2]
  BY DEF Noted
<1>3. DOMAIN history' = Pids /\ history'[p] = h2 /\ \A q \in Pids : q # p => history'[q] = history[q]
  BY <1>1, <1>2
<1>4. HistoryOK(h, time[p], offset) /\ time[p] \in [segment : Int, ticks : Int]
      /\ time'[p] \in [segment : Int, ticks : Int]
  BY <1>1
<1> HIDE DEF h
<1>5. HistoryOK(h2, time'[p], offset + 1) /\ Longer(h, h2, Len(h) + 1) /\ h2[Len(h) + 1] = e
  BY <1>1, <1>4, HistoryGrows
<1>6. Counts(b, h2)
  BY <1>5 DEF h
<1> HIDE DEF h2
<1>7. ASSUME NEW q \in Pids PROVE HistoryOK(history'[q], time'[q], offset')
  <2>1. CASE q = p
    BY <1>3, <1>5, <2>1
  <2>2. CASE q # p
    <3>1. HistoryOK(history[q], time[q], offset + 1)
      BY <1>1, HistoryKept
    <3>2. QED BY <1>3, <2>2, <3>1
  <2>3. QED BY <2>1, <2>2
<1>8. DOMAIN streams' = DOMAIN streams /\ streams'[p] = b
      /\ \A q \in DOMAIN streams : q # p => streams'[q] = streams[q]
  OBVIOUS
<1>9. ASSUME NEW q \in DOMAIN streams' PROVE Counts(streams'[q], history'[q])
  <2>1. CASE q = p
    BY <1>3, <1>6, <1>8, <2>1
  <2>2. CASE q # p
    <3>1. Counts(streams[q], history[q])
      BY <1>8 DEF ResultsInv, HistoryInv
    <3>2. QED BY <1>1, <1>3, <1>8, <2>2, <3>1
  <2>3. QED BY <2>1, <2>2
<1>10. ASSUME NEW q \in Pids \ DOMAIN streams' PROVE history'[q] = <<>>
  <2>1. q # p /\ q \notin DOMAIN streams
    BY <1>8
  <2>2. QED BY <1>3, <2>1 DEF ResultsInv, HistoryInv
<1>11. QED BY <1>3, <1>7, <1>9, <1>10 DEF HistoryInv

\* No time is known.
LEMMA NoTimeIs == NoTime \in [valid : BOOLEAN, segment : Int, ticks : Int] /\ ~NoTime.valid
BY DEF NoTime

\* A layout keeps the histories: the PIDs it changes get a cut.
LEMMA LayoutCounts ==
  ASSUME ResultsInv, offset' = offset + 1, NEW types \in Layouts, ObserveProgramLayout(types)
  PROVE  HistoryInv'
<1> DEFINE current == {p \in Pids : types[p] # "none"}
           e == Entry("layout", NoTime, FALSE, FALSE)
<1>1. /\ offset \in Nat /\ DOMAIN streams \subseteq Pids /\ DOMAIN history = Pids
      /\ time \in [Pids -> [segment : Int, ticks : Int]]
      /\ \A q \in Pids : HistoryOK(history[q], time[q], offset)
      /\ \A q \in DOMAIN streams : /\ StreamOK(streams[q]) /\ InTime(streams[q], time[q], offset)
                                   /\ Counts(streams[q], history[q])
      /\ \A q \in Pids \ DOMAIN streams : history[q] = <<>>
  BY DEF ResultsInv, CheckInv, HistoryInv
<1>2. /\ streams' = [p \in DOMAIN streams \cup current |->
                       IF p \in current THEN Announced(p, types[p]) ELSE Removed(streams[p])]
      /\ history' = [p \in Pids |-> IF Changes(p, types) THEN Append(history[p], e) ELSE history[p]]
      /\ time' = time
  BY DEF ObserveProgramLayout
<1>3. e \in HistoryEntry /\ e.kind = "layout" /\ e.offset = offset + 1
  <2>1. "layout" \in EntryKinds
    BY DEF EntryKinds
  <2>2. QED BY <1>1, <2>1, NoTimeIs DEF Entry, HistoryEntry
<1> HIDE DEF e
<1>4. /\ DOMAIN streams' = DOMAIN streams \cup current
      /\ \A p \in current : streams'[p] = Announced(p, types[p])
      /\ \A p \in DOMAIN streams \ current : streams'[p] = Removed(streams[p])
      /\ DOMAIN history' = Pids
      /\ \A p \in Pids : Changes(p, types) => history'[p] = Append(history[p], e)
      /\ \A p \in Pids : ~Changes(p, types) => history'[p] = history[p]
  BY <1>2
<1>5. \A p \in current : p \in Pids /\ types[p] # "none"
  OBVIOUS
<1>6. \A p \in Pids \ current : types[p] = "none"
  OBVIOUS
<1> HIDE DEF current
<1>7. ASSUME NEW p \in Pids
      PROVE  LET h2 == Append(history[p], e)
                 n  == Len(history[p]) + 1
             IN HistoryOK(h2, time[p], offset + 1) /\ Longer(history[p], h2, n) /\ h2[n] = e
  <2> DEFINE h == history[p]
  <2>1. HistoryOK(h, time[p], offset) /\ time[p] \in [segment : Int, ticks : Int] /\ ~IsPoint(e)
    BY <1>1, <1>3 DEF IsPoint
  <2> HIDE DEF h
  <2>2. time[p].segment <= time[p].segment /\ time[p].ticks <= time[p].ticks
    BY <2>1
  <2>3. HistoryOK(Append(h, e), time[p], offset + 1) /\ Longer(h, Append(h, e), Len(h) + 1)
        /\ Append(h, e)[Len(h) + 1] = e
    BY <1>1, <1>3, <2>1, <2>2, HistoryGrows
  <2>4. QED BY <2>3 DEF h
<1>8. ASSUME NEW p \in Pids PROVE HistoryOK(history'[p], time'[p], offset')
  <2>1. CASE Changes(p, types)
    BY <1>2, <1>4, <1>7, <2>1
  <2>2. CASE ~Changes(p, types)
    <3>1. HistoryOK(history[p], time[p], offset + 1)
      BY <1>1, HistoryKept
    <3>2. QED BY <1>2, <1>4, <2>2, <3>1
  <2>3. QED BY <2>1, <2>2
<1>9. ASSUME NEW p \in DOMAIN streams PROVE Counts(streams'[p], history'[p])
  <2> DEFINE a == streams[p]
             h == history[p]
             h2 == Append(h, e)
             n == Len(h) + 1
  <2>1. /\ p \in Pids /\ StreamOK(a) /\ InTime(a, time[p], offset) /\ Counts(a, h)
        /\ HistoryOK(h, time[p], offset)
    BY <1>1
  <2>2. Longer(h, h2, n) /\ h2[n].kind # "pes"
    BY <1>3, <1>7, <2>1
  <2>3. a.active \in BOOLEAN => (Changes(p, types) <=> types[p] # IF a.active THEN a.type ELSE "none")
    BY DEF Changes
  <2>4. CASE p \in current
    <3>1. streams'[p] = Announced(p, types[p]) /\ types[p] # "none"
      BY <1>4, <1>5, <2>4
    <3>2. /\ a.active /\ a.type = types[p] => Counts(Announced(p, types[p]), h)
          /\ ~(a.active /\ a.type = types[p]) => Counts(Announced(p, types[p]), h2)
      <4> HIDE DEF h, h2, n
      <4> QED BY <2>1, <2>2, AnnouncedCounts
    <3>3. Changes(p, types) <=> ~(a.active /\ a.type = types[p])
      BY <3>1 DEF Changes
    <3>4. (Changes(p, types) => history'[p] = h2) /\ (~Changes(p, types) => history'[p] = h)
      BY <1>4, <2>1
    <3> HIDE DEF a, h, h2
    <3>5. QED BY <3>1, <3>2, <3>3, <3>4
  <2>5. CASE p \notin current
    <3>1. streams'[p] = Removed(a) /\ types[p] = "none"
      BY <1>4, <1>6, <2>1, <2>5
    <3>2. (~a.active \/ ~a.open => Counts(Removed(a), h)) /\ (a.active => Counts(Removed(a), h2))
      <4> HIDE DEF a, h, h2, n
      <4> QED BY <2>1, <2>2, RemovedCounts
    <3>3. Changes(p, types) <=> a.active /\ a.type # "none"
      BY <3>1 DEF Changes
    <3>4. (Changes(p, types) => history'[p] = h2) /\ (~Changes(p, types) => history'[p] = h)
      BY <1>4, <2>1
    <3>5. a.type = "none" => ~a.open
      BY <2>1 DEF InTime, IsVideoOrAudio
    <3> HIDE DEF a, h, h2
    <3>6. QED BY <3>1, <3>2, <3>3, <3>4, <3>5
  <2>6. QED BY <2>4, <2>5
<1>10. ASSUME NEW p \in DOMAIN streams' \ DOMAIN streams PROVE Counts(streams'[p], history'[p])
  <2>1. p \in current /\ p \in Pids /\ p \notin DOMAIN streams
    BY <1>4, <1>5
  <2>2. streams'[p] = Announced(p, types[p]) /\ history'[p] = <<>>
    BY <1>1, <1>4, <2>1 DEF Changes
  <2>3. QED BY <2>1, <2>2, NewStreamCounts
<1>11. ASSUME NEW p \in Pids \ DOMAIN streams' PROVE history'[p] = <<>>
  BY <1>1, <1>4 DEF Changes
<1>12. QED BY <1>4, <1>8, <1>9, <1>10, <1>11 DEF HistoryInv

\* So does a PES packet with a valid header.
LEMMA GoodHeaderKeeps ==
  ASSUME ResultsInv, offset' = offset + 1, NEW p \in DOMAIN streams, NEW hasPTS \in BOOLEAN,
         NEW at \in NextTimes(p), ObserveGoodHeader(p, hasPTS, at)
  PROVE  HistoryInv'
<1> DEFINE a == streams[p]
           applies == IsVideoOrAudio(a.type)
           e == Entry("pes", at, hasPTS, applies)
           b == GoodHeader(a, hasPTS, at, offset + 1)
           h == history[p]
           h2 == Append(h, e)
           n == Len(h) + 1
<1>1. /\ offset \in Nat /\ p \in Pids /\ StreamOK(a) /\ InTime(a, time[p], offset) /\ Counts(a, h)
      /\ time \in [Pids -> [segment : Int, ticks : Int]] /\ time[p] \in [segment : Int, ticks : Int]
      /\ HistoryOK(h, time[p], offset)
  BY DEF ResultsInv, CheckInv, HistoryInv
<1>2. /\ at \in [valid : BOOLEAN, segment : Int, ticks : Int]
      /\ at.valid => /\ time[p].segment <= at.segment
                     /\ time[p].segment = at.segment => time[p].ticks <= at.ticks
  <2>1. CASE at = NoTime
    BY <2>1, NoTimeIs
  <2>2. CASE at = [valid |-> TRUE, segment |-> time[p].segment + 1, ticks |-> 0]
    BY <1>1, <2>2
  <2>3. ASSUME NEW g \in Gaps,
               at = [valid |-> TRUE, segment |-> time[p].segment, ticks |-> time[p].ticks + g]
        PROVE  /\ at \in [valid : BOOLEAN, segment : Int, ticks : Int]
               /\ at.valid => /\ time[p].segment <= at.segment
                              /\ time[p].segment = at.segment => time[p].ticks <= at.ticks
    <3>1. g \in Nat
      BY CheckAssumption
    <3>2. QED BY <1>1, <2>3, <3>1
  <2>4. QED BY <2>1, <2>2, <2>3 DEF NextTimes
<1>3. /\ streams' = [streams EXCEPT ![p] = b]
      /\ time' = IF at.valid THEN [time EXCEPT ![p] = [segment |-> at.segment, ticks |-> at.ticks]]
                             ELSE time
      /\ Noted(p, e)
  BY DEF ObserveGoodHeader
<1>4. /\ time' \in [Pids -> [segment : Int, ticks : Int]]
      /\ \A q \in Pids : q # p => time'[q] = time[q]
      /\ at.valid => time'[p].segment = at.segment /\ time'[p].ticks = at.ticks
      /\ ~at.valid => time'[p] = time[p]
  BY <1>1, <1>2, <1>3
<1>5. /\ time[p].segment <= time'[p].segment
      /\ time[p].segment = time'[p].segment => time[p].ticks <= time'[p].ticks
  <2>1. CASE at.valid
    BY <1>2, <1>4, <2>1
  <2>2. CASE ~at.valid
    BY <1>1, <1>4, <2>2
  <2>3. QED BY <2>1, <2>2
<1>6. applies \in BOOLEAN
  BY DEF IsVideoOrAudio
<1>7. /\ e \in HistoryEntry /\ e.kind = "pes" /\ e.offset = offset + 1 /\ e.at = at
      /\ e.pts = hasPTS /\ e.applies = applies
  <2> HIDE DEF applies
  <2>1. "pes" \in EntryKinds
    BY DEF EntryKinds
  <2>2. QED BY <1>1, <1>2, <1>6, <2>1 DEF Entry, HistoryEntry
<1>8. IsPoint(e) => e.at.segment = time'[p].segment /\ e.at.ticks = time'[p].ticks
  <2> HIDE DEF e
  <2>1. QED BY <1>4, <1>7 DEF IsPoint
<1>9. ASSUME HistoryOK(h2, time'[p], offset + 1), Longer(h, h2, n), h2[n] = e
      PROVE  Counts(b, h2)
  <2>1. time[p].segment \in Int /\ offset + 1 \in Nat /\ h2[n].offset = offset + 1
    BY <1>1, <1>7, <1>9
  <2>2. InTime(a, time[p], offset + 1)
    <3>1. SameIntervals(a, a) /\ SameTags(a, a)
      BY DEF SameIntervals, SameProgress, SameTags
    <3> HIDE DEF a
    <3>2. QED BY <1>1, <3>1, InTimeLater
  <2>3. /\ h2[n].pts = hasPTS /\ h2[n].kind = "pes" /\ h2[n].applies = IsVideoOrAudio(a.type)
        /\ h2[n].at = at
    BY <1>7, <1>9
  <2>4. at.valid => time[p].segment <= at.segment
    BY <1>2
  <2> HIDE DEF a, e, h, h2, n, applies, b
  <2>5. Counts(GoodHeader(a, hasPTS, at, offset + 1), h2)
    BY <1>1, <1>9, <2>1, <2>2, <2>3, <2>4, GoodHeaderCounts
  <2>6. QED BY <2>5 DEF b
<1> HIDE DEF b, e
<1>10. QED BY <1>1, <1>3, <1>4, <1>5, <1>7, <1>8, <1>9, OnePidCounts

\* So does an entry of no time, with a step that counts it.
LEMMA CutKeeps ==
  ASSUME ResultsInv, offset' = offset + 1, NEW p \in DOMAIN streams, NEW b, NEW kind \in EntryKinds,
         kind # "pes", Noted(p, Entry(kind, NoTime, FALSE, FALSE)),
         streams' = [streams EXCEPT ![p] = b], time' = time,
         \A h2, n : Longer(history[p], h2, n) /\ h2[n].kind # "pes" => Counts(b, h2)
  PROVE  HistoryInv'
<1> DEFINE e == Entry(kind, NoTime, FALSE, FALSE)
<1>1. /\ offset \in Nat /\ p \in Pids
      /\ time \in [Pids -> [segment : Int, ticks : Int]] /\ time[p] \in [segment : Int, ticks : Int]
  BY DEF ResultsInv, CheckInv
<1>2. e \in HistoryEntry /\ e.kind = kind /\ e.offset = offset + 1
  BY <1>1, NoTimeIs DEF Entry, HistoryEntry
<1>3. Noted(p, e)
  OBVIOUS
<1> HIDE DEF e
<1>4. ~IsPoint(e)
  BY <1>2 DEF IsPoint
<1>5. /\ time' \in [Pids -> [segment : Int, ticks : Int]] /\ \A q \in Pids : q # p => time'[q] = time[q]
      /\ time[p].segment <= time'[p].segment /\ time[p].ticks <= time'[p].ticks
  BY <1>1
<1>6. Longer(history[p], Append(history[p], e), Len(history[p]) + 1)
        /\ Append(history[p], e)[Len(history[p]) + 1] = e
      => Counts(b, Append(history[p], e))
  BY <1>2
<1>7. QED BY <1>2, <1>3, <1>4, <1>5, <1>6, OnePidCounts

\* Nothing has been observed to begin with.
LEMMA InitEstablishesResultsInv == CheckInit => ResultsInv
<1> SUFFICES ASSUME CheckInit PROVE ResultsInv
  OBVIOUS
<1>1. CheckInv
  BY InitEstablishesCheckInv
<1>2. /\ DOMAIN streams = {} /\ history = [p \in Pids |-> <<>>] /\ offset = 0
  BY DEF CheckInit
<1>3. ASSUME NEW t PROVE HistoryOK(<<>>, t, 0)
  <2>1. Points(<<>>) = {}
    BY DEF Points
  <2>2. <<>> \in Seq(HistoryEntry) /\ DOMAIN <<>> = {}
    OBVIOUS
  <2>3. QED BY <2>1, <2>2 DEF HistoryOK
<1>4. HistoryInv
  BY <1>2, <1>3 DEF HistoryInv
<1>5. QED BY <1>1, <1>4 DEF ResultsInv

\* Every step keeps the invariant.
LEMMA NextKeepsResultsInv == ResultsInv /\ [CheckNext]_checkVars => ResultsInv'
<1> SUFFICES ASSUME ResultsInv, [CheckNext]_checkVars PROVE ResultsInv'
  OBVIOUS
<1>1. CheckInv'
  BY NextKeepsCheckInv DEF ResultsInv
<1>2. CASE CheckNext
  <2>1. offset' = offset + 1
    BY <1>2 DEF CheckNext
  <2>2. ASSUME NEW types \in Layouts, ObserveProgramLayout(types) PROVE HistoryInv'
    BY <2>1, <2>2, LayoutCounts
  <2>3. ASSUME NEW p \in {q \in DOMAIN streams : streams[q].active},
               NEW hasPTS \in BOOLEAN, NEW at \in NextTimes(p), ObserveGoodHeader(p, hasPTS, at)
        PROVE  HistoryInv'
    <3>1. p \in DOMAIN streams
      OBVIOUS
    <3>2. QED BY <2>1, <2>3, <3>1, GoodHeaderKeeps
  <2>4. ASSUME NEW p \in DOMAIN streams
        PROVE  /\ StreamOK(streams[p]) /\ Counts(streams[p], history[p])
               /\ HistoryOK(history[p], time[p], offset)
    BY DEF ResultsInv, CheckInv, HistoryInv
  <2>5. ASSUME NEW p \in {q \in DOMAIN streams : streams[q].active},
               NEW problem \in HeaderProblems, ObserveBadHeader(p, problem)
        PROVE  HistoryInv'
    <3> DEFINE b == BadHeader(streams[p], problem, offset + 1)
    <3>1. p \in DOMAIN streams /\ problem \in EntryKinds /\ problem # "pes"
      BY DEF EntryKinds, HeaderProblems
    <3>2. /\ streams' = [streams EXCEPT ![p] = b] /\ time' = time
          /\ Noted(p, Entry(problem, NoTime, FALSE, FALSE))
      BY <2>5 DEF ObserveBadHeader
    <3>3. \A h2, n : Longer(history[p], h2, n) /\ h2[n].kind # "pes" => Counts(b, h2)
      BY <2>4, <3>1, BadHeaderCounts
    <3> HIDE DEF b
    <3>4. QED BY <2>1, <3>1, <3>2, <3>3, CutKeeps
  <2>6. ASSUME NEW p \in {q \in DOMAIN streams : streams[q].active},
               NEW cause \in BreakCauses, ObserveBreak(p, cause)
        PROVE  HistoryInv'
    <3> DEFINE b == Broken(streams[p], cause)
    <3>1. p \in DOMAIN streams /\ cause \in EntryKinds /\ cause # "pes"
      BY DEF EntryKinds, BreakCauses
    <3>2. /\ streams' = [streams EXCEPT ![p] = b] /\ time' = time
          /\ Noted(p, Entry(cause, NoTime, FALSE, FALSE))
      BY <2>6 DEF ObserveBreak
    <3>3. \A h2, n : Longer(history[p], h2, n) /\ h2[n].kind # "pes" => Counts(b, h2)
      BY <2>4, <3>1, BrokenCounts
    <3> HIDE DEF b
    <3>4. QED BY <2>1, <3>1, <3>2, <3>3, CutKeeps
  <2>7. HistoryInv'
    BY <1>2, <2>2, <2>3, <2>5, <2>6 DEF CheckNext
  <2>8. QED BY <1>1, <2>7 DEF ResultsInv
<1>3. CASE UNCHANGED checkVars
  <2>1. HistoryInv'
    BY <1>3 DEF ResultsInv, HistoryInv, checkVars
  <2>2. QED BY <1>1, <2>1 DEF ResultsInv
<1>4. QED BY <1>2, <1>3

\* The invariant holds throughout: what is recorded of a PID is every interval of its
\* history but the one in progress.
THEOREM ResultsInvHolds == CheckSpec => []ResultsInv
<1>1. CheckInit => ResultsInv
  BY InitEstablishesResultsInv
<1>2. ResultsInv /\ [CheckNext]_checkVars => ResultsInv'
  BY NextKeepsResultsInv
<1>3. QED BY <1>1, <1>2, PTL DEF CheckSpec

-------------------------------------------------------------------------------
(* What is reported of one PID.                                              *)

\* A least integer is the minimum.
LEMMA LeastIsMin ==
  ASSUME NEW T \in SUBSET Int, NEW m \in T, \A k \in T : m <= k
  PROVE  Min(T) = m
<1>1. \A x \in T : (\A y \in T : x <= y) => x = m
  <2> TAKE x \in T
  <2> HAVE \A y \in T : x <= y
  <2>1. x <= m /\ m <= x /\ x \in Int /\ m \in Int
    OBVIOUS
  <2>2. QED BY <2>1
<1>2. QED BY <1>1 DEF Min

\* A greatest integer is the maximum.
LEMMA GreatestIsMax ==
  ASSUME NEW T \in SUBSET Int, NEW m \in T, \A k \in T : k <= m
  PROVE  Max(T) = m
<1>1. \A x \in T : (\A y \in T : x >= y) => x = m
  <2> TAKE x \in T
  <2> HAVE \A y \in T : x >= y
  <2>1. x >= m /\ m >= x /\ x \in Int /\ m \in Int
    OBVIOUS
  <2>2. QED BY <2>1
<1>2. \A y \in T : m >= y
  OBVIOUS
<1>3. QED BY <1>1, <1>2 DEF Max

\* The intervals counted are those of the definition.
ReportOf(r, h) ==
  /\ r.intervals = Cardinality(MeasuredIntervals(h)) /\ r.exceeded = Cardinality(TooLong(h))
  /\ r.first = EarliestTooLong(h)
  /\ r.max.valid => r.max.ticks = Longest(h)
  /\ ~r.max.valid => Longest(h) = -1

\* A result is that of the intervals reported.
LEMMA ReportIs ==
  ASSUME NEW st, StreamOK(st)
  PROVE  LET r == RepetitionResult(st) IN
         /\ r.intervals = st.intervals /\ r.exceeded = Reported(st).exceeded
         /\ r.first = Reported(st).firstOver /\ r.max = Reported(st).max
         /\ r.status = "ok" => st.intervals > 0
<1> DEFINE ended == Pending(st).valid /\ Over(Pending(st))
           d == IF ended THEN Record(st, Pending(st)) ELSE st
           r == RepetitionResult(st)
<1>1. d = Reported(st)
  BY PendingIs DEF Reported
<1>2. /\ r.intervals = st.intervals /\ r.exceeded = d.exceeded
      /\ r.first = d.firstOver /\ r.max = d.max
  BY DEF RepetitionResult
<1>3. r.status = IF ~st.applicable THEN "skipped" ELSE IF d.exceeded > 0 THEN "ng"
                 ELSE IF st.intervals > 0 THEN "ok" ELSE "insufficient_data"
  BY DEF RepetitionResult
<1> HIDE DEF d, r
<1>4. r.status = "ok" => st.intervals > 0
  BY <1>3
<1>5. QED BY <1>1, <1>2, <1>4 DEF r

\* What a tally says is what the definition says.
LEMMA TallyDefines ==
  ASSUME NEW st, NEW h, NEW t, NEW now, HistoryOK(h, t, now),
         TallyOf(st, h, MeasuredIntervals(h), TooLong(h))
  PROVE  /\ st.firstOver = EarliestTooLong(h)
         /\ st.max.valid => st.max.ticks = Longest(h) /\ Longest(h) \in Nat
         /\ ~st.max.valid => Longest(h) = -1
<1> DEFINE M == MeasuredIntervals(h)
           T == TooLong(h)
           offsets == {h[pair[2]].offset : pair \in T}
           ticks == {Ticks(h, pair) : pair \in M \cup T}
<1>1. M \cup T \subseteq Known(h)
  BY PairsAre DEF Known
<1>2. \A x \in M \cup T : Ticks(h, x) \in Nat /\ h[x[2]].offset \in Nat
  BY <1>1, PairsOf
<1>3. st.firstOver = EarliestTooLong(h)
  <2>1. EarliestTooLong(h) = IF T = {} THEN 0 ELSE Min(offsets)
    BY DEF EarliestTooLong
  <2>2. CASE T = {}
    BY <2>1, <2>2 DEF TallyOf
  <2>3. CASE T # {}
    <3>1. PICK x \in T : st.firstOver = h[x[2]].offset
      BY <2>3 DEF TallyOf
    <3>2. \A y \in T : st.firstOver <= h[y[2]].offset
      BY <2>3 DEF TallyOf
    <3>3. st.firstOver \in offsets /\ \A k \in offsets : st.firstOver <= k
      BY <3>1, <3>2
    <3>4. offsets \in SUBSET Int
      BY <1>2
    <3> HIDE DEF offsets
    <3>5. Min(offsets) = st.firstOver
      BY <3>3, <3>4, LeastIsMin
    <3>6. QED BY <2>1, <2>3, <3>5
  <2>4. QED BY <2>2, <2>3
<1>4. Longest(h) = IF ticks = {} THEN -1 ELSE Max(ticks)
  BY DEF Longest
<1>5. CASE st.max.valid
  <2>1. PICK x \in M \cup T : st.max.ticks = Ticks(h, x)
    BY <1>5 DEF TallyOf
  <2>2. \A y \in M \cup T : Ticks(h, y) <= st.max.ticks
    BY <1>5 DEF TallyOf
  <2>3. st.max.ticks \in ticks /\ \A k \in ticks : k <= st.max.ticks
    BY <2>1, <2>2
  <2>4. ticks \in SUBSET Int /\ st.max.ticks \in Nat
    BY <1>2, <2>1
  <2> HIDE DEF ticks
  <2>5. Max(ticks) = st.max.ticks
    BY <2>3, <2>4, GreatestIsMax
  <2>6. QED BY <1>3, <1>4, <1>5, <2>3, <2>4, <2>5
<1>6. CASE ~st.max.valid
  <2>1. M \cup T = {}
    BY <1>6 DEF TallyOf
  <2>2. ticks = {}
    BY <2>1
  <2>3. QED BY <1>3, <1>4, <1>6, <2>2
<1>7. QED BY <1>5, <1>6

\* The result of a PID is that of its history.
LEMMA ResultOfHistory ==
  ASSUME ResultsInv, NEW p \in DOMAIN streams
  PROVE  LET r == RepetitionResult(streams[p])
             h == history[p]
         IN /\ ReportOf(r, h)
            /\ IsFiniteSet(MeasuredIntervals(h)) /\ IsFiniteSet(TooLong(h))
            /\ r.max.valid \in BOOLEAN /\ (r.max.valid => r.max.ticks \in Nat)
            /\ r.status = "ok" => MeasuredIntervals(h) # {}
<1> DEFINE st == streams[p]
           h == history[p]
           r == RepetitionResult(st)
           d == Reported(st)
<1>1. StreamOK(st) /\ HistoryOK(h, time[p], offset) /\ Counts(st, h)
  BY DEF ResultsInv, CheckInv, HistoryInv
<1> HIDE DEF st, h
<1>2. TallyOf(d, h, MeasuredIntervals(h), TooLong(h)) /\ d.intervals = st.intervals
  BY <1>1, ReportedTally
<1>3. StreamOK(d)
  BY <1>1, ReportedIs
<1>4. /\ r.intervals = st.intervals /\ r.exceeded = d.exceeded
      /\ r.first = d.firstOver /\ r.max = d.max
      /\ r.status = "ok" => st.intervals > 0
  BY <1>1, ReportIs
<1> HIDE DEF r, d
<1>5. /\ d.firstOver = EarliestTooLong(h)
      /\ d.max.valid => d.max.ticks = Longest(h) /\ Longest(h) \in Nat
      /\ ~d.max.valid => Longest(h) = -1
  BY <1>1, <1>2, TallyDefines
<1>6. /\ d.intervals = Cardinality(MeasuredIntervals(h)) /\ d.exceeded = Cardinality(TooLong(h))
      /\ IsFiniteSet(MeasuredIntervals(h)) /\ IsFiniteSet(TooLong(h))
  BY <1>2 DEF TallyOf
<1>7. ReportOf(r, h)
  BY <1>2, <1>4, <1>5, <1>6 DEF ReportOf
<1>8. r.status = "ok" => MeasuredIntervals(h) # {}
  <2>1. Cardinality({}) = 0
    BY FS_EmptySet
  <2>2. QED BY <1>2, <1>4, <1>6, <2>1
<1>9. r.max.valid \in BOOLEAN /\ (r.max.valid => r.max.ticks \in Nat)
  <2>1. d.max.valid \in BOOLEAN
    BY <1>3 DEF StreamOK
  <2>2. d.max.valid => d.max.ticks \in Nat
    BY <1>5
  <2>3. QED BY <1>4, <2>1, <2>2, Zenon
<1>10. QED BY <1>6, <1>7, <1>8, <1>9 DEF st, h, r

\* The invariant gives the results of each PID.
LEMMA RepetitionFollows == ResultsInv => RepetitionAsDefined
<1> SUFFICES ASSUME ResultsInv, NEW p \in DOMAIN streams
    PROVE  LET h == history[p]
               r == RepetitionResult(streams[p])
           IN /\ r.intervals = Cardinality(MeasuredIntervals(h))
              /\ r.exceeded = Cardinality(TooLong(h))
              /\ r.first = EarliestTooLong(h)
              /\ IF r.max.valid THEN r.max.ticks = Longest(h) ELSE Longest(h) = -1
  BY DEF RepetitionAsDefined
<1>1. ReportOf(RepetitionResult(streams[p]), history[p])
  BY ResultOfHistory
<1>2. QED BY <1>1 DEF ReportOf

-------------------------------------------------------------------------------
(* The totals of all PIDs.                                                   *)

\* The sums of f over the subsets of S, one element after another.
Sums(g, f, S) ==
  \A s \in SUBSET S : g[s] = IF s = {} THEN 0 ELSE f[TakenFirst(s)] + g[s \ {TakenFirst(s)}]

\* There are such sums.
LEMMA SumsExist ==
  ASSUME NEW S, IsFiniteSet(S), NEW f \in [S -> Nat]
  PROVE  \E g \in [SUBSET S -> Nat] : Sums(g, f, S)
<1> DEFINE step == [x \in S |-> [v \in Nat |-> f[x] + v]]
<1>1. step \in [S -> [Nat -> Nat]] /\ 0 \in Nat
  OBVIOUS
<1>2. PICK g \in [SUBSET S -> Nat] : IsFold(g, 0, step, S)
  <2> HIDE DEF step
  <2> QED BY <1>1, FoldExists
<1>3. ASSUME NEW s \in SUBSET S, s # {}
      PROVE  g[s] = f[TakenFirst(s)] + g[s \ {TakenFirst(s)}]
  <2> DEFINE x == TakenFirst(s)
             u == s \ {x}
  <2>1. x \in S /\ u \in SUBSET S
    BY <1>3, TakenOut
  <2>2. g[s] = step[x][g[u]]
    BY <1>2, <1>3 DEF IsFold
  <2> HIDE DEF x, u
  <2>3. g[s] = f[x] + g[u]
    BY <2>1, <2>2
  <2>4. QED BY <2>3 DEF x, u
<1>4. g[{}] = 0
  BY <1>2 DEF IsFold
<1>5. QED BY <1>2, <1>3, <1>4 DEF Sums

\* There is one, and it is positive when an element is.
LEMMA SumsAre ==
  ASSUME NEW S, IsFiniteSet(S), NEW f \in [S -> Nat], NEW g, Sums(g, f, S), NEW k, Sums(k, f, S)
  PROVE  /\ g[S] = k[S] /\ g[S] \in Nat /\ (g[S] > 0 <=> \E x \in S : f[x] > 0)
<1> DEFINE T == {s \in SUBSET S : /\ g[s] = k[s] /\ g[s] \in Nat
                                  /\ g[s] > 0 <=> \E x \in s : f[x] > 0}
<1>1. {} \in T
  BY DEF Sums
<1>2. ASSUME NEW s \in SUBSET S, s # {}, s \ {TakenFirst(s)} \in T
      PROVE  s \in T
  <2> DEFINE x == TakenFirst(s)
             u == s \ {x}
  <2>1. x \in S /\ x \in s /\ f[x] \in Nat
    <3>1. x \in S /\ x \in s
      BY <1>2, TakenOut
    <3>2. QED BY <3>1
  <2>2. g[s] = f[x] + g[u] /\ k[s] = f[x] + k[u]
    BY <1>2 DEF Sums
  <2>3. g[u] = k[u] /\ g[u] \in Nat /\ (g[u] > 0 <=> \E y \in u : f[y] > 0)
    BY <1>2
  <2> HIDE DEF x
  <2>4. \A y : y \in s <=> y \in u \/ y = x
    BY <2>1
  <2> HIDE DEF u
  <2>5. g[s] > 0 <=> f[x] > 0 \/ g[u] > 0
    BY <2>1, <2>2, <2>3
  <2>6. (\E y \in s : f[y] > 0) <=> f[x] > 0 \/ \E y \in u : f[y] > 0
    BY <2>4
  <2>7. g[s] = k[s] /\ g[s] \in Nat
    BY <2>1, <2>2, <2>3
  <2>8. QED BY <2>3, <2>5, <2>6, <2>7
<1>3. \A s \in SUBSET S : s \in T
  <2> HIDE DEF T
  <2> QED BY <1>1, <1>2, SubsetInduction
<1>4. S \in T
  BY <1>3
<1>5. QED BY <1>4

\* The two totals of the intervals above the limit, as folds over the PIDs.
AddsExceeded(g, results, S) ==
  g = [s \in SUBSET S |->
         IF s = {} THEN 0 ELSE results[CHOOSE x \in s : TRUE].exceeded + g[s \ {CHOOSE x \in s : TRUE}]]

ExceededSum(results, S) == (CHOOSE g : AddsExceeded(g, results, S))[S]

AddsTooLong(g, S) ==
  g = [s \in SUBSET S |->
         IF s = {} THEN 0
         ELSE Cardinality(TooLong(history[CHOOSE x \in s : TRUE])) + g[s \ {CHOOSE x \in s : TRUE}]]

TooLongSum(S) == (CHOOSE g : AddsTooLong(g, S))[S]

\* They are the same sum.
LEMMA TotalsAgree ==
  ASSUME NEW S, IsFiniteSet(S), NEW results,
         \A p \in S : /\ results[p].exceeded = Cardinality(TooLong(history[p]))
                      /\ Cardinality(TooLong(history[p])) \in Nat
  PROVE  /\ ExceededSum(results, S) = TooLongSum(S)
         /\ ExceededSum(results, S) > 0 <=> \E p \in S : results[p].exceeded > 0
<1> DEFINE f == [p \in S |-> Cardinality(TooLong(history[p]))]
<1>1. f \in [S -> Nat] /\ \A p \in S : f[p] = results[p].exceeded
  OBVIOUS
<1>2. \A p \in S : f[p] = Cardinality(TooLong(history[p]))
  OBVIOUS
<1> HIDE DEF f
<1>3. PICK k \in [SUBSET S -> Nat] : Sums(k, f, S)
  BY <1>1, SumsExist
<1>4. \A s \in SUBSET S : s # {} => TakenFirst(s) \in S /\ s \ {TakenFirst(s)} \in SUBSET S
  BY TakenOut
<1>5. ASSUME NEW g PROVE /\ AddsExceeded(g, results, S) => Sums(g, f, S)
                         /\ AddsTooLong(g, S) => Sums(g, f, S)
  <2> DEFINE byResult(s) == IF s = {} THEN 0 ELSE results[TakenFirst(s)].exceeded + g[s \ {TakenFirst(s)}]
             byHistory(s) == IF s = {} THEN 0
                             ELSE Cardinality(TooLong(history[TakenFirst(s)])) + g[s \ {TakenFirst(s)}]
  <2>1. AddsExceeded(g, results, S) => \A s \in SUBSET S : g[s] = byResult(s)
    BY DEF AddsExceeded, TakenFirst
  <2>2. AddsTooLong(g, S) => \A s \in SUBSET S : g[s] = byHistory(s)
    BY DEF AddsTooLong, TakenFirst
  <2>3. \A s \in SUBSET S : s # {} => results[TakenFirst(s)].exceeded = f[TakenFirst(s)]
                                      /\ Cardinality(TooLong(history[TakenFirst(s)])) = f[TakenFirst(s)]
    BY <1>1, <1>2, <1>4
  <2>4. QED BY <2>1, <2>2, <2>3 DEF Sums
<1>6. AddsExceeded(k, results, S) /\ AddsTooLong(k, S)
  <2> DEFINE r == [s \in SUBSET S |->
                     IF s = {} THEN 0 ELSE results[CHOOSE x \in s : TRUE].exceeded + k[s \ {CHOOSE x \in s : TRUE}]]
             h == [s \in SUBSET S |->
                     IF s = {} THEN 0
                     ELSE Cardinality(TooLong(history[CHOOSE x \in s : TRUE])) + k[s \ {CHOOSE x \in s : TRUE}]]
  <2>1. \A s \in SUBSET S : k[s] = r[s] /\ k[s] = h[s]
    BY <1>1, <1>2, <1>3, <1>4 DEF Sums, TakenFirst
  <2>2. k = r /\ k = h
    BY <2>1
  <2> HIDE DEF r, h
  <2>3. QED BY <2>2 DEF AddsExceeded, AddsTooLong, r, h
<1> DEFINE g1 == CHOOSE g : AddsExceeded(g, results, S)
           g2 == CHOOSE g : AddsTooLong(g, S)
<1>7. AddsExceeded(g1, results, S) /\ AddsTooLong(g2, S)
  BY <1>6
<1>8. ExceededSum(results, S) = g1[S] /\ TooLongSum(S) = g2[S]
  BY DEF ExceededSum, TooLongSum
<1> HIDE DEF g1, g2
<1>9. Sums(g1, f, S) /\ Sums(g2, f, S)
  BY <1>5, <1>7
<1>10. g1[S] = g2[S] /\ (g1[S] > 0 <=> \E x \in S : f[x] > 0)
  BY <1>1, <1>9, SumsAre
<1>11. QED BY <1>1, <1>8, <1>10

\* One of finitely many has the most.
LEMMA MostOf ==
  ASSUME NEW S, IsFiniteSet(S), NEW f \in [S -> Nat], S # {}
  PROVE  \E p \in S : \A q \in S : f[q] <= f[p]
<1> DEFINE T == {s \in SUBSET S : s = {} \/ \E p \in s : \A q \in s : f[q] <= f[p]}
<1>1. {} \in T
  OBVIOUS
<1>2. ASSUME NEW s \in SUBSET S, s # {}, s \ {TakenFirst(s)} \in T
      PROVE  s \in T
  <2> DEFINE x == TakenFirst(s)
             u == s \ {x}
  <2>1. x \in S /\ x \in s
    BY <1>2, TakenOut
  <2>2. u = {} \/ \E p \in u : \A q \in u : f[q] <= f[p]
    BY <1>2
  <2> HIDE DEF x
  <2>3. /\ \A y : y \in s <=> y \in u \/ y = x
        /\ u \subseteq S
    BY <2>1
  <2>4. \A q \in S : f[q] \in Nat
    OBVIOUS
  <2> HIDE DEF u
  <2>5. CASE u = {}
    <3>1. \A q \in s : q = x
      BY <2>3, <2>5
    <3>2. \A q \in s : f[q] <= f[x]
      BY <2>1, <2>4, <3>1
    <3>3. QED BY <2>1, <3>2
  <2>6. CASE \E p \in u : \A q \in u : f[q] <= f[p]
    <3>1. PICK p \in u : \A q \in u : f[q] <= f[p]
      BY <2>6
    <3>2. p \in s /\ f[p] \in Nat /\ f[x] \in Nat /\ \A q \in u : f[q] \in Nat
      BY <2>1, <2>3, <2>4, <3>1
    <3>3. CASE f[x] <= f[p]
      <4>1. \A q \in s : f[q] <= f[p]
        BY <2>3, <3>1, <3>3
      <4>2. QED BY <3>2, <4>1
    <3>4. CASE f[p] < f[x]
      <4>1. \A q \in u : f[q] <= f[x]
        BY <3>1, <3>2, <3>4
      <4>2. \A q \in s : f[q] <= f[x]
        BY <2>3, <3>2, <4>1
      <4>3. QED BY <2>1, <4>2
    <3>5. QED BY <3>2, <3>3, <3>4
  <2>7. QED BY <2>2, <2>5, <2>6
<1>3. \A s \in SUBSET S : s \in T
  <2> HIDE DEF T
  <2> QED BY <1>1, <1>2, SubsetInduction
<1>4. S \in T
  BY <1>3
<1>5. QED BY <1>4

\* What the totals are read from.
LEMMA TotalIs ==
  ASSUME NEW results
  PROVE  LET total  == SumRepetition(results)
             over   == {p \in DOMAIN results : results[p].exceeded > 0}
             maxima == {results[p].max.ticks : p \in {q \in DOMAIN results : results[q].max.valid}}
         IN /\ total.exceeded = ExceededSum(results, DOMAIN results)
            /\ total.first = IF over = {} THEN 0 ELSE Min({results[p].first : p \in over})
            /\ total.max = IF maxima = {} THEN -1 ELSE Max(maxima)
            /\ total.status = "ng" <=> total.exceeded > 0
            /\ total.status = "ok" => \E p \in DOMAIN results : results[p].status = "ok"
<1> DEFINE total == SumRepetition(results)
           lacking == {p \in DOMAIN results : results[p].status = "insufficient_data"}
<1>1. total.exceeded = ExceededSum(results, DOMAIN results)
  BY DEF SumRepetition, MapThenSumSet, MapThenFoldSet, ExceededSum, AddsExceeded
<1>2. total.status = IF total.exceeded > 0 THEN "ng"
                     ELSE IF \E p \in DOMAIN results : results[p].status = "ok" THEN "ok"
                     ELSE IF lacking # {} THEN "insufficient_data" ELSE "skipped"
  BY DEF SumRepetition
<1>3. total.first = FirstExceeded(results)
  BY DEF SumRepetition
<1>4. total.max = LET maxima == {results[p].max.ticks : p \in {q \in DOMAIN results : results[q].max.valid}}
                  IN IF maxima = {} THEN -1 ELSE Max(maxima)
  BY DEF SumRepetition
<1> HIDE DEF total
<1>5. /\ total.status = "ng" <=> total.exceeded > 0
      /\ total.status = "ok" => \E p \in DOMAIN results : results[p].status = "ok"
  BY <1>2
<1>6. QED BY <1>1, <1>3, <1>4, <1>5 DEF FirstExceeded, total

\* The longest of all is the longest of any.
LEMMA LongestOfAll ==
  ASSUME NEW S, IsFiniteSet(S), NEW results,
         \A p \in S : /\ results[p].max.valid \in BOOLEAN
                      /\ results[p].max.valid => /\ results[p].max.ticks \in Nat
                                                 /\ results[p].max.ticks = Longest(history[p])
                      /\ ~results[p].max.valid => Longest(history[p]) = -1
  PROVE  LET maxima == {results[p].max.ticks : p \in {q \in S : results[q].max.valid}}
         IN (IF maxima = {} THEN -1 ELSE Max(maxima))
              = Max({-1} \cup {Longest(history[p]) : p \in S})
<1> DEFINE V == {q \in S : results[q].max.valid}
           f == [q \in V |-> results[q].max.ticks]
           maxima == {results[p].max.ticks : p \in V}
           all == {-1} \cup {Longest(history[p]) : p \in S}
<1>1. \A p \in S : Longest(history[p]) \in Int
  OBVIOUS
<1>2. all \in SUBSET Int /\ maxima \in SUBSET Int
  BY <1>1
<1>3. CASE V = {}
  <2>1. \A p \in S : Longest(history[p]) = -1
    BY <1>3
  <2>2. -1 \in all /\ \A k \in all : k <= -1
    BY <2>1
  <2>3. maxima = {}
    BY <1>3
  <2> HIDE DEF all, maxima
  <2>4. Max(all) = -1
    BY <1>2, <2>2, GreatestIsMax
  <2>5. QED BY <2>3, <2>4 DEF all, maxima
<1>4. CASE V # {}
  <2>1. IsFiniteSet(V)
    BY FS_Subset
  <2>2. f \in [V -> Nat] /\ \A p \in V : f[p] = results[p].max.ticks
    OBVIOUS
  <2>3. PICK p \in V : \A q \in V : f[q] <= f[p]
    <3> HIDE DEF V, f
    <3> QED BY <1>4, <2>1, <2>2, MostOf
  <2> DEFINE m == results[p].max.ticks
  <2>4. m \in Nat /\ m = Longest(history[p]) /\ \A q \in V : results[q].max.ticks <= m
    BY <2>2, <2>3
  <2>5. m \in maxima /\ \A k \in maxima : k <= m
    BY <2>4
  <2>6. m \in all /\ \A k \in all : k <= m
    <3>1. m \in all
      BY <2>4
    <3>2. ASSUME NEW q \in S PROVE Longest(history[q]) <= m
      <4>1. CASE q \in V
        BY <2>4, <4>1
      <4>2. CASE q \notin V
        BY <2>4, <4>2
      <4>3. QED BY <4>1, <4>2
    <3>3. -1 <= m
      BY <2>4
    <3>4. QED BY <3>1, <3>2, <3>3
  <2> HIDE DEF all, maxima, m
  <2>7. Max(all) = m /\ Max(maxima) = m
    BY <1>2, <2>4, <2>5, <2>6, GreatestIsMax
  <2>8. maxima # {}
    BY <2>5
  <2>9. QED BY <2>7, <2>8 DEF all, maxima
<1>5. QED BY <1>3, <1>4

\* The invariant gives the totals.
LEMMA TotalsFollow == ResultsInv => TotalsAsDefined
<1> SUFFICES ASSUME ResultsInv PROVE TotalsAsDefined
  OBVIOUS
<1> DEFINE S == DOMAIN streams
           results == Results
           total == SumRepetition(results)
           over == {p \in S : TooLong(history[p]) # {}}
<1>1. IsFiniteSet(S)
  <2>1. S \subseteq Pids
    BY DEF ResultsInv, CheckInv
  <2>2. QED BY <2>1, CheckAssumption, FS_Subset
<1>2. DOMAIN results = S /\ \A p \in S : results[p] = RepetitionResult(streams[p])
  BY DEF Results
<1> HIDE DEF results
<1>3. ASSUME NEW p \in S
      PROVE  /\ ReportOf(results[p], history[p])
             /\ IsFiniteSet(TooLong(history[p]))
             /\ results[p].max.valid \in BOOLEAN /\ (results[p].max.valid => results[p].max.ticks \in Nat)
             /\ results[p].status = "ok" => MeasuredIntervals(history[p]) # {}
  BY <1>2, ResultOfHistory
<1>4. ASSUME NEW p \in S
      PROVE  /\ results[p].exceeded = Cardinality(TooLong(history[p]))
             /\ Cardinality(TooLong(history[p])) \in Nat
             /\ results[p].exceeded > 0 <=> TooLong(history[p]) # {}
             /\ results[p].first = EarliestTooLong(history[p])
             /\ results[p].max.valid => results[p].max.ticks = Longest(history[p])
             /\ ~results[p].max.valid => Longest(history[p]) = -1
  <2>1. /\ results[p].exceeded = Cardinality(TooLong(history[p]))
        /\ results[p].first = EarliestTooLong(history[p])
        /\ results[p].max.valid => results[p].max.ticks = Longest(history[p])
        /\ ~results[p].max.valid => Longest(history[p]) = -1
    BY <1>3 DEF ReportOf
  <2>2. /\ Cardinality(TooLong(history[p])) \in Nat
        /\ Cardinality(TooLong(history[p])) = 0 <=> TooLong(history[p]) = {}
    BY <1>3, FS_CardinalityType, FS_EmptySet
  <2>3. QED BY <2>1, <2>2
<1>5. /\ total.exceeded = ExceededSum(results, S)
      /\ total.status = "ng" <=> total.exceeded > 0
      /\ total.status = "ok" => \E p \in S : results[p].status = "ok"
  BY <1>2, TotalIs
<1>6. total.first = IF {p \in S : results[p].exceeded > 0} = {} THEN 0
                    ELSE Min({results[p].first : p \in {q \in S : results[q].exceeded > 0}})
  BY <1>2, TotalIs
<1>7. total.max = Max({-1} \cup {Longest(history[p]) : p \in S})
  <2>1. total.max = LET maxima == {results[p].max.ticks : p \in {q \in S : results[q].max.valid}}
                    IN IF maxima = {} THEN -1 ELSE Max(maxima)
    BY <1>2, TotalIs
  <2> HIDE DEF S, total
  <2>2. QED BY <1>1, <1>3, <1>4, <2>1, LongestOfAll
<1> HIDE DEF total
<1>8. ExceededSum(results, S) = TooLongSum(S) /\ (ExceededSum(results, S) > 0 <=> \E p \in S : results[p].exceeded > 0)
  <2> HIDE DEF S
  <2> QED BY <1>1, <1>4, TotalsAgree
<1>9. {p \in S : results[p].exceeded > 0} = over
  BY <1>4
<1>10. {results[p].first : p \in over} = {EarliestTooLong(history[p]) : p \in over}
  <2>1. \A p \in over : results[p].first = EarliestTooLong(history[p])
    BY <1>4
  <2> HIDE DEF over
  <2>2. QED BY <2>1
<1>11. total.first = IF over = {} THEN 0 ELSE Min({EarliestTooLong(history[p]) : p \in over})
  BY <1>6, <1>9, <1>10
<1>12. total.status = "ng" <=> over # {}
  BY <1>4, <1>5, <1>8
<1>13. total.status = "ok" => \E p \in S : MeasuredIntervals(history[p]) # {}
  BY <1>3, <1>5
<1>14. TooLongSum(S) = MapThenSumSet(LAMBDA p : Cardinality(TooLong(history[p])), S)
  BY DEF TooLongSum, AddsTooLong, MapThenSumSet, MapThenFoldSet
<1>15. total.exceeded = MapThenSumSet(LAMBDA p : Cardinality(TooLong(history[p])), S)
  BY <1>5, <1>8, <1>14
<1>16. QED BY <1>7, <1>11, <1>12, <1>13, <1>15 DEF TotalsAsDefined, total, results

\* What is reported of each PID, and of all together, is what the history of its
\* observations defines, for every limit, layout and sequence of PES packets and breaks.
THEOREM ResultsAreDefined == CheckSpec => []ResultsAsDefined
<1>1. ResultsInv => ResultsAsDefined
  BY RepetitionFollows, TotalsFollow DEF ResultsAsDefined
<1>2. QED BY <1>1, ResultsInvHolds, PTL

-------------------------------------------------------------------------------
(* TimestampAnomaly: what is known of the timestamps sent.                   *)

StepKinds == {"backward", "wraparound", "gap"}

Kinds == StepKinds \cup {"dts_after_pts"}

StampEntry == [what : {"stamp"}, pid : StampPids, late : BOOLEAN, time : Nat]

UntimedEntry == [what : {"untimed"}, pid : StampPids]

LayoutEntry == [what : {"layout"}, pids : SUBSET StampPids]

Sendable == StampEntry \cup UntimedEntry \cup LayoutEntry

Event == [pid : StampPids, pos : Nat, kind : Kinds]

StampState == [last : Nat, untimed : BOOLEAN, minStep : Nat]

\* A timestamp of p is missing since the entry m.
UntimedSince(p, m) == \E k \in m + 1 .. Len(sent) : sent[k].what = "untimed" /\ sent[k].pid = p

\* The steps that set the frame interval of the next step of p.
FrameSteps(p) ==
  {u \in StepsOf(p) : SameRun(p, u[1], Len(sent) + 1) /\ Whole(p, u) /\ Moved(u) > 0}

Frames(p) == {Moved(u) : u \in FrameSteps(p)}

\* The least number of S, or 0 when there is none.
IsLeast(v, S) == IF S = {} THEN v = 0 ELSE v \in S /\ \A x \in S : v <= x

\* m is the last timestamp of p since its state was dropped.
IsLast(p, m) == m \in StampsOf(p) /\ \A k \in StampsOf(p) : k <= m

\* What the state of p knows of the timestamps since the last one, m.
Knows(p, m) ==
  /\ IsLast(p, m)
  /\ states[p].last = sent[m].time % StampWrap
  /\ states[p].untimed <=> UntimedSince(p, m)
  /\ IsLeast(states[p].minStep, Frames(p))

Tracks(p) ==
  /\ p \in DOMAIN states <=> StampsOf(p) # {}
  /\ p \in DOMAIN states => states[p] \in StampState /\ \E m \in StampsOf(p) : Knows(p, m)

\* Where an anomaly of p of one kind was found.
FoundAt(es, p, kind) == {es[i].pos : i \in {k \in DOMAIN es : es[k].pid = p /\ es[k].kind = kind}}

\* Anomalies in the order of their positions, each kind once at a position.
InOrder(es) ==
  \A i, j \in DOMAIN es :
    i < j => es[i].pos < es[j].pos \/ (es[i].pos = es[j].pos /\ es[i].kind # es[j].kind)

\* X is Y with one more element, when there is one.
AddsIf(X, Y, has, x) == X = Y \cup IF has THEN {x} ELSE {}

AllBefore(es, at) == \A i \in DOMAIN es : es[i].pos < at

AnomalyInv ==
  /\ sent \in Seq(Sendable) /\ listed \subseteq StampPids
  /\ DOMAIN states \subseteq StampPids
  /\ \A p \in StampPids : Tracks(p)
  /\ events \in Seq(Event) /\ InOrder(events) /\ AllBefore(events, Len(sent) + 1)
  /\ \A p \in StampPids, kind \in Kinds : FoundAt(events, p, kind) = Defined(p, kind)

-------------------------------------------------------------------------------
(* The arithmetic of the counter.                                            *)

\* Half the period is a whole number above 1.
LEMMA HalfIs == Half \in Nat /\ Half > 1 /\ StampWrap = 2 * Half
BY StampAssumption DEF Half

\* A counter moves as the time does, but for a period when it wraps.
LEMMA CounterMoves ==
  ASSUME NEW t \in Int, NEW d \in Int, -StampWrap < d, d < StampWrap
  PROVE  \/ (t + d) % StampWrap = (t % StampWrap) + d /\ (t + d) \div StampWrap = t \div StampWrap
         \/ /\ (t + d) % StampWrap = (t % StampWrap) + d - StampWrap
            /\ (t + d) \div StampWrap = t \div StampWrap + 1
         \/ /\ (t + d) % StampWrap = (t % StampWrap) + d + StampWrap
            /\ (t + d) \div StampWrap = t \div StampWrap - 1
BY StampAssumption

\* A step of less than half the period is judged by the true times: what it is, and
\* what it makes of the state.
LEMMA StepIsJudged ==
  ASSUME NEW t \in Nat, NEW d \in Int, t + d \in Nat, 2 * d < StampWrap, -2 * d < StampWrap,
         NEW st \in StampState, st.last = t % StampWrap
  PROVE  LET wraps  == (t + d) \div StampWrap > t \div StampWrap
             decode == (t + d) % StampWrap
         IN /\ StepEvents(st, decode) = IF d < 0 THEN {"backward"} ELSE IF wraps THEN {"wraparound"}
                                        ELSE IF IsGap(st, d) THEN {"gap"} ELSE {}
            /\ AfterStep(st, decode) =
                 [last |-> decode, untimed |-> FALSE,
                  minStep |-> IF d >= 0 /\ ~wraps /\ Smaller(st, d) THEN d ELSE st.minStep]
            /\ wraps => d > 0
<1> DEFINE wraps  == (t + d) \div StampWrap > t \div StampWrap
           decode == (t + d) % StampWrap
           raw    == decode - st.last
<1>1. Half \in Nat /\ StampWrap = 2 * Half /\ StampWrap \in Nat
  BY HalfIs
<1>2. /\ t % StampWrap \in Nat /\ t % StampWrap < StampWrap /\ decode \in Nat /\ decode < StampWrap
      /\ (t + d) \div StampWrap \in Int /\ t \div StampWrap \in Int
  BY StampAssumption
<1>3. \/ raw = d /\ ~wraps
      \/ raw = d - StampWrap /\ wraps /\ d > 0
      \/ raw = d + StampWrap /\ ~wraps /\ d < 0
  <2>1. -StampWrap < d /\ d < StampWrap
    BY <1>1
  <2>2. \/ decode = (t % StampWrap) + d /\ (t + d) \div StampWrap = t \div StampWrap
        \/ /\ decode = (t % StampWrap) + d - StampWrap
           /\ (t + d) \div StampWrap = t \div StampWrap + 1
        \/ /\ decode = (t % StampWrap) + d + StampWrap
           /\ (t + d) \div StampWrap = t \div StampWrap - 1
    BY <2>1, CounterMoves
  <2> HIDE DEF decode
  <2>3. QED BY <1>1, <1>2, <2>2
<1> HIDE DEF wraps, decode
<1>4. StepEvents(st, decode) = IF d < 0 THEN {"backward"} ELSE IF wraps THEN {"wraparound"}
                               ELSE IF IsGap(st, d) THEN {"gap"} ELSE {}
  BY <1>1, <1>2, <1>3 DEF StepEvents
<1>5. AfterStep(st, decode) =
        [last |-> decode, untimed |-> FALSE,
         minStep |-> IF d >= 0 /\ ~wraps /\ Smaller(st, d) THEN d ELSE st.minStep]
  <2>1. (raw >= 0 /\ raw < Half) <=> (d >= 0 /\ ~wraps)
    BY <1>1, <1>2, <1>3
  <2>2. d >= 0 /\ ~wraps => raw = d
    BY <1>1, <1>2, <1>3
  <2> HIDE DEF raw
  <2>3. AfterStep(st, decode) =
          [last |-> decode, untimed |-> FALSE,
           minStep |-> IF raw >= 0 /\ raw < Half /\ Smaller(st, raw) THEN raw ELSE st.minStep]
    BY DEF AfterStep, raw
  <2>4. (IF raw >= 0 /\ raw < Half /\ Smaller(st, raw) THEN raw ELSE st.minStep)
          = IF d >= 0 /\ ~wraps /\ Smaller(st, d) THEN d ELSE st.minStep
    BY <2>1, <2>2
  <2>5. QED BY <2>3, <2>4
<1>6. wraps => d > 0
  BY <1>1, <1>2, <1>3
<1>7. QED BY <1>4, <1>5, <1>6 DEF wraps, decode

\* A PTS one tick from its DTS is found to be behind it when it is.
LEMMA LateIsJudged ==
  ASSUME NEW t \in Nat, NEW ahead \in {1, -1}
  PROVE  SignedDelta((t + ahead) % StampWrap, t % StampWrap) < 0 <=> ahead < 0
<1>1. Half \in Nat /\ Half > 1 /\ StampWrap = 2 * Half /\ StampWrap \in Nat
  BY HalfIs
<1> DEFINE a == (t + ahead) % StampWrap
           b == t % StampWrap
<1>2. a \in Nat /\ b \in Nat /\ a < StampWrap /\ b < StampWrap
  BY StampAssumption
<1>3. a = b + ahead \/ a = b + ahead - StampWrap \/ a = b + ahead + StampWrap
  <2>1. -StampWrap < ahead /\ ahead < StampWrap
    BY <1>1
  <2>2. QED BY <2>1, CounterMoves
<1> HIDE DEF a, b
<1>4. SignedDelta(a, b) < 0 <=> ahead < 0
  BY <1>1, <1>2, <1>3 DEF SignedDelta
<1>5. QED BY <1>4 DEF a, b

\* The least number of a set is its minimum.
LEMMA LeastIs ==
  ASSUME NEW S \in SUBSET Int, NEW v, IsLeast(v, S)
  PROVE  (IF S = {} THEN 0 ELSE Min(S)) = v
<1>1. CASE S = {}
  BY <1>1 DEF IsLeast
<1>2. CASE S # {}
  <2>1. v \in S /\ \A y \in S : v <= y
    BY <1>2 DEF IsLeast
  <2>2. Min(S) \in S /\ \A y \in S : Min(S) <= y
    BY <2>1 DEF Min
  <2>3. v <= Min(S) /\ Min(S) <= v /\ v \in Int /\ Min(S) \in Int
    BY <2>1, <2>2
  <2> DEFINE m == Min(S)
  <2> HIDE DEF m
  <2>4. m = v
    BY <2>3 DEF m
  <2>5. QED BY <1>2, <2>4 DEF m
<1>3. QED BY <1>1, <1>2

\* One more number makes it the least when it is smaller.
LEMMA LeastAdds ==
  ASSUME NEW S \in SUBSET Nat, NEW v \in Nat, IsLeast(v, S), \A x \in S : x > 0, NEW d \in Nat, d > 0
  PROVE  IsLeast(IF v = 0 \/ d < v THEN d ELSE v, S \cup {d})
<1>1. CASE S = {}
  <2>1. v = 0 /\ S \cup {d} = {d}
    BY <1>1 DEF IsLeast
  <2>2. QED BY <2>1 DEF IsLeast
<1>2. CASE S # {}
  <2>1. v \in S /\ v > 0 /\ \A x \in S : v <= x
    BY <1>2 DEF IsLeast
  <2>2. QED BY <2>1 DEF IsLeast
<1>3. QED BY <1>1, <1>2

-------------------------------------------------------------------------------
(* What one more entry does to the definition.                               *)

\* e is sent next.
Grown(e) ==
  /\ Len(sent) \in Nat /\ DOMAIN sent = 1 .. Len(sent)
  /\ Len(sent') = Len(sent) + 1 /\ DOMAIN sent' = 1 .. Len(sent) + 1
  /\ \A n \in 1 .. Len(sent) : sent'[n] = sent[n]
  /\ sent'[Len(sent) + 1] = e
  /\ \A n \in 1 .. Len(sent) : IsStamp(n) => sent[n].time \in Nat

\* Sending an entry appends it.
LEMMA SentGrows ==
  ASSUME sent \in Seq(Sendable), NEW e \in Sendable, Sent(e)
  PROVE  Grown(e) /\ sent' \in Seq(Sendable)
<1>1. Len(sent) \in Nat /\ DOMAIN sent = 1 .. Len(sent) /\ sent' = Append(sent, e)
  BY DEF Sent
<1>2. \A n \in 1 .. Len(sent) : IsStamp(n) => sent[n].time \in Nat
  <2> SUFFICES ASSUME NEW n \in 1 .. Len(sent), IsStamp(n) PROVE sent[n].time \in Nat
    OBVIOUS
  <2>1. sent[n] \in Sendable /\ sent[n].what = "stamp"
    BY <1>1 DEF IsStamp
  <2>2. QED BY <2>1 DEF Sendable, StampEntry, UntimedEntry, LayoutEntry
<1>3. QED BY <1>1, <1>2 DEF Grown

\* The steps of a PID that sends no timestamp are the same.
LEMMA SameSteps ==
  ASSUME NEW e, Grown(e), NEW p, ~(e.what = "stamp" /\ e.pid = p)
  PROVE  StepsOf(p)' = StepsOf(p)
BY DEF Grown, StepsOf, SameRun, IsStamp

\* A step lies between two entries.
LEMMA StepIs ==
  ASSUME NEW e, Grown(e), NEW p, NEW s \in StepsOf(p)
  PROVE  /\ s[1] \in 1 .. Len(sent) /\ s[2] \in 1 .. Len(sent) /\ s[1] < s[2] /\ s = <<s[1], s[2]>>
         /\ IsStamp(s[1]) /\ IsStamp(s[2]) /\ sent[s[1]].pid = p /\ sent[s[2]].pid = p
         /\ sent[s[1]].time \in Nat /\ sent[s[2]].time \in Nat /\ Moved(s) \in Int
         /\ SameRun(p, s[1], s[2])
BY DEF Grown, StepsOf, Moved

\* A step stays what it was.
LEMMA StepStays ==
  ASSUME NEW e, Grown(e), NEW p, NEW s \in StepsOf(p)
  PROVE  /\ Moved(s)' = Moved(s) /\ (Wraps(s)' <=> Wraps(s)) /\ (Timed(p, s)' <=> Timed(p, s))
         /\ Whole(p, s)' <=> Whole(p, s)
<1>1. s[1] \in 1 .. Len(sent) /\ s[2] \in 1 .. Len(sent) /\ s[1] < s[2]
  BY StepIs
<1>2. Moved(s)' = Moved(s) /\ (Wraps(s)' <=> Wraps(s))
  BY <1>1 DEF Grown, Moved, Wraps
<1>3. Timed(p, s)' <=> Timed(p, s)
  BY <1>1 DEF Grown, Timed
<1>4. QED BY <1>2, <1>3 DEF Whole

\* So is a run of entries sent before.
LEMMA RunStays ==
  ASSUME NEW e, Grown(e), NEW p, NEW i \in Nat \ {0}, NEW j \in Nat, j <= Len(sent) + 1
  PROVE  SameRun(p, i, j)' <=> SameRun(p, i, j)
BY DEF Grown, SameRun

\* The steps between the entries sent before are the same.
LEMMA StepsKept ==
  ASSUME NEW e, Grown(e), NEW p, NEW i \in 1 .. Len(sent), NEW j \in 1 .. Len(sent)
  PROVE  <<i, j>> \in StepsOf(p)' <=> <<i, j>> \in StepsOf(p)
<1> DEFINE Of(k) == k \in DOMAIN sent /\ IsStamp(k) /\ sent[k].pid = p
<1>1. <<i, j>> \in StepsOf(p) <=>
        Of(i) /\ Of(j) /\ i < j /\ SameRun(p, i, j) /\ ~\E k \in 1 .. Len(sent) : Of(k) /\ i < k /\ k < j
  BY DEF StepsOf, Grown
<1>2. <<i, j>> \in StepsOf(p)' <=>
        /\ Of(i)' /\ Of(j)' /\ i < j /\ SameRun(p, i, j)'
        /\ ~\E k \in 1 .. Len(sent) + 1 : Of(k)' /\ i < k /\ k < j
  BY DEF StepsOf, Grown
<1>3. SameRun(p, i, j)' <=> SameRun(p, i, j)
  BY RunStays DEF Grown
<1>4. \A k \in 1 .. Len(sent) : Of(k)' <=> Of(k)
  BY DEF Grown, IsStamp
<1> HIDE DEF Of
<1>5. Len(sent) \in Nat
  BY DEF Grown
<1>6. (\E k \in 1 .. Len(sent) + 1 : Of(k)' /\ i < k /\ k < j)
        <=> \E k \in 1 .. Len(sent) : Of(k) /\ i < k /\ k < j
  BY <1>4, <1>5
<1>7. QED BY <1>1, <1>2, <1>3, <1>4, <1>6

\* A jump stays one, and no step becomes one, when the steps after it change.
LEMMA JumpStays ==
  ASSUME NEW e, Grown(e), NEW p, NEW s \in StepsOf(p), StepsOf(p) \subseteq StepsOf(p)',
         \A u \in StepsOf(p)' : u \in StepsOf(p) \/ u[2] = Len(sent) + 1
  PROVE  IsJump(p, s)' <=> IsJump(p, s)
<1> DEFINE E == {u \in StepsOf(p) : /\ u[2] <= s[1] /\ SameRun(p, u[1], s[2])
                                   /\ Whole(p, u) /\ Moved(u) > 0}
           D == {Moved(u) : u \in E}
<1>1. s[1] \in 1 .. Len(sent) /\ s[2] \in 1 .. Len(sent) /\ Len(sent) \in Nat
  BY StepIs DEF Grown
<1>2. ASSUME NEW u \in StepsOf(p)
      PROVE  u \in E' <=> u \in E
  <2>1. Moved(u)' = Moved(u) /\ (Whole(p, u)' <=> Whole(p, u)) /\ u[1] \in 1 .. Len(sent)
    BY StepStays, StepIs
  <2>2. SameRun(p, u[1], s[2])' <=> SameRun(p, u[1], s[2])
    BY <1>1, <2>1, RunStays
  <2>3. QED BY <2>1, <2>2
<1>3. ASSUME NEW u \in StepsOf(p)', u \notin StepsOf(p)
      PROVE  u \notin E'
  BY <1>1, <1>3
<1>4. E' = E
  BY <1>2, <1>3
<1>5. \A u \in E : Moved(u)' = Moved(u)
  BY StepStays
<1>6. D' = D
  BY <1>4, <1>5
<1>7. FrameInterval(p, s) = IF D = {} THEN 0 ELSE Min(D)
  BY DEF FrameInterval
<1>8. FrameInterval(p, s)' = IF D' = {} THEN 0 ELSE Min(D')
  BY DEF FrameInterval, Min
<1> HIDE DEF D
<1>9. FrameInterval(p, s)' = FrameInterval(p, s)
  BY <1>6, <1>7, <1>8
<1>10. Moved(s)' = Moved(s) /\ (Whole(p, s)' <=> Whole(p, s))
  BY StepStays
<1>11. QED BY <1>9, <1>10 DEF IsJump

\* What is defined of a PID that sends no timestamp is the same.
LEMMA SameDefined ==
  ASSUME NEW e, Grown(e), NEW p, ~(e.what = "stamp" /\ e.pid = p), NEW kind \in Kinds
  PROVE  Defined(p, kind)' = Defined(p, kind)
<1>1. StepsOf(p)' = StepsOf(p)
  BY SameSteps
<1>2. ASSUME NEW s \in StepsOf(p)
      PROVE  Moved(s)' = Moved(s) /\ (Wraps(s)' <=> Wraps(s)) /\ (IsJump(p, s)' <=> IsJump(p, s))
  BY <1>1, StepStays, JumpStays
<1>3. CASE kind = "backward"
  BY <1>1, <1>2, <1>3 DEF Defined
<1>4. CASE kind = "wraparound"
  BY <1>1, <1>2, <1>4 DEF Defined
<1>5. CASE kind = "gap"
  BY <1>1, <1>2, <1>5 DEF Defined
<1>6. CASE kind = "dts_after_pts"
  <2>1. {n \in DOMAIN sent' : IsStamp(n)' /\ sent'[n].pid = p /\ sent'[n].late}
          = {n \in DOMAIN sent : IsStamp(n) /\ sent[n].pid = p /\ sent[n].late}
    BY DEF Grown, IsStamp
  <2>2. QED BY <1>6, <2>1 DEF Defined
<1>7. QED BY <1>3, <1>4, <1>5, <1>6 DEF Kinds, StepKinds

\* A PID that sends no timestamp and keeps its state is known as before.
LEMMA SameKnown ==
  ASSUME NEW e, Grown(e), NEW p, ~(e.what = "stamp" /\ e.pid = p),
         ~(e.what = "layout" /\ p \in e.pids)
  PROVE  /\ StampsOf(p)' = StampsOf(p) /\ Frames(p)' = Frames(p)
         /\ \A m \in StampsOf(p) :
              /\ sent'[m] = sent[m]
              /\ UntimedSince(p, m)' <=> UntimedSince(p, m) \/ (e.what = "untimed" /\ e.pid = p)
<1>1. StampsOf(p)' = StampsOf(p)
  BY DEF Grown, StampsOf, IsStamp
<1>2. StepsOf(p)' = StepsOf(p)
  BY SameSteps
<1>3. ASSUME NEW u \in StepsOf(p)
      PROVE  Moved(u)' = Moved(u) /\ (u \in FrameSteps(p)' <=> u \in FrameSteps(p))
  <2>1. Moved(u)' = Moved(u) /\ (Whole(p, u)' <=> Whole(p, u)) /\ u[1] \in 1 .. Len(sent)
    BY StepStays, StepIs
  <2>2. SameRun(p, u[1], Len(sent) + 1)' <=> SameRun(p, u[1], Len(sent) + 1)
    BY <2>1 DEF Grown, SameRun
  <2>3. QED BY <1>2, <2>1 DEF Grown, FrameSteps, SameRun
<1>4. FrameSteps(p)' = FrameSteps(p)
  BY <1>2, <1>3 DEF FrameSteps
<1>5. Frames(p)' = Frames(p)
  BY <1>3, <1>4 DEF Frames, FrameSteps
<1>6. ASSUME NEW m \in StampsOf(p)
      PROVE  /\ sent'[m] = sent[m]
             /\ UntimedSince(p, m)' <=> UntimedSince(p, m) \/ (e.what = "untimed" /\ e.pid = p)
  <2>1. m \in 1 .. Len(sent)
    BY DEF StampsOf, Grown
  <2>2. QED BY <2>1 DEF UntimedSince, Grown
<1>7. QED BY <1>1, <1>5, <1>6

\* The timestamps of the run of p are the entries that no change of its layout follows.
LEMMA RunOf ==
  ASSUME NEW e, Grown(e), NEW p, NEW i
  PROVE  i \in StampsOf(p) <=> /\ i \in 1 .. Len(sent) /\ IsStamp(i) /\ sent[i].pid = p
                              /\ SameRun(p, i, Len(sent) + 1)
BY DEF Grown, StampsOf, SameRun

\* The first timestamp of a run makes no step.
LEMMA FirstOfRun ==
  ASSUME NEW p, NEW e, Grown(e), e.what = "stamp", e.pid = p, e.time \in Nat, StampsOf(p) = {},
         NEW n, n = Len(sent) + 1
  PROVE  /\ StampsOf(p)' = {n} /\ StepsOf(p)' = StepsOf(p) /\ Frames(p)' = {}
         /\ ~UntimedSince(p, n)'
<1>0. Len(sent) \in Nat /\ n = Len(sent) + 1
  BY DEF Grown
<1>1. StampsOf(p)' = {n}
  BY <1>0 DEF Grown, StampsOf, IsStamp
<1>2. StepsOf(p)' = StepsOf(p)
  <2>1. ASSUME NEW s \in StepsOf(p)'
        PROVE  s[2] # n
    <3>1. SUFFICES ASSUME s[2] = n PROVE FALSE
      OBVIOUS
    <3>2. s[1] \in 1 .. Len(sent) /\ IsStamp(s[1]) /\ sent[s[1]].pid = p
      BY <1>0, <3>1 DEF StepsOf, Grown, IsStamp
    <3>3. SameRun(p, s[1], n)
      BY <1>0, <3>1, <3>2 DEF StepsOf, Grown, SameRun
    <3>4. QED BY <1>0, <3>2, <3>3, RunOf
  <2>2. ASSUME NEW s \in StepsOf(p)'
        PROVE  s \in StepsOf(p)
    <3>1. s[1] \in 1 .. Len(sent) /\ s[2] \in 1 .. Len(sent) /\ s = <<s[1], s[2]>>
      BY <1>0, <2>1 DEF StepsOf, Grown
    <3>2. QED BY <3>1, StepsKept
  <2>3. ASSUME NEW s \in StepsOf(p)
        PROVE  s \in StepsOf(p)'
    <3>1. s[1] \in 1 .. Len(sent) /\ s[2] \in 1 .. Len(sent) /\ s = <<s[1], s[2]>>
      BY StepIs
    <3>2. QED BY <3>1, StepsKept
  <2>4. QED BY <2>2, <2>3
<1>3. ASSUME NEW u \in FrameSteps(p)'
      PROVE  FALSE
  <2>1. u \in StepsOf(p) /\ u[1] \in 1 .. Len(sent) /\ IsStamp(u[1]) /\ sent[u[1]].pid = p
    BY <1>2, StepIs DEF FrameSteps
  <2>2. SameRun(p, u[1], Len(sent) + 1)
    BY <2>1 DEF FrameSteps, Grown, SameRun
  <2>3. QED BY <2>1, <2>2, RunOf
<1>4. Frames(p)' = {}
  BY <1>3 DEF Frames
<1>5. ~UntimedSince(p, n)'
  BY <1>0 DEF Grown, UntimedSince
<1>6. QED BY <1>1, <1>2, <1>4, <1>5

\* The next one follows the last, and no step of the run ends after that.
LEMMA NextOfRun ==
  ASSUME NEW p, NEW e, Grown(e), e.what = "stamp", e.pid = p, e.time \in Nat,
         NEW m, IsLast(p, m), NEW last, last = Len(sent) + 1
  PROVE  /\ StampsOf(p)' = StampsOf(p) \cup {last}
         /\ m \in 1 .. Len(sent) /\ IsStamp(m) /\ sent[m].pid = p /\ SameRun(p, m, last)
         /\ \A u \in StepsOf(p) : SameRun(p, u[1], last) => u[2] <= m
         /\ ~UntimedSince(p, last)'
<1>0. Len(sent) \in Nat /\ last = Len(sent) + 1
  BY DEF Grown
<1>1. StampsOf(p)' = StampsOf(p) \cup {last}
  BY <1>0 DEF Grown, StampsOf, IsStamp
<1>2. m \in 1 .. Len(sent) /\ IsStamp(m) /\ sent[m].pid = p /\ SameRun(p, m, last)
  BY <1>0, RunOf DEF IsLast
<1>3. ASSUME NEW u \in StepsOf(p), SameRun(p, u[1], last)
      PROVE  u[2] <= m
  <2>1. /\ u[1] \in 1 .. Len(sent) /\ u[2] \in 1 .. Len(sent) /\ u[1] < u[2] /\ IsStamp(u[2])
        /\ sent[u[2]].pid = p
    BY StepIs
  <2>2. SameRun(p, u[2], last)
    BY <1>0, <1>3, <2>1 DEF SameRun
  <2>3. QED BY <1>0, <2>1, <2>2, RunOf DEF IsLast
<1>4. ~UntimedSince(p, last)'
  BY <1>0 DEF Grown, UntimedSince
<1>5. QED BY <1>1, <1>2, <1>3, <1>4

\* s is the step from m to last.
Between(s, m, last) == s = <<m, last>>

\* The step between the two is the only one it adds.
LEMMA NextStep ==
  ASSUME NEW p, NEW e, Grown(e), e.what = "stamp", e.pid = p, e.time \in Nat,
         NEW m, IsLast(p, m), NEW last, last = Len(sent) + 1, NEW s, Between(s, m, last)
  PROVE  StepsOf(p)' = StepsOf(p) \cup {s}
<1>0. Len(sent) \in Nat /\ last = Len(sent) + 1 /\ s = <<m, last>>
  BY DEF Grown, Between
<1>1. m \in 1 .. Len(sent) /\ IsStamp(m) /\ sent[m].pid = p /\ SameRun(p, m, last)
  BY NextOfRun
<1>2. s \in StepsOf(p)'
  <2>1. ASSUME NEW k \in 1 .. Len(sent), IsStamp(k), sent[k].pid = p
        PROVE  ~(m < k)
    <3>1. SUFFICES ASSUME m < k PROVE FALSE
      OBVIOUS
    <3>2. SameRun(p, k, last)
      BY <1>0, <1>1, <3>1 DEF SameRun
    <3>3. k \in StampsOf(p)
      BY <1>0, <2>1, <3>2, RunOf
    <3>4. QED BY <1>1, <3>1, <3>3 DEF IsLast
  <2>2. SameRun(p, m, last)'
    BY <1>0, <1>1 DEF SameRun, Grown
  <2>3. QED BY <1>0, <1>1, <2>1, <2>2 DEF StepsOf, Grown, IsStamp
<1>3. ASSUME NEW u \in StepsOf(p)'
      PROVE  u \in StepsOf(p) \/ u = s
  <2>1. /\ u[1] \in 1 .. last /\ u[2] \in 1 .. last /\ u[1] < u[2] /\ u = <<u[1], u[2]>>
        /\ IsStamp(u[1])' /\ IsStamp(u[2])' /\ sent'[u[1]].pid = p /\ sent'[u[2]].pid = p
    BY <1>0 DEF StepsOf, Grown
  <2>2. CASE u[2] # last
    BY <1>0, <2>1, <2>2, StepsKept
  <2>3. CASE u[2] = last
    <3>1. u[1] \in 1 .. Len(sent) /\ IsStamp(u[1]) /\ sent[u[1]].pid = p
      BY <1>0, <2>1, <2>3 DEF Grown, IsStamp
    <3>2. SameRun(p, u[1], last)
      BY <1>0, <2>3, <3>1 DEF StepsOf, Grown, SameRun
    <3>3. u[1] <= m
      BY <1>0, <3>1, <3>2, RunOf DEF IsLast
    <3>4. ~(u[1] < m)
      BY <1>0, <1>1, <2>3 DEF StepsOf, Grown, IsStamp
    <3>5. u[1] = m
      BY <1>1, <3>1, <3>3, <3>4
    <3>6. QED BY <1>0, <2>1, <2>3, <3>5
  <2>4. QED BY <2>2, <2>3
<1>4. ASSUME NEW u \in StepsOf(p)
      PROVE  u \in StepsOf(p)'
  <2>1. u[1] \in 1 .. Len(sent) /\ u[2] \in 1 .. Len(sent) /\ u = <<u[1], u[2]>>
    BY StepIs
  <2>2. QED BY <2>1, StepsKept
<1>5. QED BY <1>2, <1>3, <1>4

\* What the next timestamp makes of the frame interval, and what its step is.
LEMMA NextFrames ==
  ASSUME NEW p, NEW e, Grown(e), e.what = "stamp", e.pid = p, e.time \in Nat,
         NEW m, IsLast(p, m), NEW last, last = Len(sent) + 1, NEW s, Between(s, m, last)
  PROVE  /\ \A v : IsLeast(v, Frames(p)) => FrameInterval(p, s)' = v
         /\ Timed(p, s)' <=> ~UntimedSince(p, m)
         /\ Moved(s)' = e.time - sent[m].time
         /\ Wraps(s)' <=> e.time \div StampWrap > sent[m].time \div StampWrap
         /\ Frames(p)' = Frames(p) \cup IF Whole(p, s)' /\ Moved(s)' > 0 THEN {Moved(s)'} ELSE {}
<1>0. Len(sent) \in Nat /\ last = Len(sent) + 1 /\ s[1] = m /\ s[2] = last
  BY DEF Grown, Between
<1>1. /\ StepsOf(p)' = StepsOf(p) \cup {s} /\ m \in 1 .. Len(sent) /\ IsStamp(m) /\ sent[m].pid = p
      /\ \A u \in StepsOf(p) : SameRun(p, u[1], last) => u[2] <= m
  <2>1. StepsOf(p)' = StepsOf(p) \cup {s}
    BY NextStep, ZenonT(60)
  <2>2. m \in 1 .. Len(sent) /\ IsStamp(m) /\ sent[m].pid = p
    BY NextOfRun
  <2>3. \A u \in StepsOf(p) : SameRun(p, u[1], last) => u[2] <= m
    BY NextOfRun
  <2>4. QED BY <2>1, <2>2, <2>3
<1>2. Moved(s)' = e.time - sent[m].time
  BY <1>0, <1>1 DEF Moved, Grown
<1>3. Wraps(s)' <=> e.time \div StampWrap > sent[m].time \div StampWrap
  BY <1>0, <1>1 DEF Wraps, Grown
<1>4. Timed(p, s)' <=> ~UntimedSince(p, m)
  BY <1>0, <1>1 DEF Timed, UntimedSince, Grown
<1>5. ASSUME NEW u \in StepsOf(p)
      PROVE  /\ Moved(u)' = Moved(u) /\ (Whole(p, u)' <=> Whole(p, u)) /\ u[1] \in 1 .. Len(sent)
             /\ SameRun(p, u[1], last)' <=> SameRun(p, u[1], last)
             /\ SameRun(p, u[1], Len(sent) + 1)' <=> SameRun(p, u[1], last)
             /\ SameRun(p, u[1], Len(sent) + 1) <=> SameRun(p, u[1], last)
  <2>1. Moved(u)' = Moved(u) /\ (Whole(p, u)' <=> Whole(p, u)) /\ u[1] \in 1 .. Len(sent)
    BY StepStays, StepIs
  <2>2. SameRun(p, u[1], last)' <=> SameRun(p, u[1], last)
    BY <1>0, <2>1, RunStays
  <2>3. SameRun(p, u[1], Len(sent) + 1)' <=> SameRun(p, u[1], last)
    BY <1>0, <2>1 DEF SameRun, Grown
  <2>4. QED BY <1>0, <2>1, <2>2, <2>3
<1> DEFINE Earlier == {u \in StepsOf(p) : /\ u[2] <= s[1] /\ SameRun(p, u[1], s[2])
                                         /\ Whole(p, u) /\ Moved(u) > 0}
           D == {Moved(u) : u \in Earlier}
<1>6. D' = Frames(p)
  <2>1. Earlier' = FrameSteps(p)
    <3>1. s \notin Earlier'
      BY <1>0, <1>1
    <3>2. ASSUME NEW u \in StepsOf(p)
          PROVE  u \in Earlier' <=> u \in FrameSteps(p)
      BY <1>0, <1>1, <1>5 DEF FrameSteps
    <3>3. QED BY <1>1, <3>1, <3>2 DEF FrameSteps
  <2>2. \A u \in FrameSteps(p) : Moved(u)' = Moved(u)
    BY <1>5 DEF FrameSteps
  <2>3. QED BY <2>1, <2>2 DEF Frames
<1>7. ASSUME NEW v, IsLeast(v, Frames(p))
      PROVE  FrameInterval(p, s)' = v
  <2>1. FrameInterval(p, s)' = IF D' = {} THEN 0 ELSE Min(D')
    BY DEF FrameInterval, Min
  <2>2. Frames(p) \in SUBSET Int
    BY StepIs DEF Frames, FrameSteps
  <2> HIDE DEF D, Earlier
  <2>3. QED BY <1>6, <1>7, <2>1, <2>2, LeastIs
<1> HIDE DEF D, Earlier
<1>8. Frames(p)' = Frames(p) \cup IF Whole(p, s)' /\ Moved(s)' > 0 THEN {Moved(s)'} ELSE {}
  <2>1. SameRun(p, s[1], Len(sent) + 1)'
    <3>1. SameRun(p, m, Len(sent) + 1)
      BY RunOf DEF IsLast
    <3>2. QED BY <1>0, <1>1, <3>1 DEF SameRun, Grown
  <2>2. s \in FrameSteps(p)' <=> Whole(p, s)' /\ Moved(s)' > 0
    BY <1>1, <2>1 DEF FrameSteps
  <2>3. ASSUME NEW u \in StepsOf(p)
        PROVE  u \in FrameSteps(p)' <=> u \in FrameSteps(p)
    BY <1>1, <1>5 DEF FrameSteps
  <2>4. FrameSteps(p)' = FrameSteps(p) \cup IF Whole(p, s)' /\ Moved(s)' > 0 THEN {s} ELSE {}
    BY <1>1, <2>2, <2>3 DEF FrameSteps
  <2>5. \A u \in FrameSteps(p) : Moved(u)' = Moved(u)
    BY <1>5 DEF FrameSteps
  <2>6. QED BY <2>4, <2>5 DEF Frames
<1>9. QED BY <1>2, <1>3, <1>4, <1>6, <1>7, <1>8

\* What the next timestamp adds to the definition: its position, for the kind its
\* step is of.
LEMMA NextDefined ==
  ASSUME NEW p, NEW e, Grown(e), e.what = "stamp", e.pid = p, e.time \in Nat,
         NEW m, IsLast(p, m), NEW last, last = Len(sent) + 1, NEW s, Between(s, m, last),
         NEW kind \in StepKinds, NEW K \in SUBSET StepKinds,
         "backward" \in K <=> Moved(s)' < 0,
         "wraparound" \in K <=> Moved(s)' > 0 /\ Wraps(s)',
         "gap" \in K <=> IsJump(p, s)'
  PROVE  AddsIf(Defined(p, kind)', Defined(p, kind), kind \in K, last)
<1>0. s[2] = last
  BY DEF Between
<1>1. StepsOf(p)' = StepsOf(p) \cup {s}
  BY NextStep
<1>2. ASSUME NEW u \in StepsOf(p)
      PROVE  Moved(u)' = Moved(u) /\ (Wraps(u)' <=> Wraps(u)) /\ (IsJump(p, u)' <=> IsJump(p, u))
  <2>1. \A v \in StepsOf(p)' : v \in StepsOf(p) \/ v[2] = Len(sent) + 1
    BY <1>0, <1>1
  <2>2. QED BY <1>1, <2>1, StepStays, JumpStays
<1>3. CASE kind = "backward"
  BY <1>0, <1>1, <1>2, <1>3 DEF Defined, AddsIf
<1>4. CASE kind = "wraparound"
  BY <1>0, <1>1, <1>2, <1>4 DEF Defined, AddsIf
<1>5. CASE kind = "gap"
  BY <1>0, <1>1, <1>2, <1>5 DEF Defined, AddsIf
<1>6. QED BY <1>3, <1>4, <1>5 DEF StepKinds

\* The first timestamp of a run adds none of these.
LEMMA FirstDefined ==
  ASSUME NEW p, NEW e, Grown(e), e.what = "stamp", e.pid = p, e.time \in Nat, StampsOf(p) = {},
         NEW kind \in StepKinds
  PROVE  Defined(p, kind)' = Defined(p, kind)
<1>1. StepsOf(p)' = StepsOf(p)
  BY FirstOfRun
<1>2. ASSUME NEW u \in StepsOf(p)
      PROVE  Moved(u)' = Moved(u) /\ (Wraps(u)' <=> Wraps(u)) /\ (IsJump(p, u)' <=> IsJump(p, u))
  BY <1>1, StepStays, JumpStays
<1>3. CASE kind = "backward"
  BY <1>1, <1>2, <1>3 DEF Defined
<1>4. CASE kind = "wraparound"
  BY <1>1, <1>2, <1>4 DEF Defined
<1>5. CASE kind = "gap"
  BY <1>1, <1>2, <1>5 DEF Defined
<1>6. QED BY <1>3, <1>4, <1>5 DEF StepKinds

\* A timestamp adds its position when its DTS is late.
LEMMA LateDefined ==
  ASSUME NEW p, NEW e, Grown(e), e.what = "stamp", e.pid = p, NEW last, last = Len(sent) + 1
  PROVE  AddsIf(Defined(p, "dts_after_pts")', Defined(p, "dts_after_pts"), e.late, last)
<1>1. Defined(p, "dts_after_pts") = {n \in 1 .. Len(sent) : IsStamp(n) /\ sent[n].pid = p /\ sent[n].late}
  BY DEF Defined, Grown
<1>2. Defined(p, "dts_after_pts")' =
        {n \in 1 .. Len(sent) + 1 : IsStamp(n)' /\ sent'[n].pid = p /\ sent'[n].late}
  BY DEF Defined, Grown
<1>3. QED BY <1>1, <1>2 DEF Grown, IsStamp, AddsIf

-------------------------------------------------------------------------------
(* The anomalies found.                                                      *)

\* Nothing of the kinds K was found at a position yet, nor anything after it.
NoneYet(es, at, K) ==
  \A i \in DOMAIN es : es[i].pos < at \/ (es[i].pos = at /\ es[i].kind \notin K)

\* fs adds to es what was found of the kinds K at a position of p.
Adds(fs, es, p, at, K) ==
  /\ \A i \in DOMAIN es : fs[i] = es[i]
  /\ \A i \in DOMAIN fs : fs[i].pos < at \/ (fs[i].pos = at /\ (i \in DOMAIN es \/ fs[i].kind \in K))
  /\ \A q, kind : AddsIf(FoundAt(fs, q, kind), FoundAt(es, q, kind), q = p /\ kind \in K, at)

\* One finding is added to those before it.
LEMMA FoundAdds ==
  ASSUME NEW es, es \in Seq(Event), InOrder(es), NEW p \in StampPids, NEW at \in Nat,
         NEW K, K \in SUBSET Kinds,
         K = {} \/ (\E k \in Kinds : K = {k}), NoneYet(es, at, K),
         NEW fs, fs = es \o Found(p, at, K)
  PROVE  fs \in Seq(Event) /\ InOrder(fs) /\ Adds(fs, es, p, at, K)
<1>0. \A i \in DOMAIN es : es[i].pos < at \/ (es[i].pos = at /\ es[i].kind \notin K)
  BY DEF NoneYet
<1>1. CASE K = {}
  <2>1. Found(p, at, K) = <<>>
    BY <1>1 DEF Found
  <2>2. fs = es
    BY <2>1
  <2>3. Adds(es, es, p, at, K)
    BY <1>0, <1>1 DEF Adds, AddsIf
  <2>4. QED BY <2>2, <2>3
<1>2. ASSUME NEW k \in Kinds, K = {k}
      PROVE  fs \in Seq(Event) /\ InOrder(fs) /\ Adds(fs, es, p, at, K)
  <2> DEFINE f == [pid |-> p, pos |-> at, kind |-> k]
  <2>1. Found(p, at, K) = <<f>>
    <3>1. (CHOOSE x \in K : TRUE) = k
      BY <1>2
    <3>2. QED BY <1>2, <3>1 DEF Found
  <2>2. f \in Event /\ f.pid = p /\ f.pos = at /\ f.kind = k
    BY DEF Event
  <2> HIDE DEF f
  <2>3. fs = Append(es, f)
    BY <2>1, <2>2
  <2>4. /\ fs \in Seq(Event) /\ Len(fs) = Len(es) + 1 /\ DOMAIN fs = 1 .. Len(es) + 1
        /\ DOMAIN es = 1 .. Len(es) /\ Len(es) \in Nat
        /\ fs[Len(es) + 1] = f /\ \A i \in 1 .. Len(es) : fs[i] = es[i]
    BY <2>2, <2>3
  <2>5. ASSUME NEW i \in 1 .. Len(es)
        PROVE  es[i].pos \in Nat
    <3>1. es[i] \in Event
      BY <2>4
    <3>2. QED BY <3>1 DEF Event
  <2>6. InOrder(fs)
    <3>1. ASSUME NEW i \in DOMAIN fs, NEW j \in DOMAIN fs, i < j
          PROVE  fs[i].pos < fs[j].pos \/ (fs[i].pos = fs[j].pos /\ fs[i].kind # fs[j].kind)
      <4>1. CASE j = Len(es) + 1
        <5>1. i \in DOMAIN es /\ fs[i] = es[i] /\ fs[j] = f
          BY <2>4, <3>1, <4>1
        <5>2. QED BY <1>0, <1>2, <2>2, <5>1
      <4>2. CASE j # Len(es) + 1
        <5>1. i \in DOMAIN es /\ j \in DOMAIN es /\ fs[i] = es[i] /\ fs[j] = es[j]
          BY <2>4, <3>1, <4>2
        <5>2. QED BY <3>1, <5>1 DEF InOrder
      <4>3. QED BY <4>1, <4>2
    <3>2. QED BY <3>1 DEF InOrder
  <2>7. \A i \in DOMAIN fs : fs[i].pos < at \/ (fs[i].pos = at /\ (i \in DOMAIN es \/ fs[i].kind \in K))
    BY <1>0, <1>2, <2>2, <2>4, <2>5
  <2>8. \A q, kind : AddsIf(FoundAt(fs, q, kind), FoundAt(es, q, kind), q = p /\ kind \in K, at)
    BY <1>2, <2>2, <2>4 DEF FoundAt, AddsIf
  <2>9. Adds(fs, es, p, at, K)
    BY <2>4, <2>7, <2>8 DEF Adds
  <2>10. QED BY <2>4, <2>6, <2>9
<1>3. QED BY <1>1, <1>2

\* fs adds to es what was found of the kinds K and L at a position of p.
AddsBoth(fs, es, p, at, K, L) ==
  /\ fs \in Seq(Event) /\ InOrder(fs) /\ AllBefore(fs, at + 1)
  /\ \A q, kind : AddsIf(FoundAt(fs, q, kind), FoundAt(es, q, kind), q = p /\ kind \in K \cup L, at)

\* The findings of one PES packet: a late DTS, then the kind of its step.
LEMMA FoundOfPes ==
  ASSUME NEW es \in Seq(Event), NEW fs, NEW p \in StampPids, NEW at \in Nat,
         InOrder(es), AllBefore(es, at), NEW K \in SUBSET StepKinds,
         NEW L, L = {} \/ L = {"dts_after_pts"},
         K = {} \/ (\E k \in StepKinds : K = {k}),
         fs = es \o Found(p, at, L) \o Found(p, at, K)
  PROVE  AddsBoth(fs, es, p, at, K, L)
<1> DEFINE ds == es \o Found(p, at, L)
<1>1. L \in SUBSET Kinds /\ (L = {} \/ \E k \in Kinds : L = {k}) /\ \A k \in L : k \notin StepKinds
  BY DEF Kinds, StepKinds
<1>2. K \in SUBSET Kinds /\ (K = {} \/ \E k \in Kinds : K = {k})
  BY DEF Kinds
<1>3. NoneYet(es, at, L)
  BY DEF AllBefore, NoneYet
<1>4. ds \in Seq(Event) /\ InOrder(ds) /\ Adds(ds, es, p, at, L)
  BY <1>1, <1>3, FoundAdds
<1>5. fs = ds \o Found(p, at, K)
  OBVIOUS
<1> HIDE DEF ds
<1>6. NoneYet(ds, at, K)
  BY <1>1, <1>4 DEF AllBefore, NoneYet, Adds
<1>7. fs \in Seq(Event) /\ InOrder(fs) /\ Adds(fs, ds, p, at, K)
  BY <1>2, <1>4, <1>5, <1>6, FoundAdds
<1>8. AllBefore(fs, at + 1)
  <2>1. ASSUME NEW i \in DOMAIN fs
        PROVE  fs[i].pos < at + 1
    <3>1. fs[i] \in Event /\ (fs[i].pos < at \/ fs[i].pos = at)
      BY <1>7 DEF Adds
    <3>2. fs[i].pos \in Nat
      BY <3>1 DEF Event
    <3>3. QED BY <3>1, <3>2
  <2>2. QED BY <2>1 DEF AllBefore
<1>9. ASSUME NEW q, NEW kind
      PROVE  AddsIf(FoundAt(fs, q, kind), FoundAt(es, q, kind), q = p /\ kind \in K \cup L, at)
  <2>1. AddsIf(FoundAt(ds, q, kind), FoundAt(es, q, kind), q = p /\ kind \in L, at)
    BY <1>4 DEF Adds
  <2>2. AddsIf(FoundAt(fs, q, kind), FoundAt(ds, q, kind), q = p /\ kind \in K, at)
    BY <1>7 DEF Adds
  <2>3. QED BY <2>1, <2>2 DEF AddsIf
<1>10. QED BY <1>7, <1>8, <1>9 DEF AddsBoth

-------------------------------------------------------------------------------
(* The actions.                                                              *)

\* The kinds found at a timestamp of p are those defined there, and the state after
\* it is the one of the steps to it.
Judged(p, at, K, after, decode) ==
  /\ K \in SUBSET StepKinds /\ (K = {} \/ \E k \in StepKinds : K = {k})
  /\ \A kind \in StepKinds : AddsIf(Defined(p, kind)', Defined(p, kind), kind \in K, at)
  /\ after \in StampState /\ after.last = decode /\ after.untimed = FALSE
  /\ IsLeast(after.minStep, Frames(p)')

\* What the check makes of the next timestamp of a run, by the true times.
LEMMA NextIsJudged ==
  ASSUME NEW p, NEW e, Grown(e), e.what = "stamp", e.pid = p, e.time \in Nat,
         states[p] \in StampState, NEW m, Knows(p, m), NEW d \in Int,
         2 * d < StampWrap, -2 * d < StampWrap, e.time = sent[m].time + d,
         NEW last, last = Len(sent) + 1, NEW decode, decode = e.time % StampWrap
  PROVE  Judged(p, last, StepEvents(states[p], decode), AfterStep(states[p], decode), decode)
<1> DEFINE t      == sent[m].time
           st     == states[p]
           wraps  == (t + d) \div StampWrap > t \div StampWrap
           K      == StepEvents(st, decode)
           after  == AfterStep(st, decode)
<1>1. /\ IsLast(p, m) /\ st.last = t % StampWrap /\ IsLeast(st.minStep, Frames(p))
      /\ st.untimed <=> UntimedSince(p, m)
  BY DEF Knows
<1>2. m \in 1 .. Len(sent) /\ IsStamp(m) /\ sent[m].pid = p
  BY <1>1, NextOfRun
<1>3. t \in Nat /\ t + d \in Nat
  BY <1>2 DEF Grown
<1>4. /\ K = IF d < 0 THEN {"backward"} ELSE IF wraps THEN {"wraparound"}
              ELSE IF IsGap(st, d) THEN {"gap"} ELSE {}
      /\ after = [last |-> decode, untimed |-> FALSE,
                  minStep |-> IF d >= 0 /\ ~wraps /\ Smaller(st, d) THEN d ELSE st.minStep]
      /\ wraps => d > 0
  BY <1>1, <1>3, StepIsJudged
<1>5. PICK s : Between(s, m, last)
  BY DEF Between
<1>6. /\ FrameInterval(p, s)' = st.minStep
      /\ Timed(p, s)' <=> ~UntimedSince(p, m)
      /\ Moved(s)' = e.time - t
      /\ Wraps(s)' <=> e.time \div StampWrap > t \div StampWrap
      /\ Frames(p)' = Frames(p) \cup IF Whole(p, s)' /\ Moved(s)' > 0 THEN {Moved(s)'} ELSE {}
  <2>1. IsLast(p, m) /\ Between(s, m, last)
    BY <1>1, <1>5
  <2>2. FrameInterval(p, s)' = st.minStep
    BY <1>1, <2>1, NextFrames
  <2>3. Timed(p, s)' <=> ~UntimedSince(p, m)
    BY <2>1, NextFrames
  <2>4. Moved(s)' = e.time - sent[m].time
    BY <2>1, NextFrames
  <2>5. Wraps(s)' <=> e.time \div StampWrap > sent[m].time \div StampWrap
    BY <2>1, NextFrames
  <2>6. Frames(p)' = Frames(p) \cup IF Whole(p, s)' /\ Moved(s)' > 0 THEN {Moved(s)'} ELSE {}
    BY <2>1, NextFrames
  <2>7. QED BY <2>2, <2>3, <2>4, <2>5, <2>6
<1>7. Moved(s)' = d /\ (Wraps(s)' <=> wraps)
  BY <1>3, <1>6
<1>8. Whole(p, s)' <=> d >= 0 /\ ~wraps /\ ~st.untimed
  BY <1>1, <1>6, <1>7 DEF Whole
<1>9. Frames(p) \in SUBSET Nat /\ \A x \in Frames(p) : x > 0
  <2>1. ASSUME NEW u \in FrameSteps(p)
        PROVE  Moved(u) \in Nat /\ Moved(u) > 0
    <3>1. Moved(u) \in Int /\ Moved(u) > 0
      BY StepIs DEF FrameSteps
    <3>2. QED BY <3>1
  <2>2. QED BY <2>1 DEF Frames
<1>10. st.minStep \in Nat /\ st.untimed \in BOOLEAN
  BY DEF StampState
<1>11. IsJump(p, s)' <=> d >= 0 /\ ~wraps /\ IsGap(st, d)
  BY <1>6, <1>7, <1>8 DEF IsJump, IsGap
<1> HIDE DEF wraps, K, after, st, t
<1>12. /\ "backward" \in K <=> Moved(s)' < 0
       /\ "wraparound" \in K <=> Moved(s)' > 0 /\ Wraps(s)'
       /\ "gap" \in K <=> IsJump(p, s)'
  BY <1>4, <1>7, <1>11
<1>13. K \in SUBSET StepKinds /\ (K = {} \/ \E k \in StepKinds : K = {k})
  BY <1>4 DEF StepKinds
<1>14. ASSUME NEW kind \in StepKinds
       PROVE  AddsIf(Defined(p, kind)', Defined(p, kind), kind \in K, last)
  <2>1. IsLast(p, m) /\ Between(s, m, last) /\ K \in SUBSET StepKinds
    BY <1>1, <1>5, <1>13
  <2>2. QED BY <1>12, <2>1, NextDefined
<1>15. after \in StampState /\ after.last = decode /\ after.untimed = FALSE
  <2>1. decode \in Nat
    BY StampAssumption
  <2>2. QED BY <1>4, <1>10, <2>1 DEF StampState
<1>16. IsLeast(after.minStep, Frames(p)')
  <2>1. CASE Whole(p, s)' /\ d > 0
    <3>1. Frames(p)' = Frames(p) \cup {d}
      BY <1>6, <1>7, <2>1
    <3>2. after.minStep = IF st.minStep = 0 \/ d < st.minStep THEN d ELSE st.minStep
      BY <1>4, <1>8, <2>1 DEF Smaller
    <3>3. /\ IsLeast(st.minStep, Frames(p)) /\ Frames(p) \in SUBSET Nat /\ \A x \in Frames(p) : x > 0
          /\ st.minStep \in Nat /\ d \in Nat /\ d > 0
      BY <1>1, <1>9, <1>10, <2>1
    <3>4. IsLeast(IF st.minStep = 0 \/ d < st.minStep THEN d ELSE st.minStep, Frames(p) \cup {d})
      BY <3>3, LeastAdds
    <3>5. QED BY <3>1, <3>2, <3>4
  <2>2. CASE ~(Whole(p, s)' /\ d > 0)
    <3>1. Frames(p)' = Frames(p)
      BY <1>6, <1>7, <2>2
    <3>2. after.minStep = st.minStep
      BY <1>4, <1>8, <2>2 DEF Smaller
    <3>3. QED BY <1>1, <3>1, <3>2
  <2>3. QED BY <2>1, <2>2
<1>17. QED BY <1>13, <1>14, <1>15, <1>16 DEF Judged, K, after, st

\* A PID that sends nothing and keeps its state is known as before.
LEMMA OthersTracked ==
  ASSUME NEW e, Grown(e), NEW q, Tracks(q), ~(e.what = "stamp" /\ e.pid = q),
         ~(e.what = "untimed" /\ e.pid = q), ~(e.what = "layout" /\ q \in e.pids),
         q \in DOMAIN states' <=> q \in DOMAIN states,
         q \in DOMAIN states => states'[q] = states[q]
  PROVE  Tracks(q)'
<1>1. /\ StampsOf(q)' = StampsOf(q) /\ Frames(q)' = Frames(q)
      /\ \A m \in StampsOf(q) :
           /\ sent'[m] = sent[m]
           /\ UntimedSince(q, m)' <=> UntimedSince(q, m) \/ (e.what = "untimed" /\ e.pid = q)
  BY SameKnown
<1>2. ASSUME NEW m \in StampsOf(q), q \in DOMAIN states, Knows(q, m)
      PROVE  Knows(q, m)'
  BY <1>1, <1>2 DEF Knows, IsLast, IsLeast
<1>3. QED BY <1>1, <1>2 DEF Tracks

\* The only element of a set is its greatest.
LEMMA OnlyIsMax == ASSUME NEW x \in Int PROVE Max({x}) = x
BY DEF Max

\* What a PES packet with a timestamp sends and finds, by the true times: the first
\* of a run is judged against no other, and the next ones against the last.
PesIs(p, step, e, L, K) ==
  LET decode == e.time % StampWrap IN
  /\ e.pid = p /\ L = (IF e.late THEN {"dts_after_pts"} ELSE {}) /\ Sent(e)
  /\ UNCHANGED listed
  /\ events' = events \o Found(p, Len(sent) + 1, L) \o Found(p, Len(sent) + 1, K)
  /\ \/ /\ p \notin DOMAIN states /\ StampsOf(p) = {} /\ K = {}
        /\ states' = [q \in DOMAIN states \cup {p} |->
                        IF q # p THEN states[q]
                        ELSE [last |-> decode, untimed |-> FALSE, minStep |-> 0]]
     \/ \E m \in StampsOf(p) :
          /\ p \in DOMAIN states /\ Knows(p, m) /\ e.time = sent[m].time + step
          /\ K = StepEvents(states[p], decode)
          /\ states' = [q \in DOMAIN states \cup {p} |->
                          IF q # p THEN states[q] ELSE AfterStep(states[p], decode)]

\* So it is.
LEMMA StampedPesIs ==
  ASSUME AnomalyInv, NEW p \in StampPids, NEW step \in StampSteps \cup {0}, NEW ahead \in {0, 1, -1},
         NEW hasDTS \in BOOLEAN, hasDTS <=> ahead # 0, StampedPes(p, step, ahead, hasDTS)
  PROVE  \E e \in StampEntry, L \in SUBSET Kinds, K \in SUBSET StepKinds : PesIs(p, step, e, L, K)
<1> DEFINE before == {sent[n].time : n \in {m \in StampsOf(p) : \A k \in StampsOf(p) : k <= m}}
           now    == IF before = {} THEN StampStart ELSE Max(before) + step
           pts    == (now + ahead) % StampWrap
           dts    == now % StampWrap
           e      == [what |-> "stamp", pid |-> p, late |-> hasDTS /\ ahead < 0, time |-> now]
           L      == IF e.late THEN {"dts_after_pts"} ELSE {}
           K      == IF p \in DOMAIN states THEN StepEvents(states[p], dts) ELSE {}
           after  == IF p \in DOMAIN states THEN AfterStep(states[p], dts)
                     ELSE [last |-> dts, untimed |-> FALSE, minStep |-> 0]
<1>1. /\ p \in listed /\ now >= 0 /\ (before = {} => step = 0)
      /\ Check(p, pts, dts, hasDTS, Position)
      /\ Sent([what |-> "stamp", pid |-> p, late |-> hasDTS /\ ahead < 0,
               time |-> IF hasDTS THEN now ELSE now + ahead])
      /\ UNCHANGED listed
  BY DEF StampedPes
<1>2. Tracks(p) /\ sent \in Seq(Sendable)
  BY DEF AnomalyInv
<1>3. ASSUME p \notin DOMAIN states
      PROVE  StampsOf(p) = {} /\ before = {} /\ now = StampStart /\ now \in Int
  BY <1>2, <1>3, StampAssumption DEF Tracks
<1>4. ASSUME p \in DOMAIN states
      PROVE  \E m \in StampsOf(p) : Knows(p, m) /\ now = sent[m].time + step /\ now \in Int
  <2>1. PICK m \in StampsOf(p) : Knows(p, m)
    BY <1>2, <1>4 DEF Tracks
  <2>2. IsStamp(m) /\ m \in DOMAIN sent
    BY <2>1 DEF StampsOf
  <2>3. sent[m].time \in Nat
    <3>1. sent[m] \in Sendable /\ sent[m].what = "stamp"
      BY <1>2, <2>2 DEF IsStamp
    <3>2. QED BY <3>1 DEF Sendable, StampEntry, UntimedEntry, LayoutEntry
  <2>4. \A k \in StampsOf(p) : k <= m
    BY <2>1 DEF Knows, IsLast
  <2>5. \A n \in StampsOf(p) : (\A k \in StampsOf(p) : k <= n) <=> n = m
    <3>1. \A n \in StampsOf(p) : n \in Int
      BY <1>2 DEF StampsOf
    <3>2. QED BY <2>1, <2>4, <3>1
  <2>6. before = {sent[m].time}
    BY <2>1, <2>5
  <2> HIDE DEF before
  <2>7. now = sent[m].time + step
    BY <2>3, <2>6, OnlyIsMax
  <2>8. step \in Int
    BY StampAssumption
  <2> HIDE DEF now
  <2>9. QED BY <2>1, <2>3, <2>7, <2>8
<1> HIDE DEF before, now
<1>5. now \in Nat
  BY <1>1, <1>3, <1>4
<1>6. (IF hasDTS THEN now ELSE now + ahead) = now /\ (hasDTS => ahead \in {1, -1})
  BY <1>5
<1>7. Sent(e)
  BY <1>1, <1>6
<1>8. e \in StampEntry /\ e.pid = p /\ e.time = now
  BY <1>5 DEF StampEntry
<1>9. (IF hasDTS THEN dts ELSE pts) = dts
  BY <1>5
<1>10. (IF hasDTS /\ SignedDelta(pts, dts) < 0 THEN {"dts_after_pts"} ELSE {}) = L
  <2>1. hasDTS => (SignedDelta(pts, dts) < 0 <=> ahead < 0)
    BY <1>5, <1>6, LateIsJudged
  <2>2. QED BY <2>1
<1>11. events' = events \o Found(p, Len(sent) + 1, L) \o Found(p, Len(sent) + 1, K)
  BY <1>1, <1>9, <1>10 DEF Check, Position
<1>12. states' = [q \in DOMAIN states \cup {p} |-> IF q # p THEN states[q] ELSE after]
  BY <1>1, <1>9 DEF Check
<1>13. L \in SUBSET Kinds
  BY DEF Kinds
<1> HIDE DEF pts, L
<1>14. CASE p \notin DOMAIN states
  <2>1. K = {} /\ after = [last |-> dts, untimed |-> FALSE, minStep |-> 0] /\ StampsOf(p) = {}
    BY <1>3, <1>14
  <2>2. L = IF e.late THEN {"dts_after_pts"} ELSE {}
    BY DEF L
  <2> HIDE DEF K, after, e
  <2>3. PesIs(p, step, e, L, K)
    BY <1>1, <1>7, <1>8, <1>11, <1>12, <1>14, <2>1, <2>2 DEF PesIs
  <2>4. QED BY <1>8, <1>13, <2>1, <2>3
<1>15. CASE p \in DOMAIN states
  <2>1. PICK m \in StampsOf(p) : Knows(p, m) /\ now = sent[m].time + step
    BY <1>4, <1>15
  <2>2. K = StepEvents(states[p], dts) /\ after = AfterStep(states[p], dts)
    BY <1>15
  <2>3. K \in SUBSET StepKinds
    BY <2>2 DEF StepEvents, StepKinds
  <2>4. L = IF e.late THEN {"dts_after_pts"} ELSE {}
    BY DEF L
  <2> HIDE DEF K, after, e
  <2>5. PesIs(p, step, e, L, K)
    BY <1>1, <1>7, <1>8, <1>11, <1>12, <1>15, <2>1, <2>2, <2>4 DEF PesIs
  <2>6. QED BY <1>8, <1>13, <2>3, <2>5
<1>16. QED BY <1>14, <1>15

\* A PES packet with a timestamp keeps the invariant.
LEMMA StampKeeps ==
  ASSUME AnomalyInv, NEW p \in StampPids, NEW step \in Int, 2 * step < StampWrap, -2 * step < StampWrap,
         NEW e \in StampEntry, NEW L \in SUBSET Kinds, NEW K \in SUBSET StepKinds, PesIs(p, step, e, L, K)
  PROVE  AnomalyInv'
<1> DEFINE decode == e.time % StampWrap
           after  == states'[p]
<1>1. e.what = "stamp" /\ e.pid = p /\ e.time \in Nat /\ e.late \in BOOLEAN /\ e \in Sendable
  BY DEF StampEntry, Sendable, PesIs
<1>2. /\ sent \in Seq(Sendable) /\ listed \subseteq StampPids /\ DOMAIN states \subseteq StampPids
      /\ events \in Seq(Event) /\ InOrder(events) /\ AllBefore(events, Len(sent) + 1) /\ Tracks(p)
  BY DEF AnomalyInv
<1>3. Sent(e) /\ listed' = listed /\ L = (IF e.late THEN {"dts_after_pts"} ELSE {})
      /\ events' = events \o Found(p, Len(sent) + 1, L) \o Found(p, Len(sent) + 1, K)
  BY DEF PesIs
<1>4. Grown(e) /\ sent' \in Seq(Sendable)
  BY <1>1, <1>2, <1>3, SentGrows
<1>5. PICK n : n = Len(sent) + 1 /\ n \in Nat
  BY <1>4 DEF Grown
<1>6. /\ K = {} \/ \E k \in StepKinds : K = {k}
      /\ \A kind \in StepKinds : AddsIf(Defined(p, kind)', Defined(p, kind), kind \in K, n)
      /\ DOMAIN states' = DOMAIN states \cup {p} /\ \A q \in DOMAIN states : q # p => states'[q] = states[q]
      /\ after \in StampState /\ Knows(p, n)' /\ StampsOf(p)' # {} /\ n \in StampsOf(p)'
  <2>1. CASE p \notin DOMAIN states
    <3>1. /\ StampsOf(p) = {} /\ K = {} /\ states' = [q \in DOMAIN states \cup {p} |->
                        IF q # p THEN states[q]
                        ELSE [last |-> decode, untimed |-> FALSE, minStep |-> 0]]
      BY <2>1 DEF PesIs
    <3>2. after = [last |-> decode, untimed |-> FALSE, minStep |-> 0]
      BY <3>1
    <3>3. StampsOf(p)' = {n} /\ Frames(p)' = {} /\ ~UntimedSince(p, n)'
      BY <1>1, <1>4, <1>5, <3>1, FirstOfRun
    <3>4. ASSUME NEW kind \in StepKinds
          PROVE  AddsIf(Defined(p, kind)', Defined(p, kind), kind \in K, n)
      <4>1. Defined(p, kind)' = Defined(p, kind)
        BY <1>1, <1>4, <3>1, FirstDefined
      <4>2. QED BY <3>1, <4>1 DEF AddsIf
    <3>5. decode \in Nat
      BY <1>1, StampAssumption
    <3>6. sent'[n].time = e.time
      BY <1>4, <1>5 DEF Grown
    <3> HIDE DEF decode
    <3>7. after \in StampState
      BY <3>2, <3>5 DEF StampState
    <3>8. Knows(p, n)'
      <4>1. IsLast(p, n)'
        BY <1>5, <3>3 DEF IsLast
      <4>2. IsLeast(0, {})
        BY DEF IsLeast
      <4>3. IsLeast(states[p].minStep, Frames(p))'
        BY <3>2, <3>3 DEF IsLeast
      <4>4. QED BY <3>2, <3>3, <3>6, <4>1, <4>3 DEF Knows, decode
    <3>9. QED BY <3>1, <3>3, <3>4, <3>7, <3>8
  <2>2. CASE p \in DOMAIN states
    <3>1. PICK m \in StampsOf(p) :
            /\ Knows(p, m) /\ e.time = sent[m].time + step /\ K = StepEvents(states[p], decode)
            /\ states' = [q \in DOMAIN states \cup {p} |->
                            IF q # p THEN states[q] ELSE AfterStep(states[p], decode)]
      BY <2>2 DEF PesIs
    <3>2. after = AfterStep(states[p], decode)
      BY <3>1
    <3>3. states[p] \in StampState
      BY <1>2, <2>2 DEF Tracks
    <3>4. IsLast(p, m)
      BY <3>1 DEF Knows
    <3>5. StampsOf(p)' = StampsOf(p) \cup {n} /\ ~UntimedSince(p, n)'
      BY <1>1, <1>4, <1>5, <3>4, NextOfRun
    <3>6. Judged(p, n, K, after, decode)
      BY <1>1, <1>4, <1>5, <3>1, <3>2, <3>3, NextIsJudged
    <3>7. sent'[n].time = e.time
      BY <1>4, <1>5 DEF Grown
    <3>8. Knows(p, n)'
      <4>1. IsLast(p, n)'
        BY <1>4, <1>5, <3>5 DEF IsLast, StampsOf, Grown
      <4>2. IsLeast(states[p].minStep, Frames(p))'
        BY <3>6 DEF IsLeast, Judged
      <4>3. QED BY <3>5, <3>6, <3>7, <4>1, <4>2 DEF Knows, Judged
    <3> HIDE DEF decode, after
    <3>9. QED BY <3>1, <3>5, <3>6, <3>8 DEF Judged
  <2>3. QED BY <2>1, <2>2
<1>7. ASSUME NEW q \in StampPids
      PROVE  Tracks(q)'
  <2>1. CASE q = p
    BY <1>6, <2>1 DEF Tracks
  <2>2. CASE q # p
    <3>1. Tracks(q)
      BY DEF AnomalyInv
    <3>2. (q \in DOMAIN states' <=> q \in DOMAIN states) /\ (q \in DOMAIN states => states'[q] = states[q])
      BY <1>6, <2>2
    <3>3. QED BY <1>1, <1>4, <2>2, <3>1, <3>2, OthersTracked
  <2>3. QED BY <2>1, <2>2
<1>8. AddsBoth(events', events, p, n, K, L)
  <2>1. L = {} \/ L = {"dts_after_pts"}
    BY <1>3
  <2>2. K = {} \/ \E k \in StepKinds : K = {k}
    BY <1>6
  <2>3. AllBefore(events, n) /\ events' = events \o Found(p, n, L) \o Found(p, n, K)
    BY <1>2, <1>3, <1>5
  <2>4. QED BY <1>2, <1>5, <2>1, <2>2, <2>3, FoundOfPes
<1>9. ASSUME NEW q \in StampPids, NEW kind \in Kinds
      PROVE  FoundAt(events', q, kind) = Defined(q, kind)'
  <2>1. FoundAt(events, q, kind) = Defined(q, kind)
    BY DEF AnomalyInv
  <2>2. AddsIf(FoundAt(events', q, kind), FoundAt(events, q, kind), q = p /\ kind \in K \cup L, n)
    BY <1>8 DEF AddsBoth
  <2>3. CASE q # p
    <3>1. Defined(q, kind)' = Defined(q, kind)
      BY <1>1, <1>4, <2>3, SameDefined
    <3>2. QED BY <2>1, <2>2, <2>3, <3>1 DEF AddsIf
  <2>4. CASE q = p /\ kind \in StepKinds
    <3>1. AddsIf(Defined(p, kind)', Defined(p, kind), kind \in K, n)
      BY <1>6, <2>4
    <3>2. kind \notin L
      BY <1>3, <2>4 DEF StepKinds
    <3>3. QED BY <2>1, <2>2, <2>4, <3>1, <3>2 DEF AddsIf
  <2>5. CASE q = p /\ kind = "dts_after_pts"
    <3>1. AddsIf(Defined(p, "dts_after_pts")', Defined(p, "dts_after_pts"), e.late, n)
      BY <1>1, <1>4, <1>5, LateDefined
    <3>2. kind \notin K
      BY <2>5 DEF StepKinds
    <3>3. kind \in L <=> e.late
      BY <1>3, <2>5
    <3>4. QED BY <2>1, <2>2, <2>5, <3>1, <3>2, <3>3 DEF AddsIf
  <2>6. QED BY <2>3, <2>4, <2>5 DEF Kinds
<1>10. DOMAIN states' \subseteq StampPids
  BY <1>2, <1>6
<1>11. Len(sent') + 1 = n + 1
  BY <1>4, <1>5 DEF Grown
<1> HIDE DEF after
<1>12. AllBefore(events', Len(sent') + 1)
  BY <1>8, <1>11 DEF AddsBoth
<1>13. QED BY <1>2, <1>3, <1>4, <1>7, <1>8, <1>9, <1>10, <1>12
             DEF AnomalyInv, AllBefore, InOrder, FoundAt, AddsBoth

\* An entry that is no timestamp leaves the findings and the definition alone.
LEMMA NothingFound ==
  ASSUME AnomalyInv, NEW e \in Sendable, e.what # "stamp", Sent(e), events' = events
  PROVE  /\ sent' \in Seq(Sendable) /\ events' \in Seq(Event) /\ InOrder(events')
         /\ AllBefore(events', Len(sent') + 1)
         /\ \A q \in StampPids, kind \in Kinds : FoundAt(events', q, kind) = Defined(q, kind)'
<1>1. /\ sent \in Seq(Sendable) /\ events \in Seq(Event) /\ InOrder(events)
      /\ AllBefore(events, Len(sent) + 1)
  BY DEF AnomalyInv
<1>2. Grown(e) /\ sent' \in Seq(Sendable)
  BY <1>1, SentGrows
<1>3. AllBefore(events', Len(sent') + 1)
  <2>1. ASSUME NEW i \in DOMAIN events
        PROVE  events[i].pos < Len(sent) + 1 + 1
    <3>1. events[i] \in Event /\ events[i].pos < Len(sent) + 1 /\ Len(sent) \in Nat
      BY <1>1, <1>2 DEF AllBefore, Grown
    <3>2. events[i].pos \in Nat
      BY <3>1 DEF Event
    <3>3. QED BY <3>1, <3>2
  <2>2. QED BY <1>2, <2>1 DEF AllBefore, Grown
<1>4. ASSUME NEW q \in StampPids, NEW kind \in Kinds
      PROVE  FoundAt(events', q, kind) = Defined(q, kind)'
  <2>1. Defined(q, kind)' = Defined(q, kind)
    BY <1>2, SameDefined
  <2>2. FoundAt(events, q, kind) = Defined(q, kind)
    BY DEF AnomalyInv
  <2>3. QED BY <2>1, <2>2
<1>5. QED BY <1>1, <1>2, <1>3, <1>4

\* A PES packet without a timestamp keeps the invariant.
LEMMA UntimedKeeps ==
  ASSUME AnomalyInv, NEW p \in StampPids, UntimedPes(p)
  PROVE  AnomalyInv'
<1> DEFINE e == [what |-> "untimed", pid |-> p]
<1>1. e \in Sendable /\ e.what = "untimed" /\ e.pid = p
  BY DEF Sendable, UntimedEntry
<1>2. Sent(e) /\ states' = MarkUntimed(p) /\ events' = events /\ listed' = listed
  BY DEF UntimedPes
<1> HIDE DEF e
<1>3. /\ sent' \in Seq(Sendable) /\ events' \in Seq(Event) /\ InOrder(events')
      /\ AllBefore(events', Len(sent') + 1)
      /\ \A q \in StampPids, kind \in Kinds : FoundAt(events', q, kind) = Defined(q, kind)'
  BY <1>1, <1>2, NothingFound
<1>4. Grown(e) /\ listed \subseteq StampPids /\ DOMAIN states \subseteq StampPids
  BY <1>1, <1>2, SentGrows DEF AnomalyInv
<1>5. /\ DOMAIN states' = DOMAIN states
      /\ \A q \in DOMAIN states : q # p => states'[q] = states[q]
      /\ p \in DOMAIN states => states'[p] = [states[p] EXCEPT !.untimed = TRUE]
  BY <1>2 DEF MarkUntimed
<1>6. ASSUME NEW q \in StampPids
      PROVE  Tracks(q)'
  <2>0. Tracks(q)
    BY DEF AnomalyInv
  <2>1. CASE q # p
    BY <1>1, <1>4, <1>5, <2>0, <2>1, OthersTracked
  <2>2. CASE q = p
    <3>1. /\ StampsOf(p)' = StampsOf(p) /\ Frames(p)' = Frames(p)
          /\ \A m \in StampsOf(p) :
               /\ sent'[m] = sent[m]
               /\ UntimedSince(p, m)' <=> UntimedSince(p, m) \/ (e.what = "untimed" /\ e.pid = p)
      BY <1>1, <1>4, SameKnown
    <3>2. CASE p \notin DOMAIN states
      BY <1>5, <2>0, <2>2, <3>1, <3>2 DEF Tracks
    <3>3. CASE p \in DOMAIN states
      <4>1. PICK m \in StampsOf(p) : Knows(p, m)
        BY <2>0, <2>2, <3>3 DEF Tracks
      <4>2. states[p] \in StampState
        BY <2>0, <2>2, <3>3 DEF Tracks
      <4>3. /\ states'[p] \in StampState /\ states'[p].last = states[p].last
            /\ states'[p].untimed = TRUE /\ states'[p].minStep = states[p].minStep
        BY <1>5, <3>3, <4>2 DEF StampState
      <4>4. Knows(p, m)'
        <5>1. IsLast(p, m)' /\ UntimedSince(p, m)' /\ sent'[m] = sent[m]
          BY <1>1, <3>1, <4>1 DEF Knows, IsLast
        <5>2. IsLeast(states[p].minStep, Frames(p))'
          BY <3>1, <4>1, <4>3 DEF Knows, IsLeast
        <5>3. QED BY <4>1, <4>3, <5>1, <5>2 DEF Knows
      <4>5. QED BY <1>5, <2>2, <3>1, <3>3, <4>1, <4>3, <4>4 DEF Tracks
    <3>4. QED BY <3>2, <3>3
  <2>3. QED BY <2>1, <2>2
<1>7. QED BY <1>2, <1>3, <1>4, <1>5, <1>6 DEF AnomalyInv, AllBefore, InOrder, FoundAt

\* A change of layout keeps it: a PID that loses its state has no timestamps yet.
LEMMA DropKeeps ==
  ASSUME AnomalyInv, NEW now \in SUBSET StampPids, NEW retyped \in SUBSET StampPids,
         DropStates(now, retyped)
  PROVE  AnomalyInv'
<1> DEFINE changed == (listed \ now) \cup (now \ listed) \cup retyped
           e == [what |-> "layout", pids |-> changed]
<1>1. e \in Sendable /\ e.what = "layout" /\ e.pids = changed
  BY DEF AnomalyInv, Sendable, LayoutEntry
<1>2. /\ Sent(e) /\ states' = [p \in DOMAIN states \ changed |-> states[p]] /\ events' = events
      /\ listed' = now
  BY DEF DropStates
<1> HIDE DEF e, changed
<1>3. /\ sent' \in Seq(Sendable) /\ events' \in Seq(Event) /\ InOrder(events')
      /\ AllBefore(events', Len(sent') + 1)
      /\ \A q \in StampPids, kind \in Kinds : FoundAt(events', q, kind) = Defined(q, kind)'
  BY <1>1, <1>2, NothingFound
<1>4. Grown(e) /\ listed' \subseteq StampPids /\ DOMAIN states \subseteq StampPids
  BY <1>1, <1>2, SentGrows DEF AnomalyInv
<1>5. DOMAIN states' = DOMAIN states \ changed /\ \A q \in DOMAIN states \ changed : states'[q] = states[q]
  BY <1>2
<1>6. ASSUME NEW q \in StampPids
      PROVE  Tracks(q)'
  <2>1. CASE q \notin changed
    <3>1. Tracks(q)
      BY DEF AnomalyInv
    <3>2. QED BY <1>1, <1>4, <1>5, <2>1, <3>1, OthersTracked
  <2>2. CASE q \in changed
    <3>1. StampsOf(q)' = {}
      <4>1. ASSUME NEW n \in StampsOf(q)'
            PROVE  FALSE
        <5>1. n \in 1 .. Len(sent) + 1 /\ IsStamp(n)'
          BY <1>4 DEF StampsOf, Grown
        <5>2. n # Len(sent) + 1
          BY <1>1, <1>4, <5>1 DEF IsStamp, Grown
        <5>3. Len(sent) + 1 \in n + 1 .. Len(sent') /\ sent'[Len(sent) + 1] = e
          BY <1>4, <5>1, <5>2 DEF Grown
        <5>4. QED BY <1>1, <2>2, <5>3 DEF StampsOf
      <4>2. QED BY <4>1
    <3>2. QED BY <1>5, <2>2, <3>1 DEF Tracks
  <2>3. QED BY <2>1, <2>2
<1>7. QED BY <1>3, <1>4, <1>5, <1>6 DEF AnomalyInv, AllBefore, InOrder, FoundAt

\* Nothing is known, found or defined to begin with.
LEMMA InitEstablishesAnomalyInv == AnomalyInit => AnomalyInv
<1> SUFFICES ASSUME AnomalyInit PROVE AnomalyInv
  OBVIOUS
<1>1. states = [p \in {} |-> 0] /\ events = <<>> /\ listed = StampPids /\ sent = <<>>
  BY DEF AnomalyInit
<1>2. \A p \in StampPids : Tracks(p)
  BY <1>1 DEF Tracks, StampsOf
<1>3. InOrder(events) /\ AllBefore(events, Len(sent) + 1)
  BY <1>1 DEF InOrder, AllBefore
<1>4. ASSUME NEW p \in StampPids, NEW kind \in Kinds
      PROVE  FoundAt(events, p, kind) = {} /\ Defined(p, kind) = {}
  <2>1. FoundAt(events, p, kind) = {}
    BY <1>1 DEF FoundAt
  <2>2. StepsOf(p) = {}
    BY <1>1 DEF StepsOf
  <2>3. Defined(p, kind) = {}
    BY <1>1, <2>2 DEF Defined, Kinds, StepKinds
  <2>4. QED BY <2>1, <2>3
<1>5. QED BY <1>1, <1>2, <1>3, <1>4 DEF AnomalyInv

\* Every step keeps the invariant.
LEMMA NextKeepsAnomalyInv == AnomalyInv /\ [AnomalyNext]_anomalyVars => AnomalyInv'
<1> SUFFICES ASSUME AnomalyInv, [AnomalyNext]_anomalyVars PROVE AnomalyInv'
  OBVIOUS
<1>1. ASSUME NEW p \in StampPids, NEW step \in StampSteps \cup {0}, NEW ahead \in {0, 1, -1},
             NEW hasDTS \in BOOLEAN, hasDTS <=> ahead # 0, StampedPes(p, step, ahead, hasDTS)
      PROVE  AnomalyInv'
  <2>1. PICK e \in StampEntry, L \in SUBSET Kinds, K \in SUBSET StepKinds : PesIs(p, step, e, L, K)
    BY <1>1, StampedPesIs
  <2>2. step \in Int /\ 2 * step < StampWrap /\ -2 * step < StampWrap
    BY StampAssumption
  <2>3. QED BY <2>1, <2>2, StampKeeps
<1>2. CASE \E p \in StampPids, step \in StampSteps \cup {0} : StampedPes(p, step, 0, FALSE)
  BY <1>1, <1>2
<1>3. CASE \E p \in StampPids, step \in StampSteps \cup {0}, ahead \in {1, -1} :
             StampedPes(p, step, ahead, TRUE)
  <2>1. PICK p \in StampPids, step \in StampSteps \cup {0}, ahead \in {1, -1} :
          StampedPes(p, step, ahead, TRUE)
    BY <1>3
  <2>2. ahead \in {0, 1, -1} /\ ahead # 0
    OBVIOUS
  <2>3. QED BY <1>1, <2>1, <2>2
<1>4. CASE \E p \in StampPids : UntimedPes(p)
  BY <1>4, UntimedKeeps
<1>5. CASE \E now, retyped \in SUBSET StampPids : DropStates(now, retyped)
  BY <1>5, DropKeeps
<1>6. CASE UNCHANGED anomalyVars
  <2>1. states' = states /\ events' = events /\ listed' = listed /\ sent' = sent
    BY <1>6 DEF anomalyVars
  <2>2. \A p \in StampPids : Tracks(p)' <=> Tracks(p)
    BY <2>1 DEF Tracks, Knows, IsLast, StampsOf, IsStamp, UntimedSince, Frames, FrameSteps, StepsOf,
                SameRun, Whole, Moved, Wraps, Timed
  <2>3. ASSUME NEW p \in StampPids, NEW kind \in Kinds
        PROVE  Defined(p, kind)' = Defined(p, kind)
    BY <2>1 DEF Defined, IsJump, FrameInterval, Min, StepsOf, IsStamp, SameRun, Whole, Moved, Wraps, Timed
  <2>4. QED BY <2>1, <2>2, <2>3 DEF AnomalyInv
<1>7. QED BY <1>2, <1>3, <1>4, <1>5, <1>6 DEF AnomalyNext

\* The invariant holds throughout: the state of a PID is that of its timestamps since
\* it was last dropped.
THEOREM AnomalyInvHolds == AnomalySpec => []AnomalyInv
<1>1. AnomalyInit => AnomalyInv
  BY InitEstablishesAnomalyInv
<1>2. AnomalyInv /\ [AnomalyNext]_anomalyVars => AnomalyInv'
  BY NextKeepsAnomalyInv
<1>3. QED BY <1>1, <1>2, PTL DEF AnomalySpec

\* The anomalies found are those of the true times, each once and in order, for every
\* period of the counter, every ratio, and every sequence of PES packets and layouts.
THEOREM AnomaliesFoundAreDefined == AnomalySpec => []AnomaliesAsDefined
<1>1. AnomalyInv => AnomaliesAsDefined
  BY DEF AnomalyInv, AnomaliesAsDefined, FoundAt, InOrder, Kinds, StepKinds
<1>2. QED BY <1>1, AnomalyInvHolds, PTL

-------------------------------------------------------------------------------
(* The mux lead.                                                             *)

\* The definition of the leads over any sequence of observations.
IsSampleIn(s, n) == s[n].what = "pes" /\ s[n].carries.hasPTS /\ s[n].at.valid

SamplesIn(s, p) == {n \in DOMAIN s : IsSampleIn(s, n) /\ s[n].pid = p}

TrueLeadIn(s, n) == IF s[n].carries.hasDTS THEN s[n].carries.dts ELSE s[n].carries.pts

ForgetsIn(s, n, p) ==
  IF s[n].what = "pes"
    THEN s[n].pid = p /\ s[n].carries.hasPTS /\ ~s[n].at.valid
    ELSE p \in s[n].pids

LatestIn(s, p, n) ==
  {m \in SamplesIn(s, p) : m <= n /\ \A k \in m + 1 .. n : ~ForgetsIn(s, k, p) /\ k \notin SamplesIn(s, p)}

LayoutsUpTo(s, n) == {m \in 1 .. n : s[m].what = "layout"}

TypesIn(s, n) == s[Max(LayoutsUpTo(s, n))].types

VideoIn(s, n) == AVLayout(TypesIn(s, n)).video

TriggersIn(s, a) ==
  {n \in DOMAIN s : IsSampleIn(s, n) /\ TypesIn(s, n)[a] = "audio" /\ s[n].pid \in {a} \cup VideoIn(s, n)}

ComparisonsIn(s, a) ==
  {c \in UNION {{n} \X LatestIn(s, a, n) \X UNION {LatestIn(s, v, n) : v \in VideoIn(s, n)} :
                  n \in TriggersIn(s, a)} :
     s[c[2]].at.segment = s[c[3]].at.segment}

ApartIn(s, c) ==
  LET d == TrueLeadIn(s, c[2]) - TrueLeadIn(s, c[3]) IN IF d < 0 THEN -d ELSE d

PesObserved ==
  [what : {"pes"}, pid : Pids, carries : StampSets,
   at : [valid : BOOLEAN, segment : Int, ticks : Int]]

CutObserved == [what : {"cut"}, pids : SUBSET Pids]

LayoutObserved == [what : {"layout"}, pids : SUBSET Pids, types : Layouts]

Observation == PesObserved \cup CutObserved \cup LayoutObserved

\* The observations of a program, which start with its layout.
ObservedOK(s) == s \in Seq(Observation) /\ (s # <<>> => s[1].what = "layout")

NegativesIn(s, p) == {n \in SamplesIn(s, p) : TrueLeadIn(s, n) < 0}

\* The counts and extremes of a PID.
ExtremesOK(s, p, l) ==
  /\ l.samples = Cardinality(SamplesIn(s, p)) /\ l.negative = Cardinality(NegativesIn(s, p))
  /\ l.samples > 0 =>
       /\ \E n \in SamplesIn(s, p) : l.min.ticks = TrueLeadIn(s, n)
       /\ \A n \in SamplesIn(s, p) : l.min.ticks <= TrueLeadIn(s, n)
       /\ l.max.offset \in SamplesIn(s, p) /\ TrueLeadIn(s, l.max.offset) = l.max.ticks
       /\ \A n \in SamplesIn(s, p) : /\ TrueLeadIn(s, n) <= l.max.ticks
                                     /\ TrueLeadIn(s, n) = l.max.ticks => l.max.offset <= n

\* The sample a comparison would use.
LatestOK(s, p, l) ==
  /\ l.hasLast \in BOOLEAN
  /\ ~l.hasLast => LatestIn(s, p, Len(s)) = {}
  /\ l.hasLast => /\ LatestIn(s, p, Len(s)) = {l.last.offset}
                  /\ l.last.ticks = TrueLeadIn(s, l.last.offset)
                  /\ l.last.segment = s[l.last.offset].at.segment

\* The comparisons of an audio PID and the worst of them.
ComparedOK(s, a, l) ==
  /\ IsFiniteSet(ComparisonsIn(s, a)) /\ l.comparisons = Cardinality(ComparisonsIn(s, a))
  /\ l.comparisons > 0 =>
       /\ \E c \in ComparisonsIn(s, a) : /\ l.worst.audio.offset = c[2]
                                         /\ l.worst.video.offset = c[3]
                                         /\ ApartIn(s, c) = l.worst.ticks
       /\ \A c \in ComparisonsIn(s, a) : ApartIn(s, c) <= l.worst.ticks

LeadFields ==
  {"samples", "unbracketed", "dts", "negative", "min", "max", "last", "hasLast", "comparisons", "worst"}

LeadOK(s, p, l) ==
  DOMAIN l = LeadFields /\ ExtremesOK(s, p, l) /\ LatestOK(s, p, l) /\ ComparedOK(s, p, l)

IsStampedIn(s, n, p) == s[n].what = "pes" /\ s[n].pid = p /\ s[n].carries.hasPTS

StampedIn(s, p) == {n \in DOMAIN s : IsStampedIn(s, n, p)}

\* The PES packets of a PID, and those with a PTS.
HeadersOK(s, p, st) ==
  /\ st.pes \in Nat /\ st.pts \in Nat
  /\ st.pts > 0 <=> StampedIn(s, p) # {}
  /\ st.pts > 0 => st.pes > 0

\* The layout is the last one announced.
LayoutOK(known, program, types) ==
  /\ program = AVLayout(types)
  /\ \A p \in Pids : types[p] # "none" => p \in DOMAIN known
  /\ \A p \in DOMAIN known : known[p].active => known[p].type = types[p]

LeadInv ==
  /\ CheckInv
  /\ ObservedOK(carried) /\ Len(carried) = offset
  /\ DOMAIN leads = DOMAIN streams
  /\ carried = <<>> => DOMAIN streams = {}
  /\ carried # <<>> => LayoutOK(streams, av, TypesIn(carried, Len(carried)))
  /\ \A n \in DOMAIN carried : carried[n].what = "pes" => carried[n].pid \in DOMAIN streams
  /\ \A p \in DOMAIN streams : LeadOK(carried, p, leads[p]) /\ HeadersOK(carried, p, streams[p])
-------------------------------------------------------------------------------
\* What is known of an observation.
LEMMA ObservationIs ==
  ASSUME NEW e \in Observation
  PROVE  /\ e.what \in {"pes", "cut", "layout"}
         /\ e.what = "pes" => /\ e.pid \in Pids /\ e.carries \in StampSets
                              /\ e.carries.hasPTS \in BOOLEAN /\ e.carries.hasDTS \in BOOLEAN
                              /\ e.at.valid \in BOOLEAN /\ e.at.segment \in Int /\ e.at.ticks \in Int
         /\ e.what # "pes" => e.pids \in SUBSET Pids
         /\ e.what = "layout" => e.types \in Layouts
<1>1. CASE e \in PesObserved
  <2>1. /\ e.what = "pes" /\ e.pid \in Pids /\ e.carries \in StampSets
        /\ e.at \in [valid : BOOLEAN, segment : Int, ticks : Int]
    BY <1>1 DEF PesObserved
  <2>2. e.carries.hasPTS \in BOOLEAN /\ e.carries.hasDTS \in BOOLEAN
    BY <2>1, LeadAssumption
  <2>3. e.at.valid \in BOOLEAN /\ e.at.segment \in Int /\ e.at.ticks \in Int
    BY <2>1
  <2>4. QED BY <2>1, <2>2, <2>3
<1>2. CASE e \in CutObserved
  BY <1>2 DEF CutObserved
<1>3. CASE e \in LayoutObserved
  BY <1>3 DEF LayoutObserved
<1>4. QED BY <1>1, <1>2, <1>3 DEF Observation

\* What is known of each of a sequence of them.
LEMMA ObservedIs ==
  ASSUME NEW s, ObservedOK(s)
  PROVE  \A n \in DOMAIN s :
           /\ n \in Nat \ {0} /\ n <= Len(s) /\ s[n] \in Observation
           /\ s[n].what = "pes" => /\ s[n].pid \in Pids /\ s[n].carries \in StampSets
                                   /\ s[n].carries.hasPTS \in BOOLEAN /\ s[n].carries.hasDTS \in BOOLEAN
                                   /\ s[n].at.valid \in BOOLEAN /\ s[n].at.segment \in Int
<1> TAKE n \in DOMAIN s
<1>1. s \in Seq(Observation)
  BY DEF ObservedOK
<1>2. s[n] \in Observation /\ n \in Nat \ {0} /\ n <= Len(s)
  BY <1>1
<1>3. QED BY <1>2, ObservationIs

\* The true lead of a sample is one that its stamp can tell.
LEMMA TrueLeadIs ==
  ASSUME NEW s, ObservedOK(s), NEW n \in DOMAIN s, IsSampleIn(s, n)
  PROVE  TrueLeadIn(s, n) \in (StampPeriod \div 2) - StampPeriod .. (StampPeriod \div 2) - 1
<1>1. s[n].carries \in StampSets /\ s[n].carries.hasPTS
  BY ObservedIs DEF IsSampleIn
<1>2. QED BY <1>1, LeadAssumption DEF TrueLeadIn

\* The samples of a longer sequence.
LEMMA SamplesGrow ==
  ASSUME NEW s, NEW s2, NEW n, Longer(s, s2, n), NEW p
  PROVE  /\ SamplesIn(s, p) \subseteq 1 .. n - 1
         /\ \A m : m \in SamplesIn(s2, p) <=>
                    m \in SamplesIn(s, p) \/ (m = n /\ IsSampleIn(s2, n) /\ s2[n].pid = p)
         /\ \A m \in 1 .. n - 1 : /\ IsSampleIn(s2, m) <=> IsSampleIn(s, m)
                                  /\ TrueLeadIn(s2, m) = TrueLeadIn(s, m)
                                  /\ ForgetsIn(s2, m, p) <=> ForgetsIn(s, m, p)
                                  /\ s2[m] = s[m]
<1>1. \A m \in 1 .. n - 1 : s2[m] = s[m]
  BY DEF Longer
<1>2. \A m \in 1 .. n - 1 : /\ IsSampleIn(s2, m) <=> IsSampleIn(s, m)
                            /\ TrueLeadIn(s2, m) = TrueLeadIn(s, m)
                            /\ ForgetsIn(s2, m, p) <=> ForgetsIn(s, m, p)
  BY <1>1, Zenon DEF IsSampleIn, TrueLeadIn, ForgetsIn
<1>3. DOMAIN s = 1 .. n - 1 /\ DOMAIN s2 = 1 .. n /\ n \in Nat \ {0}
  BY DEF Longer
<1>4. \A m : m \in 1 .. n <=> m \in 1 .. n - 1 \/ m = n
  BY <1>3
<1>5. SamplesIn(s, p) \subseteq 1 .. n - 1
  BY <1>3 DEF SamplesIn
<1>6. ASSUME NEW m
      PROVE  m \in SamplesIn(s2, p) <=>
               m \in SamplesIn(s, p) \/ (m = n /\ IsSampleIn(s2, n) /\ s2[n].pid = p)
  <2>1. m \in SamplesIn(s2, p) <=> m \in 1 .. n /\ IsSampleIn(s2, m) /\ s2[m].pid = p
    BY <1>3, Zenon DEF SamplesIn
  <2>2. m \in SamplesIn(s, p) <=> m \in 1 .. n - 1 /\ IsSampleIn(s, m) /\ s[m].pid = p
    BY <1>3, Zenon DEF SamplesIn
  <2>3. n \notin 1 .. n - 1 /\ n \in 1 .. n
    BY <1>3
  <2>4. CASE m = n
    BY <2>1, <2>2, <2>3, <2>4, Zenon
  <2>5. CASE m \in 1 .. n - 1
    <3>1. (IsSampleIn(s2, m) <=> IsSampleIn(s, m)) /\ s2[m] = s[m] /\ m # n
      BY <1>1, <1>2, <2>3, <2>5, Zenon
    <3>2. QED BY <1>4, <2>1, <2>2, <2>5, <3>1, Zenon
  <2>6. CASE m # n /\ m \notin 1 .. n - 1
    BY <1>4, <2>1, <2>2, <2>6, Zenon
  <2>7. QED BY <2>4, <2>5, <2>6, Zenon
<1>7. QED BY <1>1, <1>2, <1>5, <1>6, Zenon

\* What was the latest sample of a PID stays so at that moment.
LEMMA LatestKept ==
  ASSUME NEW s, NEW s2, NEW n, Longer(s, s2, n), NEW p, NEW i \in 1 .. n - 1
  PROVE  LatestIn(s2, p, i) = LatestIn(s, p, i)
<1>1. /\ SamplesIn(s, p) \subseteq 1 .. n - 1 /\ n \in Nat
      /\ \A m : m \in SamplesIn(s2, p) => m \in SamplesIn(s, p) \/ m = n
      /\ SamplesIn(s, p) \subseteq SamplesIn(s2, p)
      /\ \A m \in 1 .. n - 1 : ForgetsIn(s2, m, p) <=> ForgetsIn(s, m, p)
  <2>1. n \in Nat
    BY DEF Longer
  <2>2. QED BY <2>1, SamplesGrow
<1>2. ASSUME NEW m
      PROVE  m \in LatestIn(s2, p, i) <=> m \in LatestIn(s, p, i)
  <2>1. m \in SamplesIn(s2, p) /\ m <= i <=> m \in SamplesIn(s, p) /\ m <= i
    BY <1>1
  <2>2. ASSUME m \in SamplesIn(s, p), NEW k \in m + 1 .. i
        PROVE  /\ k \in SamplesIn(s2, p) <=> k \in SamplesIn(s, p)
               /\ ForgetsIn(s2, k, p) <=> ForgetsIn(s, k, p)
    <3>1. m \in 1 .. n - 1
      BY <1>1, <2>2
    <3>2. k \in 1 .. n - 1
      BY <1>1, <3>1
    <3>3. k # n
      BY <1>1, <3>2
    <3>4. QED BY <1>1, <3>2, <3>3
  <2>3. QED BY <2>1, <2>2 DEF LatestIn
<1>3. QED BY <1>2

\* The latest sample after one observation more.
LEMMA LatestNow ==
  ASSUME NEW s, NEW s2, NEW n, Longer(s, s2, n), NEW p
  PROVE  /\ IsSampleIn(s2, n) /\ s2[n].pid = p =>
              \A m : m \in LatestIn(s2, p, n) <=> m = n
         /\ ForgetsIn(s2, n, p) => LatestIn(s2, p, n) = {}
         /\ ~(IsSampleIn(s2, n) /\ s2[n].pid = p) /\ ~ForgetsIn(s2, n, p) =>
              LatestIn(s2, p, n) = LatestIn(s, p, n - 1)
<1>0. n \in Nat \ {0}
  BY DEF Longer
<1>1. /\ SamplesIn(s, p) \subseteq 1 .. n - 1
      /\ \A m : m \in SamplesIn(s2, p) <=>
                 m \in SamplesIn(s, p) \/ (m = n /\ IsSampleIn(s2, n) /\ s2[n].pid = p)
      /\ \A m \in 1 .. n - 1 : ForgetsIn(s2, m, p) <=> ForgetsIn(s, m, p)
  BY SamplesGrow
<1>2. ASSUME IsSampleIn(s2, n), s2[n].pid = p
      PROVE  \A m : m \in LatestIn(s2, p, n) <=> m = n
  <2>1. n \in SamplesIn(s2, p)
    BY <1>1, <1>2
  <2>2. \A m \in SamplesIn(s2, p) : m # n => n \in m + 1 .. n
    BY <1>0, <1>1
  <2>3. \A k : k \notin n + 1 .. n
    BY <1>0
  <2>4. n \in LatestIn(s2, p, n)
    BY <1>0, <2>1, <2>3 DEF LatestIn
  <2>5. \A m \in LatestIn(s2, p, n) : m = n
    BY <2>1, <2>2 DEF LatestIn
  <2>6. QED BY <2>4, <2>5
<1>3. ASSUME ForgetsIn(s2, n, p)
      PROVE  LatestIn(s2, p, n) = {}
  <2>1. ~(IsSampleIn(s2, n) /\ s2[n].pid = p)
    BY <1>3 DEF ForgetsIn, IsSampleIn
  <2>2. \A m \in SamplesIn(s2, p) : n \in m + 1 .. n
    BY <1>0, <1>1, <2>1
  <2>3. QED BY <1>3, <2>2 DEF LatestIn
<1>4. ASSUME ~(IsSampleIn(s2, n) /\ s2[n].pid = p), ~ForgetsIn(s2, n, p)
      PROVE  LatestIn(s2, p, n) = LatestIn(s, p, n - 1)
  <2>1. \A m : m \in SamplesIn(s2, p) <=> m \in SamplesIn(s, p)
    BY <1>1, <1>4
  <2>2. \A m \in SamplesIn(s, p) : m <= n /\ m <= n - 1
    BY <1>0, <1>1
  <2>3. ASSUME NEW m \in SamplesIn(s, p)
        PROVE  (\A k \in m + 1 .. n : ~ForgetsIn(s2, k, p) /\ k \notin SamplesIn(s2, p)) <=>
               (\A k \in m + 1 .. n - 1 : ~ForgetsIn(s, k, p) /\ k \notin SamplesIn(s, p))
    <3>1. m \in 1 .. n - 1
      BY <1>1
    <3>2. \A k : k \in m + 1 .. n <=> k \in m + 1 .. n - 1 \/ k = n
      BY <1>0, <3>1
    <3>3. \A k \in m + 1 .. n - 1 : k \in 1 .. n - 1
      BY <1>0, <3>1
    <3>4. n \notin SamplesIn(s, p)
      BY <1>0, <1>1
    <3>5. QED BY <1>1, <1>4, <2>1, <3>2, <3>3, <3>4, Zenon
  <2>4. QED BY <2>1, <2>2, <2>3 DEF LatestIn
<1>5. QED BY <1>2, <1>3, <1>4

\* The last layout of a sequence.
LEMMA LayoutsAre ==
  ASSUME NEW s, NEW n \in Nat \ {0}, s[1].what = "layout"
  PROVE  /\ Max(LayoutsUpTo(s, n)) \in LayoutsUpTo(s, n)
         /\ \A m \in LayoutsUpTo(s, n) : m <= Max(LayoutsUpTo(s, n))
         /\ \A x \in LayoutsUpTo(s, n) :
              (\A m \in LayoutsUpTo(s, n) : m <= x) => x = Max(LayoutsUpTo(s, n))
<1>1. LayoutsUpTo(s, n) \in SUBSET Nat /\ 1 \in LayoutsUpTo(s, n)
      /\ \A m \in LayoutsUpTo(s, n) : m <= n
  BY DEF LayoutsUpTo
<1>2. PICK m \in LayoutsUpTo(s, n) : \A k \in LayoutsUpTo(s, n) : k <= m
  BY <1>1, GreatestNatural
<1>3. Max(LayoutsUpTo(s, n)) = m
  BY <1>1, <1>2, GreatestIsMax
<1>4. ASSUME NEW x \in LayoutsUpTo(s, n), \A k \in LayoutsUpTo(s, n) : k <= x
      PROVE  x = m
  BY <1>1, <1>2, <1>4
<1>5. QED BY <1>2, <1>3, <1>4

\* The layout at an observation stays the same, and a new one counts from its place.
LEMMA TypesKept ==
  ASSUME NEW s, NEW s2, NEW n, Longer(s, s2, n), s2[1].what = "layout"
  PROVE  /\ \A i \in 1 .. n - 1 : TypesIn(s2, i) = TypesIn(s, i)
         /\ s2[n].what = "layout" => TypesIn(s2, n) = s2[n].types
         /\ s2[n].what # "layout" => n > 1 /\ TypesIn(s2, n) = TypesIn(s, n - 1)
<1>0. n \in Nat \ {0} /\ \A k \in 1 .. n - 1 : s2[k] = s[k]
  BY DEF Longer
<1>1. ASSUME NEW i \in 1 .. n - 1
      PROVE  TypesIn(s2, i) = TypesIn(s, i) /\ LayoutsUpTo(s2, i) = LayoutsUpTo(s, i)
  <2>1. \A m \in 1 .. i : s2[m] = s[m]
    BY <1>0
  <2>2. LayoutsUpTo(s2, i) = LayoutsUpTo(s, i)
    BY <2>1, Zenon DEF LayoutsUpTo
  <2>3. s[1].what = "layout" /\ i \in Nat \ {0}
    BY <1>0
  <2>4. Max(LayoutsUpTo(s, i)) \in 1 .. i
    BY <2>3, LayoutsAre DEF LayoutsUpTo
  <2>5. QED BY <2>1, <2>2, <2>4 DEF TypesIn
<1>2. ASSUME s2[n].what = "layout"
      PROVE  TypesIn(s2, n) = s2[n].types
  <2>1. n \in LayoutsUpTo(s2, n) /\ \A m \in LayoutsUpTo(s2, n) : m <= n
    BY <1>0, <1>2 DEF LayoutsUpTo
  <2>2. n = Max(LayoutsUpTo(s2, n))
    BY <1>0, <2>1, LayoutsAre
  <2>3. QED BY <2>2 DEF TypesIn
<1>3. ASSUME s2[n].what # "layout"
      PROVE  n > 1 /\ TypesIn(s2, n) = TypesIn(s, n - 1)
  <2>1. n > 1
    BY <1>0, <1>3
  <2>2. LayoutsUpTo(s2, n) = LayoutsUpTo(s2, n - 1)
    <3>1. \A m : m \in 1 .. n <=> m \in 1 .. n - 1 \/ m = n
      BY <1>0
    <3>2. QED BY <1>3, <3>1, Zenon DEF LayoutsUpTo
  <2>3. n - 1 \in 1 .. n - 1
    BY <1>0, <2>1
  <2>4. TypesIn(s2, n) = TypesIn(s2, n - 1)
    BY <2>2 DEF TypesIn
  <2>5. TypesIn(s2, n - 1) = TypesIn(s, n - 1)
    BY <1>1, <2>3
  <2>6. QED BY <2>1, <2>4, <2>5
<1>4. QED BY <1>1, <1>2, <1>3

\* The samples compared for an audio PID at one moment.
ComparedAt(s, a, n) ==
  {c \in {n} \X LatestIn(s, a, n) \X UNION {LatestIn(s, v, n) : v \in VideoIn(s, n)} :
     s[c[2]].at.segment = s[c[3]].at.segment}

\* The comparisons are those of each moment that sets one off.
LEMMA ComparisonsAre ==
  ASSUME NEW s, NEW a
  PROVE  \A c : c \in ComparisonsIn(s, a) <=> \E n \in TriggersIn(s, a) : c \in ComparedAt(s, a, n)
BY DEF ComparisonsIn, ComparedAt

\* What a comparison at a moment compares.
LEMMA ComparedAtIs ==
  ASSUME NEW s, NEW a, NEW n, NEW c \in ComparedAt(s, a, n)
  PROVE  /\ c[1] = n /\ c[2] \in LatestIn(s, a, n)
         /\ \E v \in VideoIn(s, n) : c[3] \in LatestIn(s, v, n)
BY DEF ComparedAt

\* There is none when the program has no such sample.
LEMMA NoneCompared ==
  ASSUME NEW s, NEW a, NEW n, NEW v, VideoIn(s, n) = {v},
         LatestIn(s, a, n) = {} \/ LatestIn(s, v, n) = {}
  PROVE  ComparedAt(s, a, n) = {}
BY DEF ComparedAt

\* There is one, of samples of one segment, when it has both.
LEMMA OneCompared ==
  ASSUME NEW s, NEW a, NEW n, NEW v, VideoIn(s, n) = {v}, NEW m, NEW k,
         LatestIn(s, a, n) = {m}, LatestIn(s, v, n) = {k}
  PROVE  /\ s[m].at.segment = s[k].at.segment => ComparedAt(s, a, n) = {<<n, m, k>>}
         /\ s[m].at.segment # s[k].at.segment => ComparedAt(s, a, n) = {}
<1>1. UNION {LatestIn(s, w, n) : w \in VideoIn(s, n)} = {k}
  OBVIOUS
<1>2. ComparedAt(s, a, n) = {c \in {n} \X {m} \X {k} : s[c[2]].at.segment = s[c[3]].at.segment}
  BY <1>1 DEF ComparedAt
<1>3. \A c : c \in {n} \X {m} \X {k} <=> c = <<n, m, k>>
  OBVIOUS
<1>4. \A c : c \in ComparedAt(s, a, n) <=> c = <<n, m, k>> /\ s[m].at.segment = s[k].at.segment
  BY <1>2, <1>3
<1>5. QED BY <1>4

\* What was compared stays so, and one more observation adds the comparisons of its moment.
LEMMA ComparisonsGrow ==
  ASSUME NEW s, NEW s2, NEW n, Longer(s, s2, n), s2[1].what = "layout", NEW a
  PROVE  /\ \A c : c \in ComparisonsIn(s2, a) <=>
                      c \in ComparisonsIn(s, a) \/ (n \in TriggersIn(s2, a) /\ c \in ComparedAt(s2, a, n))
         /\ \A c \in ComparisonsIn(s, a) : /\ c \notin ComparedAt(s2, a, n)
                                           /\ ApartIn(s2, c) = ApartIn(s, c)
<1>0. n \in Nat \ {0} /\ DOMAIN s = 1 .. n - 1 /\ DOMAIN s2 = 1 .. n
      /\ \A k \in 1 .. n - 1 : s2[k] = s[k]
  BY DEF Longer
<1>1. ASSUME NEW i \in 1 .. n - 1
      PROVE  TypesIn(s2, i) = TypesIn(s, i) /\ VideoIn(s2, i) = VideoIn(s, i)
             /\ \A p : LatestIn(s2, p, i) = LatestIn(s, p, i)
  BY TypesKept, LatestKept DEF VideoIn
<1>2. ASSUME NEW i \in 1 .. n - 1
      PROVE  i \in TriggersIn(s2, a) <=> i \in TriggersIn(s, a)
  <2>1. IsSampleIn(s2, i) <=> IsSampleIn(s, i)
    BY SamplesGrow
  <2>2. i \in DOMAIN s /\ i \in DOMAIN s2 /\ s2[i] = s[i]
    BY <1>0
  <2>3. QED BY <1>1, <2>1, <2>2, Zenon DEF TriggersIn
<1>3. ASSUME NEW i \in 1 .. n - 1, NEW c
      PROVE  /\ c \in ComparedAt(s2, a, i) <=> c \in ComparedAt(s, a, i)
             /\ c \in ComparedAt(s, a, i) => c[2] \in 1 .. n - 1 /\ c[3] \in 1 .. n - 1
  <2>1. \A p : LatestIn(s, p, i) \subseteq 1 .. n - 1
    BY SamplesGrow DEF LatestIn
  <2>2. \A v : LatestIn(s2, v, i) = LatestIn(s, v, i)
    BY <1>1
  <2> DEFINE V == UNION {LatestIn(s, v, i) : v \in VideoIn(s, i)}
             V2 == UNION {LatestIn(s2, v, i) : v \in VideoIn(s2, i)}
  <2>3. V2 = V
    <3>1. VideoIn(s2, i) = VideoIn(s, i)
      BY <1>1
    <3>2. \A x : x \in V2 <=> \E v \in VideoIn(s, i) : x \in LatestIn(s2, v, i)
      BY <3>1
    <3>3. \A x : x \in V <=> \E v \in VideoIn(s, i) : x \in LatestIn(s, v, i)
      OBVIOUS
    <3> HIDE DEF V, V2
    <3>4. QED BY <2>2, <3>2, <3>3
  <2>4. V \subseteq 1 .. n - 1
    BY <2>1
  <2>5. /\ ComparedAt(s, a, i) = {d \in {i} \X LatestIn(s, a, i) \X V :
                                     s[d[2]].at.segment = s[d[3]].at.segment}
        /\ ComparedAt(s2, a, i) = {d \in {i} \X LatestIn(s2, a, i) \X V2 :
                                     s2[d[2]].at.segment = s2[d[3]].at.segment}
    BY DEF ComparedAt
  <2> HIDE DEF V, V2
  <2>6. LatestIn(s2, a, i) = LatestIn(s, a, i) /\ LatestIn(s, a, i) \subseteq 1 .. n - 1
    BY <2>1, <2>2
  <2>7. ASSUME c \in {i} \X LatestIn(s, a, i) \X V
        PROVE  /\ c[2] \in 1 .. n - 1 /\ c[3] \in 1 .. n - 1
               /\ s2[c[2]] = s[c[2]] /\ s2[c[3]] = s[c[3]]
    <3>1. c[2] \in LatestIn(s, a, i) /\ c[3] \in V
      BY <2>7
    <3>2. QED BY <1>0, <2>4, <2>6, <3>1
  <2>8. QED BY <2>3, <2>5, <2>6, <2>7
<1>4. ASSUME NEW c
      PROVE  c \in ComparisonsIn(s2, a) <=>
               c \in ComparisonsIn(s, a) \/ (n \in TriggersIn(s2, a) /\ c \in ComparedAt(s2, a, n))
  <2>1. \A i \in TriggersIn(s, a) : i \in 1 .. n - 1
    BY <1>0 DEF TriggersIn
  <2>2. \A i \in TriggersIn(s2, a) : i \in 1 .. n - 1 \/ i = n
    BY <1>0 DEF TriggersIn
  <2>3. ASSUME c \in ComparisonsIn(s2, a)
        PROVE  c \in ComparisonsIn(s, a) \/ (n \in TriggersIn(s2, a) /\ c \in ComparedAt(s2, a, n))
    <3>1. PICK i \in TriggersIn(s2, a) : c \in ComparedAt(s2, a, i)
      BY <2>3, ComparisonsAre
    <3>2. CASE i \in 1 .. n - 1
      <4>1. i \in TriggersIn(s, a) /\ c \in ComparedAt(s, a, i)
        BY <1>2, <1>3, <3>1, <3>2
      <4>2. QED BY <4>1, ComparisonsAre
    <3>3. QED BY <2>2, <3>1, <3>2
  <2>4. ASSUME c \in ComparisonsIn(s, a)
        PROVE  c \in ComparisonsIn(s2, a)
    <3>1. PICK i \in TriggersIn(s, a) : c \in ComparedAt(s, a, i)
      BY <2>4, ComparisonsAre
    <3>2. i \in TriggersIn(s2, a) /\ c \in ComparedAt(s2, a, i)
      BY <1>2, <1>3, <2>1, <3>1
    <3>3. QED BY <3>2, ComparisonsAre
  <2>5. ASSUME n \in TriggersIn(s2, a), c \in ComparedAt(s2, a, n)
        PROVE  c \in ComparisonsIn(s2, a)
    BY <2>5, ComparisonsAre
  <2>6. QED BY <2>3, <2>4, <2>5
<1>5. ASSUME NEW c \in ComparisonsIn(s, a)
      PROVE  c \notin ComparedAt(s2, a, n) /\ ApartIn(s2, c) = ApartIn(s, c)
  <2>1. PICK i \in TriggersIn(s, a) : c \in ComparedAt(s, a, i)
    BY ComparisonsAre
  <2>2. i \in 1 .. n - 1 /\ i # n
    BY <1>0 DEF TriggersIn
  <2>3. c[1] = i
    BY <2>1, ComparedAtIs
  <2>4. c \notin ComparedAt(s2, a, n)
    BY <2>2, <2>3, ComparedAtIs
  <2>5. c[2] \in 1 .. n - 1 /\ c[3] \in 1 .. n - 1
    BY <1>3, <2>1, <2>2
  <2>6. TrueLeadIn(s2, c[2]) = TrueLeadIn(s, c[2]) /\ TrueLeadIn(s2, c[3]) = TrueLeadIn(s, c[3])
    BY <2>5, SamplesGrow
  <2>7. QED BY <2>4, <2>6 DEF ApartIn
<1>6. QED BY <1>4, <1>5

-------------------------------------------------------------------------------
(* What one observation does to the lead of a PID.                           *)

\* s2 is what was observed with the n-th.
Observed(s, s2, n) ==
  /\ ObservedOK(s) /\ ObservedOK(s2) /\ Longer(s, s2, n)
  /\ Len(s) = n - 1 /\ Len(s2) = n /\ s2[1].what = "layout"

\* The samples of a PID are numbers below the next one, with integers for leads.
LEMMA SamplesAre ==
  ASSUME NEW s, NEW s2, NEW n, Observed(s, s2, n), NEW p
  PROVE  /\ n \in Nat \ {0} /\ SamplesIn(s, p) \in SUBSET (1 .. n - 1)
         /\ IsFiniteSet(SamplesIn(s, p)) /\ IsFiniteSet(NegativesIn(s, p))
         /\ Cardinality(SamplesIn(s, p)) \in Nat /\ Cardinality(NegativesIn(s, p)) \in Nat
         /\ Cardinality(SamplesIn(s, p)) = 0 <=> SamplesIn(s, p) = {}
         /\ \A m \in SamplesIn(s2, p) : TrueLeadIn(s2, m) \in Int
         /\ \A m \in SamplesIn(s, p) : TrueLeadIn(s, m) \in Int /\ TrueLeadIn(s2, m) = TrueLeadIn(s, m)
<1>1. n \in Nat \ {0}
  BY DEF Observed, Longer
<1>2. Longer(s, s2, n) /\ ObservedOK(s) /\ ObservedOK(s2)
  BY DEF Observed
<1>3. SamplesIn(s, p) \in SUBSET (1 .. n - 1) /\ NegativesIn(s, p) \in SUBSET (1 .. n - 1)
  BY <1>2, SamplesGrow DEF NegativesIn
<1>4. IsFiniteSet(SamplesIn(s, p)) /\ IsFiniteSet(NegativesIn(s, p))
  BY <1>1, <1>3, FS_Interval, FS_Subset
<1>5. /\ Cardinality(SamplesIn(s, p)) \in Nat /\ Cardinality(NegativesIn(s, p)) \in Nat
      /\ Cardinality(SamplesIn(s, p)) = 0 <=> SamplesIn(s, p) = {}
  BY <1>4, FS_CardinalityType, FS_EmptySet
<1>6. ASSUME NEW m \in SamplesIn(s2, p)
      PROVE  TrueLeadIn(s2, m) \in Int
  <2>1. m \in DOMAIN s2 /\ IsSampleIn(s2, m)
    BY DEF SamplesIn
  <2>2. TrueLeadIn(s2, m) \in (StampPeriod \div 2) - StampPeriod .. (StampPeriod \div 2) - 1
    BY <1>2, <2>1, TrueLeadIs
  <2>3. QED BY <2>2, LeadAssumption
<1>7. ASSUME NEW m \in SamplesIn(s, p)
      PROVE  TrueLeadIn(s, m) \in Int /\ TrueLeadIn(s2, m) = TrueLeadIn(s, m)
  <2>1. m \in 1 .. n - 1 /\ m \in SamplesIn(s2, p)
    BY <1>2, <1>3, SamplesGrow
  <2>2. TrueLeadIn(s2, m) = TrueLeadIn(s, m)
    BY <1>2, <2>1, SamplesGrow
  <2>3. QED BY <1>6, <2>1, <2>2
<1>8. QED BY <1>1, <1>3, <1>4, <1>5, <1>6, <1>7

\* The extremes of a PID without a new sample.
LEMMA ExtremesKept ==
  ASSUME NEW s, NEW s2, NEW n, Observed(s, s2, n), NEW p, ~(IsSampleIn(s2, n) /\ s2[n].pid = p),
         NEW l, ExtremesOK(s, p, l), NEW l2,
         l2.samples = l.samples, l2.negative = l.negative, l2.min = l.min, l2.max = l.max
  PROVE  ExtremesOK(s2, p, l2)
<1>1. Longer(s, s2, n)
  BY DEF Observed
<1>2. SamplesIn(s2, p) = SamplesIn(s, p)
  BY <1>1, SamplesGrow
<1>3. \A m \in SamplesIn(s, p) : TrueLeadIn(s2, m) = TrueLeadIn(s, m)
  BY SamplesAre
<1>4. NegativesIn(s2, p) = NegativesIn(s, p)
  BY <1>2, <1>3 DEF NegativesIn
<1>5. QED BY <1>2, <1>3, <1>4, Zenon DEF ExtremesOK

\* What a sample makes of a lead.
SampledIs(l, sample, l2) ==
  /\ DOMAIN l2 = LeadFields
  /\ l2.samples = l.samples + 1
  /\ sample.ticks < 0 => l2.negative = l.negative + 1
  /\ ~(sample.ticks < 0) => l2.negative = l.negative
  /\ l.samples = 0 \/ sample.ticks < l.min.ticks => l2.min = sample
  /\ ~(l.samples = 0 \/ sample.ticks < l.min.ticks) => l2.min = l.min
  /\ l.samples = 0 \/ sample.ticks > l.max.ticks => l2.max = sample
  /\ ~(l.samples = 0 \/ sample.ticks > l.max.ticks) => l2.max = l.max
  /\ l2.last = sample /\ l2.hasLast
  /\ l2.comparisons = l.comparisons /\ l2.worst = l.worst

\* That is what Sampled does.
LEMMA SampledAre ==
  ASSUME NEW l, DOMAIN l = LeadFields, NEW sample, NEW hasDTS
  PROVE  SampledIs(l, sample, Sampled(l, sample, hasDTS))
<1>1. ASSUME NEW l2, l2 = Sampled(l, sample, hasDTS)
      PROVE  SampledIs(l, sample, l2)
  BY <1>1 DEF Sampled, SampledIs, LeadFields
<1>2. QED BY <1>1

\* The extremes of a PID with a new sample.
LEMMA ExtremesGrow ==
  ASSUME NEW s, NEW s2, NEW n, Observed(s, s2, n), NEW p, IsSampleIn(s2, n), s2[n].pid = p,
         NEW l, ExtremesOK(s, p, l), NEW sample, sample.ticks = TrueLeadIn(s2, n), sample.offset = n,
         NEW l2, SampledIs(l, sample, l2)
  PROVE  ExtremesOK(s2, p, l2)
<1> DEFINE S == SamplesIn(s, p)
           S2 == SamplesIn(s2, p)
           x == TrueLeadIn(s2, n)
<1>1. Longer(s, s2, n) /\ n \in Nat \ {0} /\ S \in SUBSET (1 .. n - 1)
  BY SamplesAre DEF Observed
<1>2. n \notin S /\ n \in S2 /\ \A m : m \in S2 <=> m \in S \/ m = n
  BY <1>1, SamplesGrow
<1>3. \A m \in S : TrueLeadIn(s, m) \in Int /\ TrueLeadIn(s2, m) = TrueLeadIn(s, m)
  BY SamplesAre
<1>4. x \in Int
  BY <1>2, SamplesAre
<1>5. /\ IsFiniteSet(S) /\ IsFiniteSet(NegativesIn(s, p))
      /\ Cardinality(S) \in Nat /\ Cardinality(NegativesIn(s, p)) \in Nat
      /\ Cardinality(S) = 0 <=> S = {}
  BY SamplesAre
<1>6. Cardinality(S2) = Cardinality(S) + 1
  <2> HIDE DEF S, S2
  <2>1. S2 = S \cup {n}
    BY <1>2
  <2>2. Cardinality(S \cup {n}) = Cardinality(S) + 1
    BY <1>2, <1>5, FS_AddElement
  <2>3. QED BY <2>1, <2>2
<1>7. /\ x < 0 => Cardinality(NegativesIn(s2, p)) = Cardinality(NegativesIn(s, p)) + 1
      /\ ~(x < 0) => Cardinality(NegativesIn(s2, p)) = Cardinality(NegativesIn(s, p))
  <2>1. \A m : m \in NegativesIn(s2, p) <=> m \in NegativesIn(s, p) \/ (m = n /\ x < 0)
    BY <1>2, <1>3 DEF NegativesIn
  <2>2. n \notin NegativesIn(s, p)
    BY <1>2 DEF NegativesIn
  <2>3. CASE x < 0
    <3>1. NegativesIn(s2, p) = NegativesIn(s, p) \cup {n}
      BY <2>1, <2>3
    <3>2. Cardinality(NegativesIn(s, p) \cup {n}) = Cardinality(NegativesIn(s, p)) + 1
      BY <1>5, <2>2, FS_AddElement
    <3>3. QED BY <2>3, <3>1, <3>2
  <2>4. CASE ~(x < 0)
    <3>1. NegativesIn(s2, p) = NegativesIn(s, p)
      BY <2>1, <2>4
    <3>2. QED BY <2>4, <3>1
  <2>5. QED BY <2>3, <2>4
<1>8. /\ l.samples = Cardinality(S) /\ l.negative = Cardinality(NegativesIn(s, p))
      /\ l.samples > 0 =>
           /\ \E m \in S : l.min.ticks = TrueLeadIn(s, m)
           /\ \A m \in S : l.min.ticks <= TrueLeadIn(s, m)
           /\ l.max.offset \in S /\ TrueLeadIn(s, l.max.offset) = l.max.ticks
           /\ \A m \in S : /\ TrueLeadIn(s, m) <= l.max.ticks
                           /\ TrueLeadIn(s, m) = l.max.ticks => l.max.offset <= m
  BY DEF ExtremesOK
<1> HIDE DEF S, S2, x
<1>9. l2.samples = Cardinality(S2) /\ l2.negative = Cardinality(NegativesIn(s2, p))
  BY <1>6, <1>7, <1>8 DEF SampledIs, x
<1>10. CASE S = {}
  <2>1. l.samples = 0 /\ \A m \in S2 : m = n
    BY <1>2, <1>5, <1>8, <1>10
  <2>2. l2.min = sample /\ l2.max = sample
    BY <2>1 DEF SampledIs
  <2>3. l2.min.ticks = x /\ l2.max.ticks = x /\ l2.max.offset = n
    BY <2>2 DEF x
  <2>4. n \in S2 /\ TrueLeadIn(s2, n) = x /\ x <= x /\ n <= n
    BY <1>1, <1>2, <1>4 DEF x
  <2>5. QED BY <1>9, <2>1, <2>3, <2>4 DEF ExtremesOK, S2
<1>11. CASE S # {}
  <2>1. l.samples > 0 /\ l.samples # 0
    BY <1>5, <1>8, <1>11, SMT
  <2>2. l.min.ticks \in Int /\ l.max.ticks \in Int /\ l.max.offset \in S
    BY <1>3, <1>8, <2>1
  <2>3. /\ \E m \in S2 : l2.min.ticks = TrueLeadIn(s2, m)
        /\ \A m \in S2 : l2.min.ticks <= TrueLeadIn(s2, m)
    <3>1. CASE x < l.min.ticks
      <4>1. l2.min.ticks = x
        BY <3>1 DEF SampledIs, x
      <4>2. \A m \in S : x <= TrueLeadIn(s2, m)
        BY <1>3, <1>4, <1>8, <2>1, <2>2, <3>1
      <4>3. QED BY <1>2, <1>4, <4>1, <4>2 DEF x
    <3>2. CASE ~(x < l.min.ticks)
      <4>1. l2.min.ticks = l.min.ticks
        BY <2>1, <3>2 DEF SampledIs, x
      <4>2. l.min.ticks <= x
        BY <1>4, <2>2, <3>2
      <4>3. \A m \in S2 : m \in S \/ m = n
        BY <1>2
      <4>4. QED BY <1>2, <1>3, <1>8, <2>1, <4>1, <4>2, <4>3 DEF x
    <3>3. QED BY <3>1, <3>2
  <2>4. /\ l2.max.offset \in S2 /\ TrueLeadIn(s2, l2.max.offset) = l2.max.ticks
        /\ \A m \in S2 : /\ TrueLeadIn(s2, m) <= l2.max.ticks
                         /\ TrueLeadIn(s2, m) = l2.max.ticks => l2.max.offset <= m
    <3>1. CASE x > l.max.ticks
      <4>1. l2.max.ticks = x /\ l2.max.offset = n
        BY <3>1 DEF SampledIs, x
      <4>2. \A m \in S : TrueLeadIn(s2, m) < x
        BY <1>3, <1>4, <1>8, <2>1, <2>2, <3>1
      <4>3. \A m \in S : TrueLeadIn(s2, m) <= x /\ TrueLeadIn(s2, m) # x
        BY <1>3, <1>4, <4>2
      <4>4. QED BY <1>1, <1>2, <1>4, <4>1, <4>3 DEF x
    <3>2. CASE ~(x > l.max.ticks)
      <4>1. l2.max = l.max
        BY <2>1, <3>2 DEF SampledIs, x
      <4>2. x <= l.max.ticks /\ l.max.offset <= n
        <5>1. l.max.offset \in 1 .. n - 1
          BY <1>1, <2>2
        <5>2. QED BY <1>1, <1>4, <2>2, <3>2, <5>1
      <4>3. \A m \in S2 : m \in S \/ m = n
        BY <1>2
      <4>4. QED BY <1>2, <1>3, <1>8, <2>1, <2>2, <4>1, <4>2, <4>3 DEF x
    <3>3. QED BY <3>1, <3>2
  <2>5. QED BY <1>9, <2>3, <2>4 DEF ExtremesOK, S2
<1>12. QED BY <1>10, <1>11

\* The latest sample of a PID without a new one.
LEMMA LatestKeeps ==
  ASSUME NEW s, NEW s2, NEW n, Observed(s, s2, n), NEW p, ~(IsSampleIn(s2, n) /\ s2[n].pid = p),
         NEW l, LatestOK(s, p, l), NEW l2, l2.hasLast \in BOOLEAN,
         ForgetsIn(s2, n, p) => ~l2.hasLast,
         ~ForgetsIn(s2, n, p) => l2.last = l.last /\ (l2.hasLast <=> l.hasLast)
  PROVE  LatestOK(s2, p, l2)
<1>1. Longer(s, s2, n) /\ Len(s) = n - 1 /\ Len(s2) = n
  BY DEF Observed
<1>2. CASE ForgetsIn(s2, n, p)
  <2>1. LatestIn(s2, p, n) = {} /\ ~l2.hasLast
    BY <1>1, <1>2, LatestNow
  <2>2. QED BY <1>1, <2>1 DEF LatestOK
<1>3. CASE ~ForgetsIn(s2, n, p)
  <2>1. LatestIn(s2, p, n) = LatestIn(s, p, n - 1)
    BY <1>1, <1>3, LatestNow
  <2>2. CASE ~l.hasLast
    BY <1>1, <1>3, <2>1, <2>2 DEF LatestOK
  <2>3. CASE l.hasLast
    <3>1. /\ LatestIn(s, p, n - 1) = {l.last.offset}
          /\ l.last.ticks = TrueLeadIn(s, l.last.offset)
          /\ l.last.segment = s[l.last.offset].at.segment
      BY <1>1, <2>3 DEF LatestOK
    <3>2. l.last.offset \in SamplesIn(s, p)
      BY <3>1 DEF LatestIn
    <3>3. l.last.offset \in 1 .. n - 1
      BY <1>1, <3>2, SamplesGrow
    <3>4. TrueLeadIn(s2, l.last.offset) = TrueLeadIn(s, l.last.offset)
          /\ s2[l.last.offset] = s[l.last.offset]
      BY <1>1, <3>3, SamplesGrow
    <3>5. QED BY <1>1, <1>3, <2>1, <2>3, <3>1, <3>4 DEF LatestOK
  <2>4. QED BY <2>2, <2>3
<1>4. QED BY <1>2, <1>3

\* The latest sample of a PID is the one it has now.
LEMMA LatestSampled ==
  ASSUME NEW s, NEW s2, NEW n, Observed(s, s2, n), NEW p, IsSampleIn(s2, n), s2[n].pid = p,
         NEW l2, l2.hasLast = TRUE, l2.last.offset = n, l2.last.ticks = TrueLeadIn(s2, n),
         l2.last.segment = s2[n].at.segment
  PROVE  LatestOK(s2, p, l2)
<1>1. Longer(s, s2, n) /\ Len(s2) = n
  BY DEF Observed
<1>2. ForgetsIn(s2, n, p) \/ ~ForgetsIn(s2, n, p)
  OBVIOUS
<1>3. \A m : m \in LatestIn(s2, p, n) <=> m = n
  BY <1>1, <1>2, LatestNow, SMTT(40)
<1>4. QED BY <1>1, <1>3 DEF LatestOK

\* The comparisons of a PID when none is added.
LEMMA ComparedKept ==
  ASSUME NEW s, NEW s2, NEW n, Observed(s, s2, n), NEW a, NEW l, ComparedOK(s, a, l),
         n \in TriggersIn(s2, a) => ComparedAt(s2, a, n) = {},
         NEW l2, l2.comparisons = l.comparisons, l2.worst = l.worst
  PROVE  ComparedOK(s2, a, l2)
<1>1. Longer(s, s2, n) /\ s2[1].what = "layout"
  BY DEF Observed
<1>2. ComparisonsIn(s2, a) = ComparisonsIn(s, a)
  BY <1>1, ComparisonsGrow, SMTT(40)
<1>3. \A c \in ComparisonsIn(s, a) : ApartIn(s2, c) = ApartIn(s, c)
  BY <1>1, ComparisonsGrow
<1>4. QED BY <1>2, <1>3, Zenon DEF ComparedOK

\* What a comparison with the lead of the video PID makes of a lead.
CompareIs(l, w, l2) ==
  /\ ~(l.hasLast /\ w.hasLast /\ l.last.segment = w.last.segment) => l2 = l
  /\ l.hasLast /\ w.hasLast /\ l.last.segment = w.last.segment =>
       /\ DOMAIN l2 = LeadFields
       /\ l2.samples = l.samples /\ l2.negative = l.negative /\ l2.min = l.min /\ l2.max = l.max
       /\ l2.last = l.last /\ l2.hasLast = l.hasLast
       /\ l2.comparisons = l.comparisons + 1
       /\ l.comparisons = 0 \/ Distance(l.last, w.last) > l.worst.ticks =>
            /\ l2.worst.ticks = Distance(l.last, w.last)
            /\ l2.worst.audio = l.last /\ l2.worst.video = w.last
       /\ ~(l.comparisons = 0 \/ Distance(l.last, w.last) > l.worst.ticks) => l2.worst = l.worst

\* That is what Compare does.
LEMMA CompareAre ==
  ASSUME NEW l, DOMAIN l = LeadFields, NEW w
  PROVE  CompareIs(l, w, Compare(l, w))
<1>1. ASSUME NEW l2, l2 = Compare(l, w)
      PROVE  CompareIs(l, w, l2)
  <2> DEFINE d == Distance(l.last, w.last)
  <2>1. CASE ~(l.hasLast /\ w.hasLast /\ l.last.segment = w.last.segment)
    BY <1>1, <2>1 DEF Compare, CompareIs
  <2>2. CASE l.hasLast /\ w.hasLast /\ l.last.segment = w.last.segment
    <3>1. l2 = [l EXCEPT
                 !.comparisons = @ + 1,
                 !.worst = IF l.comparisons = 0 \/ d > @.ticks
                             THEN [ticks |-> d, audio |-> l.last, video |-> w.last] ELSE @]
      BY <1>1, <2>2 DEF Compare
    <3> HIDE DEF d
    <3>2. /\ DOMAIN l2 = LeadFields
          /\ l2.samples = l.samples /\ l2.negative = l.negative /\ l2.min = l.min /\ l2.max = l.max
          /\ l2.last = l.last /\ l2.hasLast = l.hasLast
          /\ l2.comparisons = l.comparisons + 1
          /\ l.comparisons = 0 \/ d > l.worst.ticks =>
               l2.worst = [ticks |-> d, audio |-> l.last, video |-> w.last]
          /\ ~(l.comparisons = 0 \/ d > l.worst.ticks) => l2.worst = l.worst
      BY <3>1 DEF LeadFields
    <3>3. QED BY <2>2, <3>2 DEF CompareIs, d
  <2>3. QED BY <2>1, <2>2
<1>2. QED BY <1>1

\* The distance of two leads is how far their samples lie apart.
LEMMA DistanceIs ==
  ASSUME NEW s, NEW x, NEW y, NEW c, x.ticks \in Int, y.ticks \in Int,
         x.ticks = TrueLeadIn(s, c[2]), y.ticks = TrueLeadIn(s, c[3])
  PROVE  Distance(x, y) = ApartIn(s, c) /\ Distance(x, y) \in Int
BY DEF Distance, ApartIn

\* The comparisons of a PID when the moment sets one off.
LEMMA ComparedGrows ==
  ASSUME NEW s, NEW s2, NEW n, Observed(s, s2, n), NEW a, n \in TriggersIn(s2, a),
         NEW v, VideoIn(s2, n) = {v}, NEW l, NEW w,
         ComparedOK(s, a, l), LatestOK(s2, a, l), LatestOK(s2, v, w),
         NEW l2, CompareIs(l, w, l2)
  PROVE  ComparedOK(s2, a, l2)
<1>1. Longer(s, s2, n) /\ s2[1].what = "layout" /\ Len(s2) = n
  BY DEF Observed
<1>2. /\ \A c : c \in ComparisonsIn(s2, a) <=> c \in ComparisonsIn(s, a) \/ c \in ComparedAt(s2, a, n)
      /\ \A c \in ComparisonsIn(s, a) : /\ c \notin ComparedAt(s2, a, n)
                                        /\ ApartIn(s2, c) = ApartIn(s, c)
  BY <1>1, ComparisonsGrow
<1>3. CASE ~l.hasLast \/ ~w.hasLast
  <2>1. LatestIn(s2, a, n) = {} \/ LatestIn(s2, v, n) = {}
    BY <1>1, <1>3 DEF LatestOK
  <2>2. ComparedAt(s2, a, n) = {}
    BY <2>1, NoneCompared
  <2>3. l2 = l
    BY <1>3 DEF CompareIs
  <2>4. QED BY <2>2, <2>3, ComparedKept
<1>4. CASE l.hasLast /\ w.hasLast
  <2> DEFINE m == l.last.offset
             k == w.last.offset
             c == <<n, m, k>>
  <2>1. /\ LatestIn(s2, a, n) = {m} /\ LatestIn(s2, v, n) = {k}
        /\ l.last.ticks = TrueLeadIn(s2, m) /\ w.last.ticks = TrueLeadIn(s2, k)
        /\ l.last.segment = s2[m].at.segment /\ w.last.segment = s2[k].at.segment
    BY <1>1, <1>4 DEF LatestOK
  <2>2. CASE l.last.segment # w.last.segment
    <3>1. s2[m].at.segment # s2[k].at.segment
      BY <2>1, <2>2
    <3>2. ComparedAt(s2, a, n) = {}
      BY <2>1, <3>1, OneCompared, SMTT(40)
    <3>3. l2 = l
      BY <2>2 DEF CompareIs
    <3>4. QED BY <3>2, <3>3, ComparedKept
  <2>3. CASE l.last.segment = w.last.segment
    <3>0. s2[m].at.segment = s2[k].at.segment
      BY <2>1, <2>3
    <3>1. ComparedAt(s2, a, n) = {c}
      <4> HIDE DEF m, k
      <4>1. LatestIn(s2, a, n) = {m} /\ LatestIn(s2, v, n) = {k}
        BY <2>1
      <4>2. s2[m].at.segment = s2[k].at.segment => ComparedAt(s2, a, n) = {<<n, m, k>>}
        BY <4>1, OneCompared
      <4>3. QED BY <3>0, <4>2
    <3>2. m \in SamplesIn(s2, a) /\ k \in SamplesIn(s2, v)
      BY <2>1 DEF LatestIn
    <3>3. l.last.ticks \in Int /\ w.last.ticks \in Int
      BY <2>1, <3>2, SamplesAre
    <3>4. c[2] = m /\ c[3] = k
      OBVIOUS
    <3> HIDE DEF c
    <3>5. Distance(l.last, w.last) = ApartIn(s2, c) /\ Distance(l.last, w.last) \in Int
      BY <2>1, <3>3, <3>4, DistanceIs
    <3> DEFINE d == Distance(l.last, w.last)
    <3> HIDE DEF d
    <3>6. /\ l2.comparisons = l.comparisons + 1
          /\ l.comparisons = 0 \/ d > l.worst.ticks =>
               l2.worst.ticks = d /\ l2.worst.audio = l.last /\ l2.worst.video = w.last
          /\ ~(l.comparisons = 0 \/ d > l.worst.ticks) => l2.worst = l.worst
      BY <1>4, <2>3 DEF CompareIs, d
    <3>7. /\ IsFiniteSet(ComparisonsIn(s, a)) /\ l.comparisons = Cardinality(ComparisonsIn(s, a))
          /\ l.comparisons > 0 =>
               /\ \E x \in ComparisonsIn(s, a) : /\ l.worst.audio.offset = x[2]
                                                 /\ l.worst.video.offset = x[3]
                                                 /\ ApartIn(s, x) = l.worst.ticks
               /\ \A x \in ComparisonsIn(s, a) : ApartIn(s, x) <= l.worst.ticks
      BY DEF ComparedOK
    <3>8. c \notin ComparisonsIn(s, a) /\ \A x : x \in ComparisonsIn(s2, a) <=> x \in ComparisonsIn(s, a) \/ x = c
      BY <1>2, <3>1
    <3>9. IsFiniteSet(ComparisonsIn(s2, a)) /\ Cardinality(ComparisonsIn(s2, a)) = Cardinality(ComparisonsIn(s, a)) + 1
      <4>1. ComparisonsIn(s2, a) = ComparisonsIn(s, a) \cup {c}
        BY <3>8
      <4>2. IsFiniteSet(ComparisonsIn(s, a) \cup {c})
            /\ Cardinality(ComparisonsIn(s, a) \cup {c}) = Cardinality(ComparisonsIn(s, a)) + 1
        BY <3>7, <3>8, FS_AddElement
      <4>3. QED BY <4>1, <4>2
    <3>10. l.comparisons \in Nat /\ (l.comparisons = 0 <=> ComparisonsIn(s, a) = {})
      BY <3>7, FS_CardinalityType, FS_EmptySet
    <3>11. \A x \in ComparisonsIn(s, a) : ApartIn(s2, x) = ApartIn(s, x)
      BY <1>2
    <3>12. c \in ComparisonsIn(s2, a) /\ ApartIn(s2, c) = d /\ d \in Int
      BY <3>5, <3>8 DEF d
    <3>13. CASE l.comparisons = 0
      <4>1. \A x \in ComparisonsIn(s2, a) : x = c
        BY <3>8, <3>10, <3>13
      <4>2. l2.worst.ticks = d /\ l2.worst.audio.offset = c[2] /\ l2.worst.video.offset = c[3]
        BY <3>4, <3>6, <3>13
      <4>3. \A x \in ComparisonsIn(s2, a) : ApartIn(s2, x) <= l2.worst.ticks
        BY <3>12, <4>1, <4>2
      <4>4. QED BY <3>6, <3>7, <3>9, <3>12, <4>2, <4>3 DEF ComparedOK
    <3>14. CASE l.comparisons > 0 /\ d > l.worst.ticks
      <4>1. l2.worst.ticks = d /\ l2.worst.audio.offset = c[2] /\ l2.worst.video.offset = c[3]
        BY <3>4, <3>6, <3>14
      <4>2. PICK y \in ComparisonsIn(s, a) : ApartIn(s, y) = l.worst.ticks
        BY <3>7, <3>14
      <4>3. \A x \in ComparisonsIn(s, a) : ApartIn(s2, x) <= d
        <5>1. \A x \in ComparisonsIn(s, a) : ApartIn(s, x) \in Int
          <6> TAKE x \in ComparisonsIn(s, a)
          <6>1. PICK i \in TriggersIn(s, a) : x \in ComparedAt(s, a, i)
            BY ComparisonsAre
          <6>2. x[2] \in SamplesIn(s, a) /\ \E u : x[3] \in SamplesIn(s, u)
            BY <6>1, ComparedAtIs DEF LatestIn
          <6>3. TrueLeadIn(s, x[2]) \in Int /\ TrueLeadIn(s, x[3]) \in Int
            BY <6>2, SamplesAre
          <6>4. QED BY <6>3 DEF ApartIn
        <5>2. QED BY <3>7, <3>11, <3>12, <3>14, <4>2, <5>1
      <4>4. \A x \in ComparisonsIn(s2, a) : ApartIn(s2, x) <= l2.worst.ticks
        BY <3>8, <3>12, <4>1, <4>3
      <4>5. QED BY <3>6, <3>7, <3>9, <3>12, <4>1, <4>4 DEF ComparedOK
    <3>15. CASE l.comparisons > 0 /\ ~(d > l.worst.ticks)
      <4>1. l2.worst = l.worst
        BY <3>6, <3>10, <3>15
      <4>2. PICK y \in ComparisonsIn(s, a) : /\ l.worst.audio.offset = y[2]
                                              /\ l.worst.video.offset = y[3]
                                              /\ ApartIn(s, y) = l.worst.ticks
        BY <3>7, <3>15
      <4>3. y \in ComparisonsIn(s2, a) /\ ApartIn(s2, y) = l.worst.ticks
        BY <3>8, <3>11, <4>2
      <4>4. l.worst.ticks \in Int
        <5>1. PICK i \in TriggersIn(s, a) : y \in ComparedAt(s, a, i)
          BY ComparisonsAre
        <5>2. y[2] \in SamplesIn(s, a) /\ \E u : y[3] \in SamplesIn(s, u)
          BY <5>1, ComparedAtIs DEF LatestIn
        <5>3. TrueLeadIn(s, y[2]) \in Int /\ TrueLeadIn(s, y[3]) \in Int
          BY <5>2, SamplesAre
        <5>4. QED BY <4>2, <5>3 DEF ApartIn
      <4>5. \A x \in ComparisonsIn(s2, a) : ApartIn(s2, x) <= l.worst.ticks
        BY <3>7, <3>8, <3>11, <3>12, <3>15, <4>4
      <4>6. QED BY <3>6, <3>7, <3>9, <4>1, <4>2, <4>3, <4>5 DEF ComparedOK
    <3>16. QED BY <3>10, <3>13, <3>14, <3>15
  <2>4. QED BY <2>2, <2>3
<1>5. l.hasLast \in BOOLEAN /\ w.hasLast \in BOOLEAN
  BY DEF LatestOK
<1>6. QED BY <1>3, <1>4, <1>5

\* An observation that is no sample leaves a lead as it was, unless it breaks the PID.
LEMMA LeadIdles ==
  ASSUME NEW s, NEW s2, NEW n, Observed(s, s2, n), ~IsSampleIn(s2, n), NEW p, ~ForgetsIn(s2, n, p),
         NEW l, LeadOK(s, p, l)
  PROVE  LeadOK(s2, p, l)
<1>1. DOMAIN l = LeadFields /\ ExtremesOK(s, p, l) /\ LatestOK(s, p, l) /\ ComparedOK(s, p, l)
  BY DEF LeadOK
<1>2. ExtremesOK(s2, p, l)
  BY <1>1, ExtremesKept
<1>3. LatestOK(s2, p, l)
  <2>1. l.hasLast \in BOOLEAN
    BY <1>1 DEF LatestOK
  <2>2. QED BY <1>1, <2>1, LatestKeeps
<1>4. n \notin TriggersIn(s2, p)
  BY DEF TriggersIn
<1>5. ComparedOK(s2, p, l)
  BY <1>1, <1>4, ComparedKept
<1>6. QED BY <1>1, <1>2, <1>3, <1>5 DEF LeadOK

\* After a break, no sample of the PID is compared.
LEMMA LeadForgets ==
  ASSUME NEW s, NEW s2, NEW n, Observed(s, s2, n), ~IsSampleIn(s2, n), NEW p, ForgetsIn(s2, n, p),
         NEW l, LeadOK(s, p, l)
  PROVE  LeadOK(s2, p, Forget(l)) /\ LeadOK(s2, p, Unbracketed(l))
<1>1. DOMAIN l = LeadFields /\ ExtremesOK(s, p, l) /\ LatestOK(s, p, l) /\ ComparedOK(s, p, l)
  BY DEF LeadOK
<1>2. n \notin TriggersIn(s2, p)
  BY DEF TriggersIn
<1>3. ASSUME NEW l2, DOMAIN l2 = LeadFields, l2.samples = l.samples, l2.negative = l.negative,
             l2.min = l.min, l2.max = l.max, l2.comparisons = l.comparisons, l2.worst = l.worst,
             l2.hasLast = FALSE
      PROVE  LeadOK(s2, p, l2)
  <2>1. ExtremesOK(s2, p, l2)
    BY <1>1, <1>3, ExtremesKept
  <2>2. LatestOK(s2, p, l2)
    <3>1. l2.hasLast \in BOOLEAN /\ ~l2.hasLast
      BY <1>3
    <3>2. QED BY <1>1, <3>1, LatestKeeps
  <2>3. ComparedOK(s2, p, l2)
    BY <1>1, <1>2, <1>3, ComparedKept
  <2>4. QED BY <1>3, <2>1, <2>2, <2>3 DEF LeadOK
<1>4. ASSUME NEW l2, l2 = Forget(l) \/ l2 = Unbracketed(l)
      PROVE  /\ DOMAIN l2 = LeadFields /\ l2.samples = l.samples /\ l2.negative = l.negative
             /\ l2.min = l.min /\ l2.max = l.max /\ l2.comparisons = l.comparisons
             /\ l2.worst = l.worst /\ l2.hasLast = FALSE
  BY <1>1, <1>4 DEF Forget, Unbracketed, LeadFields
<1>5. QED BY <1>3, <1>4

\* A new PID has no sample.
LEMMA NewLeadOK ==
  ASSUME NEW s, NEW p, SamplesIn(s, p) = {}
  PROVE  LeadOK(s, p, NewLead)
<1>1. /\ DOMAIN NewLead = LeadFields /\ NewLead.samples = 0 /\ NewLead.negative = 0
      /\ NewLead.hasLast = FALSE /\ NewLead.comparisons = 0
  BY DEF NewLead, LeadFields
<1>2. NegativesIn(s, p) = {} /\ \A n : LatestIn(s, p, n) = {}
  BY DEF NegativesIn, LatestIn
<1>3. \A n : ComparedAt(s, p, n) = {}
  BY <1>2, ComparedAtIs
<1>4. ComparisonsIn(s, p) = {}
  BY <1>3, ComparisonsAre
<1>5. Cardinality({}) = 0 /\ IsFiniteSet({})
  BY FS_EmptySet
<1> DEFINE l == NewLead
<1> HIDE DEF l
<1>6. /\ l.samples = 0 /\ l.negative = 0 /\ l.comparisons = 0
      /\ ~(l.samples > 0) /\ ~(l.comparisons > 0)
      /\ l.hasLast = FALSE
  BY <1>1 DEF l
<1>7. ExtremesOK(s, p, l)
  BY <1>2, <1>5, <1>6 DEF ExtremesOK
<1>8. LatestOK(s, p, l)
  BY <1>2, <1>6 DEF LatestOK
<1>9. ComparedOK(s, p, l)
  BY <1>4, <1>5, <1>6 DEF ComparedOK
<1>10. QED BY <1>1, <1>7, <1>8, <1>9 DEF LeadOK, l

\* A time less than a period away has the same remainder but for the step and a period.
LEMMA PeriodMoves ==
  ASSUME NEW P \in Nat \ {0}, NEW t \in Int, NEW d \in Int, -P <= d, d < P
  PROVE  \/ (t + d) % P = (t % P) + d /\ (t + d) \div P = t \div P
         \/ (t + d) % P = ((t % P) + d) - P /\ (t + d) \div P = (t \div P) + 1
         \/ (t + d) % P = ((t % P) + d) + P /\ (t + d) \div P = (t \div P) - 1
OBVIOUS

\* The difference of two times that is nearest to zero.
LEMMA LeadTicksAre ==
  ASSUME NEW stamp, NEW arrival, NEW d,
         d = (stamp + (StampPeriod - (arrival % StampPeriod))) % StampPeriod
  PROVE  /\ d >= StampPeriod \div 2 => LeadTicks(stamp, arrival) = d - StampPeriod
         /\ ~(d >= StampPeriod \div 2) => LeadTicks(stamp, arrival) = d
BY DEF LeadTicks

\* The lead reckoned from a stamp and an arrival is the true one.
LEMMA LeadTicksIs ==
  ASSUME NEW t \in Int, NEW lead \in (StampPeriod \div 2) - StampPeriod .. (StampPeriod \div 2) - 1
  PROVE  LeadTicks((t + lead) % StampPeriod, t) = lead
<1> DEFINE P == StampPeriod
           H == StampPeriod \div 2
           a == t % P
           b == (t + lead) % P
           d == (b + (P - a)) % P
<1>1. P \in Nat \ {0} /\ H \in Nat /\ 2 * H <= P /\ P <= 2 * H + 1
  BY LeadAssumption
<1>2. lead \in Int /\ H - P <= lead /\ lead < H
  BY <1>1
<1>3. a \in 0 .. P - 1 /\ b \in 0 .. P - 1
  BY <1>1, <1>2
<1>4. b = a + lead \/ b = (a + lead) - P \/ b = (a + lead) + P
  <2>1. P \in Nat \ {0} /\ -P <= lead /\ lead < P
    BY <1>1, <1>2
  <2> HIDE DEF P, H
  <2>2. QED BY <1>2, <2>1, PeriodMoves
<1>5. \A x \in Int : /\ 0 <= x /\ x < P => x % P = x
                     /\ P <= x /\ x < 2 * P => x % P = x - P
  <2> HIDE DEF P
  <2>1. QED BY <1>1
<1>6. /\ d >= H => LeadTicks(b, t) = d - P
      /\ ~(d >= H) => LeadTicks(b, t) = d
  BY LeadTicksAre
<1> HIDE DEF P, H, a, b
<1>7. b + (P - a) \in Int /\ 0 <= b + (P - a) /\ b + (P - a) < 2 * P
  BY <1>1, <1>3
<1>8. b + (P - a) < P => d = b + (P - a)
  BY <1>5, <1>7
<1>9. P <= b + (P - a) => d = b - a
  BY <1>1, <1>3, <1>5, <1>7
<1> HIDE DEF d
<1>10. (d >= H => d - P = lead) /\ (~(d >= H) => d = lead)
  BY <1>1, <1>2, <1>3, <1>4, <1>7, <1>8, <1>9
<1>11. LeadTicks(b, t) = lead
  BY <1>6, <1>10
<1>12. QED BY <1>11 DEF b, P

-------------------------------------------------------------------------------
(* The PES packets counted, and whether a PID is in the layout.              *)

\* Two states that count the same PES packets, with the same tags.
SameHeads(a, b) == b.pes = a.pes /\ b.pts = a.pts /\ b.type = a.type /\ b.active = a.active

\* Recording an interval keeps them.
LEMMA RecordHeads ==
  ASSUME NEW st, StreamOK(st), NEW iv
  PROVE  SameHeads(st, Record(st, iv))
<1>1. CASE ~iv.measured /\ ~Over(iv)
  BY <1>1 DEF Record, SameHeads
<1>2. CASE iv.measured \/ Over(iv)
  <2> DEFINE r == Record(st, iv)
  <2>1. r = [st EXCEPT
          !.intervals = IF iv.measured THEN @ + 1 ELSE @,
          !.exceeded  = IF Over(iv) THEN @ + 1 ELSE @,
          !.firstOver = IF Over(iv) /\ st.exceeded = 0 THEN iv.to ELSE @,
          !.max       = IF ~@.valid \/ iv.ticks > @.ticks THEN iv ELSE @]
    BY <1>2 DEF Record
  <2> HIDE DEF r
  <2>2. SameHeads(st, r)
    BY <2>1 DEF StreamOK, StreamFields, SameHeads
  <2>3. QED BY <2>2 DEF r
<1>3. QED BY <1>1, <1>2

\* So does ending one.
LEMMA EndIntervalHeads ==
  ASSUME NEW st, StreamOK(st)
  PROVE  SameHeads(st, EndInterval(st))
<1> DEFINE d == IF Pending(st).valid THEN Record(st, Pending(st)) ELSE st
           e == EndInterval(st)
<1>1. DOMAIN d = StreamFields /\ SameHeads(st, d)
  <2>1. CASE Pending(st).valid
    BY <2>1, RecordHeads, RecordIs
  <2>2. CASE ~Pending(st).valid
    BY <2>2 DEF SameHeads, StreamOK
  <2>3. QED BY <2>1, <2>2
<1>2. e = [d EXCEPT !.open = FALSE]
  BY DEF EndInterval
<1> HIDE DEF d, e
<1>3. SameHeads(st, e)
  BY <1>1, <1>2 DEF SameHeads, StreamFields
<1>4. QED BY <1>3 DEF e

\* So does placing a packet.
LEMMA PlaceHeads ==
  ASSUME NEW st, StreamOK(st), NEW hasPTS, NEW at, NEW pos
  PROVE  SameHeads(st, Place(st, hasPTS, at, pos))
<1> DEFINE s == IF st.open /\ st.openSegment # at.segment THEN EndInterval(st) ELSE st
           iv == Interval(s.openHasPTS, at.ticks - s.openStart, s.openFrom, pos)
           t == IF ~s.open
                  THEN [s EXCEPT !.open = TRUE, !.openHasPTS = hasPTS, !.openSegment = at.segment,
                                 !.openStart = at.ticks, !.openFrom = pos]
                ELSE IF hasPTS
                  THEN [Record(s, iv) EXCEPT !.openHasPTS = TRUE, !.openStart = at.ticks, !.openFrom = pos]
                ELSE s
           b == Place(st, hasPTS, at, pos)
<1>1. StreamOK(s) /\ SameHeads(st, s)
  <2>1. CASE st.open /\ st.openSegment # at.segment
    BY <2>1, EndIntervalIs, EndIntervalHeads
  <2>2. CASE ~(st.open /\ st.openSegment # at.segment)
    BY <2>2 DEF SameHeads
  <2>3. QED BY <2>1, <2>2
<1>2. b = [t EXCEPT !.placed = @ + 1, !.last = at.ticks, !.lastAt = pos]
  BY DEF Place
<1> HIDE DEF s, b
<1>3. DOMAIN s = StreamFields
  BY <1>1 DEF StreamOK
<1>4. DOMAIN Record(s, iv) = StreamFields /\ SameHeads(s, Record(s, iv))
  BY <1>1, RecordIs, RecordHeads
<1> HIDE DEF iv
<1>5. DOMAIN t = StreamFields /\ SameHeads(s, t)
  <2>1. CASE ~s.open
    <3>1. t = [s EXCEPT !.open = TRUE, !.openHasPTS = hasPTS, !.openSegment = at.segment,
                                 !.openStart = at.ticks, !.openFrom = pos]
      BY <2>1
    <3> HIDE DEF t
    <3>2. QED BY <1>3, <3>1 DEF SameHeads, StreamFields
  <2>2. CASE s.open /\ hasPTS
    <3>1. t = [Record(s, iv) EXCEPT !.openHasPTS = TRUE, !.openStart = at.ticks, !.openFrom = pos]
      BY <2>2
    <3> HIDE DEF t
    <3>2. QED BY <1>4, <3>1 DEF SameHeads, StreamFields
  <2>3. CASE s.open /\ ~hasPTS
    BY <1>3, <2>3 DEF SameHeads
  <2>4. QED BY <2>1, <2>2, <2>3
<1> HIDE DEF t
<1>6. SameHeads(t, b)
  BY <1>2, <1>5 DEF SameHeads, StreamFields
<1>7. SameHeads(st, b)
  BY <1>1, <1>5, <1>6 DEF SameHeads
<1>8. QED BY <1>7 DEF b

\* A PES packet with a valid header is counted.
LEMMA GoodHeaderHeads ==
  ASSUME NEW a, StreamOK(a), NEW carries, NEW at, NEW pos
  PROVE  /\ GoodHeader(a, carries.hasPTS, at, pos).pes = a.pes + 1
         /\ carries.hasPTS => GoodHeader(a, carries.hasPTS, at, pos).pts = a.pts + 1
         /\ ~carries.hasPTS => GoodHeader(a, carries.hasPTS, at, pos).pts = a.pts
         /\ GoodHeader(a, carries.hasPTS, at, pos).type = a.type
         /\ GoodHeader(a, carries.hasPTS, at, pos).active = a.active
<1> DEFINE hasPTS == carries.hasPTS
           s == [a EXCEPT !.pes = @ + 1, !.pts = IF hasPTS THEN @ + 1 ELSE @]
           b == GoodHeader(a, hasPTS, at, pos)
<1>1. StreamOK(s) /\ SameIntervals(a, s) /\ SameTags(a, s)
  BY CountingIs
<1>2. /\ s.pes = a.pes + 1 /\ s.type = a.type /\ s.active = a.active
      /\ hasPTS => s.pts = a.pts + 1
      /\ ~hasPTS => s.pts = a.pts
  BY DEF StreamOK, StreamFields
<1>3. b = IF ~IsVideoOrAudio(s.type) THEN s
          ELSE IF at.valid THEN Place(s, hasPTS, at, pos)
          ELSE IF hasPTS THEN EndInterval(s)
          ELSE s
  BY DEF GoodHeader
<1> HIDE DEF s, b
<1>4. SameHeads(s, s) /\ SameHeads(s, Place(s, hasPTS, at, pos)) /\ SameHeads(s, EndInterval(s))
  BY <1>1, PlaceHeads, EndIntervalHeads DEF SameHeads
<1>5. SameHeads(s, b)
  BY <1>3, <1>4, Zenon
<1>6. QED BY <1>2, <1>5 DEF SameHeads, b

\* Neither a header that fails a check nor a break is.
LEMMA CutHeads ==
  ASSUME NEW a, StreamOK(a), NEW problem, NEW cause, NEW pos
  PROVE  SameHeads(a, BadHeader(a, problem, pos)) /\ SameHeads(a, Broken(a, cause))
<1>1. SameHeads(a, BadHeader(a, problem, pos))
  <2> DEFINE s == [a EXCEPT !.problems[problem] =
                     [count |-> @.count + 1, first |-> IF @.count = 0 THEN pos ELSE @.first]]
  <2>1. StreamOK(s)
    BY CountingIs
  <2>2. SameHeads(a, s)
    BY DEF StreamOK, StreamFields, SameHeads
  <2>3. BadHeader(a, problem, pos) = EndInterval(s)
    BY DEF BadHeader
  <2> HIDE DEF s
  <2>4. SameHeads(s, EndInterval(s))
    BY <2>1, EndIntervalHeads
  <2>5. QED BY <2>2, <2>3, <2>4 DEF SameHeads
<1>2. SameHeads(a, Broken(a, cause))
  <2> DEFINE s == [a EXCEPT
                     !.unchecked = IF cause = "incomplete_header" THEN @ + 1 ELSE @,
                     !.untrusted = IF cause = "untrusted_payload" THEN @ + 1 ELSE @]
  <2>1. StreamOK(s)
    BY CountingIs
  <2>2. SameHeads(a, s)
    BY DEF StreamOK, StreamFields, SameHeads
  <2>3. Broken(a, cause) = EndInterval(s)
    BY DEF Broken
  <2> HIDE DEF s
  <2>4. SameHeads(s, EndInterval(s))
    BY <2>1, EndIntervalHeads
  <2>5. QED BY <2>2, <2>3, <2>4 DEF SameHeads
<1>3. QED BY <1>1, <1>2

\* A PID of a layout has its type; a new one has no packet.
LEMMA AnnouncedHeads ==
  ASSUME NEW p, NEW type, p \in DOMAIN streams => StreamOK(streams[p])
  PROVE  /\ Announced(p, type).type = type /\ Announced(p, type).active
         /\ p \in DOMAIN streams => /\ Announced(p, type).pes = streams[p].pes
                                    /\ Announced(p, type).pts = streams[p].pts
         /\ p \notin DOMAIN streams => Announced(p, type).pes = 0 /\ Announced(p, type).pts = 0
<1> DEFINE b == Announced(p, type)
<1>1. CASE p \in DOMAIN streams
  <2> DEFINE a == streams[p]
             e == EndInterval(a)
             s == IF ~a.active \/ a.type # type THEN [e EXCEPT !.type = type] ELSE a
  <2>1. b = [s EXCEPT !.active = TRUE, !.applicable = @ \/ IsVideoOrAudio(type)]
    BY <1>1 DEF Announced
  <2>2. StreamOK(a) /\ StreamOK(e) /\ SameHeads(a, e)
    BY <1>1, EndIntervalIs, EndIntervalHeads
  <2> HIDE DEF a, e, b
  <2>3. DOMAIN s = StreamFields /\ s.type = type /\ s.pes = a.pes /\ s.pts = a.pts
    BY <2>2 DEF StreamOK, StreamFields, SameHeads
  <2> HIDE DEF s
  <2>4. b.type = type /\ b.active /\ b.pes = a.pes /\ b.pts = a.pts
    BY <2>1, <2>3 DEF StreamFields
  <2>5. QED BY <1>1, <2>4 DEF a, b
<1>2. CASE p \notin DOMAIN streams
  <2> DEFINE s == NewStream(type)
  <2>1. b = [s EXCEPT !.active = TRUE, !.applicable = @ \/ IsVideoOrAudio(type)]
    BY <1>2 DEF Announced
  <2>2. DOMAIN s = StreamFields /\ s.type = type /\ s.pes = 0 /\ s.pts = 0
    BY DEF NewStream, StreamFields
  <2> HIDE DEF s, b
  <2>3. b.type = type /\ b.active /\ b.pes = 0 /\ b.pts = 0
    BY <2>1, <2>2 DEF StreamFields
  <2>4. QED BY <1>2, <2>3 DEF b
<1>3. QED BY <1>1, <1>2

\* A PID that leaves the layout keeps its counts.
LEMMA RemovedHeads ==
  ASSUME NEW a, StreamOK(a)
  PROVE  Removed(a).pes = a.pes /\ Removed(a).pts = a.pts /\ ~Removed(a).active
<1>1. CASE ~a.active
  BY <1>1 DEF Removed
<1>2. CASE a.active
  <2> DEFINE e == EndInterval(a)
             b == Removed(a)
  <2>1. DOMAIN e = StreamFields /\ SameHeads(a, e)
    BY EndIntervalIs, EndIntervalHeads DEF StreamOK
  <2>2. b = [e EXCEPT !.active = FALSE]
    BY <1>2 DEF Removed
  <2> HIDE DEF e, b
  <2>3. b.pes = a.pes /\ b.pts = a.pts /\ ~b.active
    BY <2>1, <2>2 DEF SameHeads, StreamFields
  <2>4. QED BY <2>3 DEF b
<1>3. QED BY <1>1, <1>2

\* What PES packets with a PTS one observation more makes of a PID.
LEMMA StampedGrow ==
  ASSUME NEW s, NEW s2, NEW n, Longer(s, s2, n), NEW p
  PROVE  \A m : m \in StampedIn(s2, p) <=>
                  m \in StampedIn(s, p) \/ (m = n /\ IsStampedIn(s2, n, p))
<1>1. /\ \A m \in 1 .. n - 1 : s2[m] = s[m]
      /\ DOMAIN s = 1 .. n - 1 /\ DOMAIN s2 = 1 .. n /\ n \in Nat \ {0}
  BY DEF Longer
<1>2. (\A m : m \in 1 .. n <=> m \in 1 .. n - 1 \/ m = n) /\ n \notin 1 .. n - 1
  BY <1>1
<1> TAKE m
<1>3. m \in StampedIn(s2, p) <=>
        m \in 1 .. n /\ IsStampedIn(s2, m, p)
  BY <1>1, Zenon DEF StampedIn
<1>4. m \in StampedIn(s, p) <=>
        m \in 1 .. n - 1 /\ IsStampedIn(s, m, p)
  BY <1>1, Zenon DEF StampedIn
<1>5. CASE m = n
  BY <1>2, <1>3, <1>4, <1>5, Zenon
<1>6. CASE m \in 1 .. n - 1
  <2>1. (IsStampedIn(s2, m, p) <=> IsStampedIn(s, m, p)) /\ m # n
    BY <1>1, <1>2, <1>6, Zenon DEF IsStampedIn
  <2>2. QED BY <1>2, <1>3, <1>4, <1>6, <2>1, Zenon
<1>7. CASE m # n /\ m \notin 1 .. n - 1
  BY <1>2, <1>3, <1>4, <1>7, Zenon
<1>8. QED BY <1>5, <1>6, <1>7, Zenon

\* Any other observation adds none.
LEMMA StampedStay ==
  ASSUME NEW s, NEW s2, NEW n, Longer(s, s2, n), NEW p, ~IsStampedIn(s2, n, p)
  PROVE  StampedIn(s2, p) = StampedIn(s, p)
<1>1. \A m : m \in StampedIn(s2, p) <=> m \in StampedIn(s, p) \/ (m = n /\ IsStampedIn(s2, n, p))
  BY StampedGrow, Zenon
<1>2. QED BY <1>1

\* The counts of a PID that stay the same.
LEMMA HeadersKept ==
  ASSUME NEW s, NEW s2, NEW n, Longer(s, s2, n), NEW p,
         ~IsStampedIn(s2, n, p),
         NEW a, HeadersOK(s, p, a), NEW b, b.pes = a.pes, b.pts = a.pts
  PROVE  HeadersOK(s2, p, b)
<1>1. StampedIn(s2, p) = StampedIn(s, p)
  BY StampedStay
<1>2. QED BY <1>1, Zenon DEF HeadersOK

\* The counts of a PID with a PES packet more.
LEMMA HeadersGrow ==
  ASSUME NEW s, NEW s2, NEW n, Longer(s, s2, n), NEW p,
         s2[n].what = "pes", s2[n].pid = p, s2[n].carries.hasPTS \in BOOLEAN,
         NEW a, HeadersOK(s, p, a), NEW b, b.pes = a.pes + 1,
         s2[n].carries.hasPTS => b.pts = a.pts + 1,
         ~s2[n].carries.hasPTS => b.pts = a.pts
  PROVE  HeadersOK(s2, p, b)
<1>1. a.pes \in Nat /\ a.pts \in Nat
  BY DEF HeadersOK
<1>2. (a.pts > 0 <=> StampedIn(s, p) # {}) /\ (a.pts > 0 => a.pes > 0)
  BY DEF HeadersOK
<1>3. CASE s2[n].carries.hasPTS
  <2>1. n \in StampedIn(s2, p)
    BY <1>3, StampedGrow DEF IsStampedIn
  <2>2. b.pts \in Nat /\ b.pts > 0 /\ b.pes \in Nat /\ b.pes > 0
    BY <1>1, <1>3
  <2>3. QED BY <2>1, <2>2 DEF HeadersOK
<1>4. CASE ~s2[n].carries.hasPTS
  <2>1. ~IsStampedIn(s2, n, p)
    BY <1>4 DEF IsStampedIn
  <2>2. StampedIn(s2, p) = StampedIn(s, p)
    BY <2>1, StampedStay
  <2>3. b.pts = a.pts /\ b.pes \in Nat /\ b.pes > 0
    BY <1>1, <1>4
  <2>4. QED BY <1>1, <1>2, <2>2, <2>3 DEF HeadersOK
<1>5. QED BY <1>3, <1>4

-------------------------------------------------------------------------------
(* What a sample does to the leads of all PIDs.                              *)

\* The extremes are those of the samples, whatever the rest of a lead.
LEMMA ExtremesSame ==
  ASSUME NEW s, NEW p, NEW l, ExtremesOK(s, p, l), NEW l2, l2.samples = l.samples,
         l2.negative = l.negative, l2.min = l.min, l2.max = l.max
  PROVE  ExtremesOK(s, p, l2)
BY Zenon DEF ExtremesOK

\* So is the sample a comparison would use.
LEMMA LatestSame ==
  ASSUME NEW s, NEW p, NEW l, LatestOK(s, p, l), NEW l2, l2.last = l.last, l2.hasLast = l.hasLast
  PROVE  LatestOK(s, p, l2)
BY Zenon DEF LatestOK

\* So are the comparisons.
LEMMA ComparedSame ==
  ASSUME NEW s, NEW p, NEW l, ComparedOK(s, p, l), NEW l2, l2.comparisons = l.comparisons,
         l2.worst = l.worst
  PROVE  ComparedOK(s, p, l2)
BY Zenon DEF ComparedOK

\* Without a video PID nothing is compared.
LEMMA NoVideo ==
  ASSUME NEW s, NEW a, NEW n, VideoIn(s, n) = {}
  PROVE  ComparedAt(s, a, n) = {}
BY ComparedAtIs

\* A sample of p, that is compared with that of the video PID for every PID of Q.
SampleStep(s, s2, n, D, p, before, sample, sampled, V, Q, after) ==
  /\ Observed(s, s2, n) /\ IsSampleIn(s2, n) /\ p \in D /\ s2[n].pid = p
  /\ \A q \in D : LeadOK(s, q, before[q])
  /\ sample.ticks = TrueLeadIn(s2, n) /\ sample.offset = n /\ sample.segment = s2[n].at.segment
  /\ \A q \in D : q # p => sampled[q] = before[q]
  /\ SampledIs(before[p], sample, sampled[p])
  /\ VideoIn(s2, n) = V /\ V \subseteq D
  /\ V = {} \/ \E v : V = {v}
  /\ V = {} => Q = {}
  /\ V # {} => \A q \in D : q \in Q <=> n \in TriggersIn(s2, q)
  /\ \A q \in D : q \in Q => after[q] = Compare(sampled[q], sampled[CHOOSE v \in V : TRUE])
  /\ \A q \in D : q \notin Q => after[q] = sampled[q]

\* It keeps the leads of all PIDs.
LEMMA SampleLeads ==
  ASSUME NEW s, NEW s2, NEW n, NEW D, NEW p, NEW before, NEW sample, NEW sampled, NEW V, NEW Q,
         NEW after, SampleStep(s, s2, n, D, p, before, sample, sampled, V, Q, after)
  PROVE  \A q \in D : LeadOK(s2, q, after[q])
<1>0. SampleStep(s, s2, n, D, p, before, sample, sampled, V, Q, after)
  OBVIOUS
<1>a. /\ Observed(s, s2, n) /\ IsSampleIn(s2, n) /\ p \in D /\ s2[n].pid = p
      /\ \A q \in D : LeadOK(s, q, before[q])
      /\ sample.ticks = TrueLeadIn(s2, n) /\ sample.offset = n /\ sample.segment = s2[n].at.segment
      /\ \A q \in D : q # p => sampled[q] = before[q]
      /\ SampledIs(before[p], sample, sampled[p])
  BY <1>0 DEF SampleStep
<1>b. /\ VideoIn(s2, n) = V /\ V \subseteq D
      /\ V = {} \/ \E v : V = {v}
      /\ V = {} => Q = {}
      /\ V # {} => \A q \in D : q \in Q <=> n \in TriggersIn(s2, q)
      /\ \A q \in D : q \in Q => after[q] = Compare(sampled[q], sampled[CHOOSE v \in V : TRUE])
      /\ \A q \in D : q \notin Q => after[q] = sampled[q]
  BY <1>0 DEF SampleStep
<1> USE <1>a
<1>1. ASSUME NEW q \in D
      PROVE  /\ DOMAIN sampled[q] = LeadFields /\ ExtremesOK(s2, q, sampled[q])
             /\ LatestOK(s2, q, sampled[q]) /\ ComparedOK(s, q, sampled[q])
  <2> DEFINE l == before[q]
             l2 == sampled[q]
  <2>1. DOMAIN l = LeadFields /\ ExtremesOK(s, q, l) /\ LatestOK(s, q, l) /\ ComparedOK(s, q, l)
    BY DEF LeadOK
  <2>2. CASE q = p
    <3>1. SampledIs(l, sample, l2)
      BY <2>2
    <3> HIDE DEF l, l2
    <3>2. ExtremesOK(s2, q, l2)
      BY <2>1, <2>2, <3>1, ExtremesGrow
    <3>3. l2.last = sample /\ l2.hasLast /\ DOMAIN l2 = LeadFields
          /\ l2.comparisons = l.comparisons /\ l2.worst = l.worst
      BY <3>1 DEF SampledIs
    <3>4. LatestOK(s2, q, l2)
      BY <2>2, <3>3, LatestSampled
    <3>5. ComparedOK(s, q, l2)
      BY <2>1, <3>3, ComparedSame
    <3>6. QED BY <3>2, <3>3, <3>4, <3>5 DEF l2
  <2>3. CASE q # p
    <3>1. l2 = l /\ l.hasLast \in BOOLEAN
      BY <2>1, <2>3 DEF LatestOK
    <3>2. ~(IsSampleIn(s2, n) /\ s2[n].pid = q) /\ ~ForgetsIn(s2, n, q)
      BY <2>3 DEF ForgetsIn, IsSampleIn
    <3> HIDE DEF l, l2
    <3>3. ExtremesOK(s2, q, l)
      BY <2>1, <3>2, ExtremesKept
    <3>4. LatestOK(s2, q, l)
      BY <2>1, <3>1, <3>2, LatestKeeps
    <3>5. QED BY <2>1, <3>1, <3>3, <3>4 DEF l2
  <2>4. QED BY <2>2, <2>3
<1>2. ASSUME NEW q \in D, q \in Q
      PROVE  LeadOK(s2, q, after[q])
  <2>1. PICK v : V = {v}
    BY <1>2, <1>b
  <2>2. (CHOOSE x \in V : TRUE) = v /\ v \in D
    BY <1>b, <2>1
  <2> DEFINE l == sampled[q]
             w == sampled[v]
             l2 == after[q]
  <2>3. l2 = Compare(l, w)
    BY <1>2, <1>b, <2>2
  <2>4. /\ DOMAIN l = LeadFields /\ ExtremesOK(s2, q, l) /\ LatestOK(s2, q, l) /\ ComparedOK(s, q, l)
        /\ LatestOK(s2, v, w)
    BY <1>1, <2>2
  <2>5. n \in TriggersIn(s2, q) /\ VideoIn(s2, n) = {v}
    BY <1>2, <1>b, <2>1
  <2> HIDE DEF l, w, l2
  <2>6. CompareIs(l, w, l2)
    BY <2>3, <2>4, CompareAre
  <2>7. ComparedOK(s2, q, l2)
    BY <2>4, <2>5, <2>6, ComparedGrows
  <2>8. /\ DOMAIN l2 = LeadFields /\ l2.samples = l.samples /\ l2.negative = l.negative
        /\ l2.min = l.min /\ l2.max = l.max /\ l2.last = l.last /\ l2.hasLast = l.hasLast
    BY <2>4, <2>6 DEF CompareIs
  <2>9. ExtremesOK(s2, q, l2) /\ LatestOK(s2, q, l2)
    BY <2>4, <2>8, ExtremesSame, LatestSame
  <2>10. LeadOK(s2, q, l2)
    BY <2>7, <2>8, <2>9 DEF LeadOK
  <2>11. QED BY <2>10 DEF l2
<1>3. ASSUME NEW q \in D, q \notin Q
      PROVE  LeadOK(s2, q, after[q])
  <2>1. n \in TriggersIn(s2, q) => ComparedAt(s2, q, n) = {}
    BY <1>3, <1>b, NoVideo
  <2>2. after[q] = sampled[q]
    BY <1>3, <1>b
  <2>3. ComparedOK(s2, q, sampled[q])
    BY <1>1, <2>1, ComparedKept
  <2>4. QED BY <1>1, <2>2, <2>3 DEF LeadOK
<1>4. QED BY <1>2, <1>3

-------------------------------------------------------------------------------
(* The steps.                                                                *)

\* A time a PES packet may have.
LEMMA NextTimesAre ==
  ASSUME CheckInv, NEW p \in DOMAIN streams, NEW at \in NextTimes(p)
  PROVE  at \in [valid : BOOLEAN, segment : Int, ticks : Int]
<1>1. time[p] \in [segment : Int, ticks : Int]
  BY DEF CheckInv
<1>2. CASE at = NoTime
  BY <1>2, NoTimeIs
<1>3. CASE at = [valid |-> TRUE, segment |-> time[p].segment + 1, ticks |-> 0]
  BY <1>1, <1>3
<1>4. ASSUME NEW g \in Gaps,
             at = [valid |-> TRUE, segment |-> time[p].segment, ticks |-> time[p].ticks + g]
      PROVE  at \in [valid : BOOLEAN, segment : Int, ticks : Int]
  <2>1. g \in Nat
    BY CheckAssumption
  <2>2. QED BY <1>1, <1>4, <2>1
<1>5. QED BY <1>2, <1>3, <1>4 DEF NextTimes

\* What was observed with one observation more.
LEMMA NextObserved ==
  ASSUME LeadInv, offset' = offset + 1, NEW e \in Observation, Carried(e),
         carried = <<>> => e.what = "layout"
  PROVE  /\ Observed(carried, carried', offset + 1) /\ carried'[offset + 1] = e
         /\ Len(carried') = offset' /\ DOMAIN carried' = 1 .. offset + 1 /\ carried' # <<>>
<1>1. /\ ObservedOK(carried) /\ Len(carried) = offset /\ offset \in Nat
      /\ carried \in Seq(Observation) /\ carried' = Append(carried, e)
  BY DEF LeadInv, CheckInv, ObservedOK, Carried
<1>2. /\ Longer(carried, carried', offset + 1) /\ carried'[offset + 1] = e
      /\ carried' \in Seq(Observation)
  BY <1>1, AppendedIsLonger
<1>3. Len(carried') = offset + 1 /\ DOMAIN carried' = 1 .. offset + 1 /\ carried' # <<>>
  BY <1>1
<1>4. carried'[1].what = "layout"
  <2>1. CASE carried = <<>>
    BY <1>1, <1>2, <2>1
  <2>2. CASE carried # <<>>
    <3>1. 1 \in 1 .. (offset + 1) - 1 /\ carried[1].what = "layout"
      BY <1>1, <2>2 DEF ObservedOK
    <3>2. QED BY <1>2, <3>1 DEF Longer
  <2>3. QED BY <2>1, <2>2
<1>5. ObservedOK(carried')
  BY <1>2, <1>4 DEF ObservedOK
<1>6. QED BY <1>1, <1>2, <1>3, <1>4, <1>5 DEF Observed

\* A step of one PID keeps the invariant if it keeps the leads and the headers.
LEMMA OnePidLeads ==
  ASSUME LeadInv, CheckInv', offset' = offset + 1, NEW p \in DOMAIN streams, NEW b,
         streams' = [streams EXCEPT ![p] = b], b.type = streams[p].type, b.active = streams[p].active,
         NEW e \in Observation, Carried(e), e.what # "layout",
         e.what = "pes" => e.pid \in DOMAIN streams,
         av' = av, DOMAIN leads' = DOMAIN leads,
         \A q \in DOMAIN streams : LeadOK(carried', q, leads'[q]) /\ HeadersOK(carried', q, streams'[q])
  PROVE  LeadInv'
<1> DEFINE n == offset + 1
           types == TypesIn(carried, Len(carried))
<1>1. /\ DOMAIN leads = DOMAIN streams /\ Len(carried) = offset /\ offset \in Nat
      /\ carried # <<>>
      /\ LayoutOK(streams, av, types)
      /\ \A m \in DOMAIN carried : carried[m].what = "pes" => carried[m].pid \in DOMAIN streams
  BY DEF LeadInv, CheckInv
<1>2. /\ Observed(carried, carried', n) /\ carried'[n] = e /\ Len(carried') = n /\ Len(carried') = offset'
      /\ carried' # <<>>
  BY <1>1, NextObserved
<1>3. Longer(carried, carried', n) /\ ObservedOK(carried') /\ carried'[1].what = "layout"
  BY <1>2 DEF Observed
<1>4. DOMAIN streams' = DOMAIN streams /\ DOMAIN leads' = DOMAIN streams'
  BY <1>1
<1>5. TypesIn(carried', Len(carried')) = types
  <2>1. carried'[n].what # "layout" /\ n - 1 = Len(carried)
    BY <1>1, <1>2
  <2>2. TypesIn(carried', n) = TypesIn(carried, n - 1)
    BY <1>3, <2>1, TypesKept
  <2>3. QED BY <1>2, <2>1, <2>2
<1>6. ASSUME NEW q \in DOMAIN streams
      PROVE  streams'[q].type = streams[q].type /\ streams'[q].active = streams[q].active
  <2>1. CASE q = p
    BY <2>1
  <2>2. CASE q # p
    BY <2>2
  <2>3. QED BY <2>1, <2>2
<1> HIDE DEF types
<1>7. LayoutOK(streams', av', TypesIn(carried', Len(carried')))
  BY <1>1, <1>4, <1>5, <1>6 DEF LayoutOK
<1>8. ASSUME NEW m \in DOMAIN carried', carried'[m].what = "pes"
      PROVE  carried'[m].pid \in DOMAIN streams'
  <2>1. m \in 1 .. n
    BY <1>3 DEF Longer
  <2>2. CASE m = n
    BY <1>2, <1>4, <1>8, <2>2
  <2>3. CASE m # n
    <3>1. m \in 1 .. n - 1
      BY <1>1, <2>1, <2>3
    <3>2. m \in DOMAIN carried /\ carried'[m] = carried[m]
      BY <1>3, <3>1 DEF Longer
    <3>3. QED BY <1>1, <1>4, <1>8, <3>2
  <2>4. QED BY <2>2, <2>3
<1>9. \A q \in DOMAIN streams' : LeadOK(carried', q, leads'[q]) /\ HeadersOK(carried', q, streams'[q])
  BY <1>4
<1>10. QED BY <1>2, <1>3, <1>4, <1>7, <1>8, <1>9 DEF LeadInv

\* A header that fails a check, and a break, of p.
LEMMA CutKeepsLeads ==
  ASSUME LeadInv, CheckInv', offset' = offset + 1, NEW p \in DOMAIN streams, NEW b,
         streams' = [streams EXCEPT ![p] = b], SameHeads(streams[p], b),
         leads' = [leads EXCEPT ![p] = Forget(@)],
         Carried([what |-> "cut", pids |-> {p}]), av' = av
  PROVE  LeadInv'
<1> DEFINE e == [what |-> "cut", pids |-> {p}]
           n == offset + 1
<1>1. /\ DOMAIN leads = DOMAIN streams /\ DOMAIN streams \subseteq Pids
      /\ carried # <<>>
      /\ \A q \in DOMAIN streams : LeadOK(carried, q, leads[q]) /\ HeadersOK(carried, q, streams[q])
  BY DEF LeadInv, CheckInv
<1>2. e \in Observation /\ e.what = "cut" /\ e.pids = {p}
  BY <1>1 DEF Observation, CutObserved
<1>3. Carried(e)
  OBVIOUS
<1> HIDE DEF e
<1>4. Observed(carried, carried', n) /\ carried'[n] = e
  BY <1>1, <1>2, <1>3, NextObserved
<1>5. Longer(carried, carried', n)
  BY <1>4 DEF Observed
<1>6. /\ ~IsSampleIn(carried', n)
      /\ \A q : ~IsStampedIn(carried', n, q)
      /\ \A q : ForgetsIn(carried', n, q) <=> q = p
  BY <1>2, <1>4 DEF IsSampleIn, IsStampedIn, ForgetsIn
<1> HIDE DEF n
<1>7. ASSUME NEW q \in DOMAIN streams
      PROVE  LeadOK(carried', q, leads'[q]) /\ HeadersOK(carried', q, streams'[q])
  <2>1. CASE q = p
    <3>1. leads'[q] = Forget(leads[q]) /\ streams'[q] = b
      BY <1>1, <2>1
    <3>2. LeadOK(carried', q, Forget(leads[q]))
      <4>1. LeadOK(carried, q, leads[q]) /\ ForgetsIn(carried', n, q)
        BY <1>1, <1>6, <2>1
      <4>2. QED BY <1>4, <1>6, <4>1, LeadForgets
    <3>3. HeadersOK(carried', q, b)
      <4>1. HeadersOK(carried, q, streams[q]) /\ b.pes = streams[q].pes /\ b.pts = streams[q].pts
        BY <1>1, <2>1 DEF SameHeads
      <4>2. QED BY <1>5, <1>6, <4>1, HeadersKept
    <3>4. QED BY <3>1, <3>2, <3>3
  <2>2. CASE q # p
    <3>1. leads'[q] = leads[q] /\ streams'[q] = streams[q]
      BY <1>1, <2>2
    <3>2. LeadOK(carried, q, leads[q]) /\ ~ForgetsIn(carried', n, q) /\ HeadersOK(carried, q, streams[q])
      BY <1>1, <1>6, <2>2
    <3>3. LeadOK(carried', q, leads[q])
      BY <1>4, <1>6, <3>2, LeadIdles
    <3>4. HeadersOK(carried', q, streams[q])
      BY <1>5, <1>6, <3>2, HeadersKept
    <3>5. QED BY <3>1, <3>3, <3>4
  <2>3. QED BY <2>1, <2>2
<1>8. DOMAIN leads' = DOMAIN leads /\ b.type = streams[p].type /\ b.active = streams[p].active
  BY DEF SameHeads
<1>9. e.what # "layout" /\ e.what # "pes"
  BY <1>2
<1>10. QED BY <1>2, <1>3, <1>7, <1>8, <1>9, OnePidLeads

\* The video PID of a layout, if any, is its lowest one.
LEMMA VideoIs ==
  ASSUME NEW types
  PROVE  /\ AVLayout(types).audio = {p \in Pids : types[p] = "audio"}
         /\ \A v \in AVLayout(types).video : v \in Pids /\ types[v] = "video"
         /\ AVLayout(types).video = {} \/ \E v : AVLayout(types).video = {v}
<1> DEFINE video == {p \in Pids : types[p] = "video"}
           found == IF video = {} THEN {} ELSE {Min(video)}
<1>1. AVLayout(types) = [video |-> found, audio |-> {p \in Pids : types[p] = "audio"}]
  BY DEF AVLayout
<1>2. /\ AVLayout(types).audio = {p \in Pids : types[p] = "audio"}
      /\ AVLayout(types).video = found
  BY <1>1
<1>3. CASE video = {}
  BY <1>2, <1>3
<1>4. CASE video # {}
  <2>1. video \in SUBSET Nat
    BY LeadAssumption
  <2>2. PICK v \in video : \A k \in video : v <= k
    <3> HIDE DEF video
    <3>1. QED BY <1>4, <2>1, LeastNatural
  <2>3. Min(video) = v
    <3> HIDE DEF video
    <3>1. video \in SUBSET Int
      BY <2>1
    <3>2. QED BY <2>2, <3>1, LeastIsMin
  <2>4. found = {v} /\ v \in Pids /\ types[v] = "video"
    BY <1>4, <2>2, <2>3
  <2> HIDE DEF found
  <2>5. QED BY <1>2, <2>4
<1>5. QED BY <1>3, <1>4

\* The PIDs a sample of p is compared for are those it sets a comparison off for.
LEMMA PairsAreTriggered ==
  ASSUME LeadInv, NEW p \in DOMAIN streams, streams[p].active, NEW s2, NEW n,
         n \in DOMAIN s2, IsSampleIn(s2, n), s2[n].pid = p,
         TypesIn(s2, n) = TypesIn(carried, Len(carried)), carried # <<>>
  PROVE  /\ VideoIn(s2, n) = av.video
         /\ av.video \subseteq DOMAIN streams
         /\ av.video = {} \/ \E v : av.video = {v}
         /\ av.video = {} => Pairs(p) = {}
         /\ av.video # {} => \A q \in DOMAIN streams : q \in Pairs(p) <=> n \in TriggersIn(s2, q)
<1> DEFINE types == TypesIn(s2, n)
<1>1. LayoutOK(streams, av, types) /\ DOMAIN streams \subseteq Pids
  BY DEF LeadInv, CheckInv
<1> HIDE DEF types
<1>2. /\ av = AVLayout(types) /\ streams[p].type = types[p]
      /\ \A q \in Pids : types[q] # "none" => q \in DOMAIN streams
  BY <1>1 DEF LayoutOK
<1>3. /\ av.audio = {q \in Pids : types[q] = "audio"}
      /\ \A v \in av.video : v \in Pids /\ types[v] = "video"
      /\ av.video = {} \/ \E v : av.video = {v}
  BY <1>2, VideoIs
<1>4. VideoIn(s2, n) = av.video
  BY <1>2 DEF VideoIn, types
<1>5. av.video \subseteq DOMAIN streams
  BY <1>2, <1>3
<1>6. av.video = {} => Pairs(p) = {}
  BY DEF Pairs
<1>7. ASSUME av.video # {}, NEW q \in DOMAIN streams
      PROVE  q \in Pairs(p) <=> n \in TriggersIn(s2, q)
  <2>1. n \in TriggersIn(s2, q) <=> types[q] = "audio" /\ (p = q \/ p \in av.video)
    BY <1>4 DEF TriggersIn, types
  <2>2. CASE types[p] = "audio"
    <3>1. Pairs(p) = {p} /\ p \notin av.video
      BY <1>2, <1>3, <1>7, <2>2 DEF Pairs
    <3>2. QED BY <2>1, <2>2, <3>1
  <2>3. CASE types[p] # "audio" /\ p \in av.video
    <3>1. Pairs(p) = av.audio
      BY <1>2, <1>7, <2>3 DEF Pairs
    <3>2. QED BY <1>1, <1>3, <2>1, <2>3, <3>1
  <2>4. CASE types[p] # "audio" /\ p \notin av.video
    <3>1. Pairs(p) = {}
      BY <1>2, <1>7, <2>4 DEF Pairs
    <3>2. QED BY <2>1, <2>4, <3>1
  <2>5. QED BY <2>2, <2>3, <2>4
<1>8. QED BY <1>3, <1>4, <1>5, <1>6, <1>7

\* A PES packet of p.
LEMMA PESKeepsLeads ==
  ASSUME LeadInv, CheckInv', offset' = offset + 1, NEW p \in DOMAIN streams, streams[p].active,
         NEW carries \in StampSets, NEW at \in NextTimes(p), LeadPES(p, carries, at)
  PROVE  LeadInv'
<1> DEFINE e == [what |-> "pes", pid |-> p, carries |-> carries, at |-> at]
           n == offset + 1
           b == GoodHeader(streams[p], carries.hasPTS, at, n)
           s2 == carried'
<1>1. /\ DOMAIN leads = DOMAIN streams /\ DOMAIN streams \subseteq Pids
      /\ carried # <<>> /\ StreamOK(streams[p]) /\ Len(carried) = offset /\ offset \in Nat
      /\ \A q \in DOMAIN streams : LeadOK(carried, q, leads[q]) /\ HeadersOK(carried, q, streams[q])
  BY DEF LeadInv, CheckInv
<1>2. /\ streams' = [streams EXCEPT ![p] = b] /\ av' = av /\ Carried(e)
      /\ leads' = ObserveLead(p, carries, at, n)
  BY DEF LeadPES, ObserveGoodHeader
<1>3. at \in [valid : BOOLEAN, segment : Int, ticks : Int]
  BY NextTimesAre DEF LeadInv
<1>4. /\ carries.hasPTS \in BOOLEAN /\ carries.hasDTS \in BOOLEAN /\ at.valid \in BOOLEAN
      /\ at.segment \in Int /\ at.ticks \in Int
  <2>1. carries.hasPTS \in BOOLEAN /\ carries.hasDTS \in BOOLEAN
    BY LeadAssumption
  <2>2. at.valid \in BOOLEAN /\ at.segment \in Int /\ at.ticks \in Int
    BY <1>3
  <2>3. QED BY <2>1, <2>2
<1>5. e \in Observation /\ e.what = "pes" /\ e.pid = p /\ e.carries = carries /\ e.at = at
  BY <1>1, <1>3 DEF Observation, PesObserved
<1> HIDE DEF e
<1>6. Observed(carried, s2, n) /\ s2[n] = e /\ DOMAIN s2 = 1 .. n
  BY <1>1, <1>2, <1>5, NextObserved
<1>7. Longer(carried, s2, n) /\ ObservedOK(s2) /\ s2[1].what = "layout"
  BY <1>6 DEF Observed
<1> HIDE DEF s2, n
<1>8. /\ b.pes = streams[p].pes + 1 /\ b.type = streams[p].type /\ b.active = streams[p].active
      /\ carries.hasPTS => b.pts = streams[p].pts + 1
      /\ ~carries.hasPTS => b.pts = streams[p].pts
  <2> DEFINE a == streams[p]
  <2>1. StreamOK(a)
    BY <1>1
  <2> HIDE DEF a
  <2>2. /\ GoodHeader(a, carries.hasPTS, at, n).pes = a.pes + 1
        /\ carries.hasPTS => GoodHeader(a, carries.hasPTS, at, n).pts = a.pts + 1
        /\ ~carries.hasPTS => GoodHeader(a, carries.hasPTS, at, n).pts = a.pts
        /\ GoodHeader(a, carries.hasPTS, at, n).type = a.type
        /\ GoodHeader(a, carries.hasPTS, at, n).active = a.active
    BY <2>1, GoodHeaderHeads
  <2>3. QED BY <2>2 DEF a
<1> USE DEF n
<1> HIDE DEF b
<1>9. ASSUME NEW q \in DOMAIN streams
      PROVE  HeadersOK(s2, q, streams'[q])
  <2>1. CASE q = p
    <3>1. streams'[q] = b
      BY <1>2, <2>1
    <3>2. /\ s2[n].what = "pes" /\ s2[n].pid = q /\ s2[n].carries.hasPTS \in BOOLEAN
          /\ s2[n].carries.hasPTS => b.pts = streams[p].pts + 1
          /\ ~s2[n].carries.hasPTS => b.pts = streams[p].pts
          /\ HeadersOK(carried, q, streams[p])
      BY <1>1, <1>4, <1>5, <1>6, <1>8, <2>1
    <3>3. HeadersOK(s2, q, b)
      BY <1>7, <1>8, <3>2, HeadersGrow
    <3>4. QED BY <3>1, <3>3
  <2>2. CASE q # p
    <3>1. streams'[q] = streams[q]
      BY <1>2, <2>2
    <3>2. ~IsStampedIn(s2, n, q)
      BY <1>5, <1>6, <2>2 DEF IsStampedIn
    <3>3. HeadersOK(carried, q, streams[q])
      BY <1>1
    <3>4. HeadersOK(s2, q, streams[q])
      BY <1>7, <3>2, <3>3, HeadersKept
    <3>5. QED BY <3>1, <3>4
  <2>3. QED BY <2>1, <2>2
<1>10. ASSUME NEW q \in DOMAIN streams
       PROVE  /\ IsSampleIn(s2, n) <=> carries.hasPTS /\ at.valid
              /\ ForgetsIn(s2, n, q) <=> q = p /\ carries.hasPTS /\ ~at.valid
  BY <1>5, <1>6 DEF IsSampleIn, ForgetsIn
<1>11. DOMAIN leads' = DOMAIN leads /\ \A q \in DOMAIN streams : LeadOK(s2, q, leads'[q])
  <2>1. CASE ~carries.hasPTS
    <3>1. leads' = leads
      BY <1>2, <2>1 DEF ObserveLead
    <3>2. ~IsSampleIn(s2, n) /\ \A q \in DOMAIN streams : ~ForgetsIn(s2, n, q)
      BY <1>10, <2>1
    <3>3. \A q \in DOMAIN streams : LeadOK(carried, q, leads[q])
      BY <1>1
    <3> HIDE DEF n
    <3>4. \A q \in DOMAIN streams : LeadOK(s2, q, leads[q])
      BY <1>6, <3>2, <3>3, LeadIdles
    <3>5. QED BY <3>1, <3>4
  <2>2. CASE carries.hasPTS /\ ~at.valid
    <3>1. leads' = [leads EXCEPT ![p] = Unbracketed(@)]
      BY <1>2, <2>2 DEF ObserveLead
    <3>2. ~IsSampleIn(s2, n) /\ \A q \in DOMAIN streams : ForgetsIn(s2, n, q) <=> q = p
      BY <1>10, <2>2
    <3> HIDE DEF n
    <3>3. ASSUME NEW q \in DOMAIN streams
          PROVE  LeadOK(s2, q, leads'[q])
      <4>0. LeadOK(carried, q, leads[q])
        BY <1>1
      <4>1. CASE q = p
        <5>1. leads'[q] = Unbracketed(leads[q])
          BY <1>1, <3>1, <4>1
        <5>2. ForgetsIn(s2, n, q)
          BY <3>2, <4>1
        <5>3. LeadOK(s2, q, Unbracketed(leads[q]))
          BY <1>6, <3>2, <4>0, <5>2, LeadForgets
        <5>4. QED BY <5>1, <5>3
      <4>2. CASE q # p
        <5>1. leads'[q] = leads[q] /\ ~ForgetsIn(s2, n, q)
          BY <1>1, <3>1, <3>2, <4>2
        <5>2. QED BY <1>6, <3>2, <4>0, <5>1, LeadIdles
      <4>3. QED BY <4>1, <4>2
    <3>4. QED BY <3>1, <3>3
  <2>3. CASE carries.hasPTS /\ at.valid
    <3> DEFINE sample == [ticks |-> LeadTicks(Stamp(carries, at), at.ticks), offset |-> n,
                          segment |-> at.segment]
               sampled == [leads EXCEPT ![p] = Sampled(@, sample, carries.hasDTS)]
               V == av.video
    <3>1. leads' = [q \in DOMAIN leads |->
                     IF q \in Pairs(p) THEN Compare(sampled[q], sampled[CHOOSE v \in V : TRUE])
                     ELSE sampled[q]]
      BY <1>2, <2>3 DEF ObserveLead
    <3>2. IsSampleIn(s2, n) /\ n \in DOMAIN s2 /\ s2[n].pid = p /\ s2[n].at.segment = at.segment
      BY <1>1, <1>5, <1>6, <1>10, <2>3
    <3>3. sample.ticks = TrueLeadIn(s2, n) /\ sample.offset = n /\ sample.segment = s2[n].at.segment
      <4>1. TrueLeadIn(s2, n) \in (StampPeriod \div 2) - StampPeriod .. (StampPeriod \div 2) - 1
        BY <1>7, <3>2, TrueLeadIs
      <4>2. TrueLeadIn(s2, n) = IF carries.hasDTS THEN carries.dts ELSE carries.pts
        BY <1>5, <1>6 DEF TrueLeadIn
      <4>3. Stamp(carries, at) = (at.ticks + TrueLeadIn(s2, n)) % StampPeriod
        BY <4>2 DEF Stamp
      <4>4. LeadTicks(Stamp(carries, at), at.ticks) = TrueLeadIn(s2, n)
        BY <1>4, <4>1, <4>3, LeadTicksIs
      <4>5. QED BY <3>2, <4>4
    <3>4. TypesIn(s2, n) = TypesIn(carried, Len(carried))
      <4>1. s2[n].what # "layout" /\ n - 1 = Len(carried)
        BY <1>1, <1>5, <1>6
      <4> HIDE DEF n
      <4>2. TypesIn(s2, n) = TypesIn(carried, n - 1)
        BY <1>7, <4>1, TypesKept
      <4>3. QED BY <4>1, <4>2
    <3>5. /\ DOMAIN sampled = DOMAIN streams
          /\ \A q \in DOMAIN streams : q # p => sampled[q] = leads[q]
          /\ sampled[p] = Sampled(leads[p], sample, carries.hasDTS)
      BY <1>1
    <3> HIDE DEF sample, sampled, n
    <3>6. SampledIs(leads[p], sample, sampled[p])
      <4>1. DOMAIN leads[p] = LeadFields
        BY <1>1 DEF LeadOK
      <4>2. QED BY <3>5, <4>1, SampledAre
    <3>7. /\ VideoIn(s2, n) = V
          /\ V \subseteq DOMAIN streams
          /\ V = {} \/ \E v : V = {v}
          /\ V = {} => Pairs(p) = {}
          /\ V # {} => \A q \in DOMAIN streams : q \in Pairs(p) <=> n \in TriggersIn(s2, q)
      BY <1>1, <3>2, <3>4, PairsAreTriggered
    <3> HIDE DEF V
    <3>8. /\ \A q \in DOMAIN streams : LeadOK(carried, q, leads[q])
          /\ \A q \in DOMAIN streams :
               q \in Pairs(p) => leads'[q] = Compare(sampled[q], sampled[CHOOSE v \in V : TRUE])
          /\ \A q \in DOMAIN streams : q \notin Pairs(p) => leads'[q] = sampled[q]
      BY <1>1, <3>1
    <3>9. SampleStep(carried, s2, n, DOMAIN streams, p, leads, sample, sampled, V, Pairs(p), leads')
      BY <1>6, <3>2, <3>3, <3>5, <3>6, <3>7, <3>8 DEF SampleStep
    <3>10. \A q \in DOMAIN streams : LeadOK(s2, q, leads'[q])
      BY <3>9, SampleLeads
    <3>11. DOMAIN leads' = DOMAIN leads
      BY <3>1
    <3>12. QED BY <3>10, <3>11
  <2>4. QED BY <1>4, <2>1, <2>2, <2>3
<1>12. \A q \in DOMAIN streams : LeadOK(carried', q, leads'[q]) /\ HeadersOK(carried', q, streams'[q])
  BY <1>9, <1>11 DEF s2
<1>13. e.what # "layout" /\ e.pid \in DOMAIN streams
  BY <1>5
<1>14. QED BY <1>2, <1>5, <1>8, <1>11, <1>12, <1>13, OnePidLeads

\* A layout: what it changes is forgotten, and a new PID begins with nothing.
LEMMA LayoutKeepsLeads ==
  ASSUME LeadInv, CheckInv', offset' = offset + 1, NEW types \in Layouts, LeadLayout(types)
  PROVE  LeadInv'
<1> DEFINE changed == {p \in DOMAIN streams : Changes(p, types)}
           current == {p \in Pids : types[p] # "none"}
           e == [what |-> "layout", pids |-> changed, types |-> types]
           n == offset + 1
<1>1. /\ DOMAIN leads = DOMAIN streams /\ DOMAIN streams \subseteq Pids
      /\ Len(carried) = offset /\ offset \in Nat
      /\ \A q \in DOMAIN streams : LeadOK(carried, q, leads[q]) /\ HeadersOK(carried, q, streams[q])
      /\ \A m \in DOMAIN carried : carried[m].what = "pes" => carried[m].pid \in DOMAIN streams
      /\ \A q \in DOMAIN streams : StreamOK(streams[q])
  BY DEF LeadInv, CheckInv
<1>2. /\ streams' = [p \in DOMAIN streams \cup current |->
                       IF p \in current THEN Announced(p, types[p]) ELSE Removed(streams[p])]
      /\ leads' = [p \in DOMAIN streams' |->
                     IF p \notin DOMAIN leads THEN NewLead
                     ELSE IF p \in changed THEN Forget(leads[p]) ELSE leads[p]]
      /\ av' = AVLayout(types) /\ Carried(e)
  BY DEF LeadLayout, ObserveProgramLayout
<1>3. e \in Observation /\ e.what = "layout" /\ e.pids = changed /\ e.types = types
  <2>1. changed \in SUBSET Pids
    BY <1>1
  <2> HIDE DEF changed
  <2>2. QED BY <2>1 DEF Observation, LayoutObserved
<1>4. /\ \A p \in current : p \in Pids /\ types[p] # "none"
      /\ \A p \in Pids : types[p] # "none" => p \in current
  OBVIOUS
<1> HIDE DEF e, changed, current
<1>5. /\ DOMAIN streams' = DOMAIN streams \cup current /\ DOMAIN leads' = DOMAIN streams'
      /\ \A p \in current : streams'[p] = Announced(p, types[p])
      /\ \A p \in DOMAIN streams \ current : streams'[p] = Removed(streams[p])
      /\ \A p \in DOMAIN streams' \ DOMAIN streams : leads'[p] = NewLead
      /\ \A p \in DOMAIN streams : p \in changed => leads'[p] = Forget(leads[p])
      /\ \A p \in DOMAIN streams : p \notin changed => leads'[p] = leads[p]
  BY <1>1, <1>2
<1>6. /\ Observed(carried, carried', n) /\ carried'[n] = e /\ Len(carried') = n /\ Len(carried') = offset'
      /\ carried' # <<>>
  BY <1>2, <1>3, NextObserved
<1>7. Longer(carried, carried', n) /\ ObservedOK(carried') /\ carried'[1].what = "layout"
  BY <1>6 DEF Observed
<1>8. /\ ~IsSampleIn(carried', n)
      /\ \A q : ~IsStampedIn(carried', n, q)
      /\ \A q : ForgetsIn(carried', n, q) <=> q \in changed
  BY <1>3, <1>6 DEF IsSampleIn, IsStampedIn, ForgetsIn
<1>9. TypesIn(carried', Len(carried')) = types
  <2>1. carried'[n].what = "layout" /\ carried'[n].types = types
    BY <1>3, <1>6
  <2> HIDE DEF n
  <2>2. TypesIn(carried', n) = carried'[n].types
    BY <1>7, <2>1, TypesKept
  <2>3. QED BY <1>6, <2>1, <2>2
<1>10. LayoutOK(streams', av', types)
  <2>1. ASSUME NEW p \in DOMAIN streams', streams'[p].active
        PROVE  streams'[p].type = types[p]
    <3>1. CASE p \in current
      <4>1. p \in DOMAIN streams => StreamOK(streams[p])
        BY <1>1
      <4>2. Announced(p, types[p]).type = types[p]
        BY <4>1, AnnouncedHeads
      <4>3. QED BY <1>5, <3>1, <4>2
    <3>2. CASE p \notin current
      <4>1. p \in DOMAIN streams /\ streams'[p] = Removed(streams[p])
        BY <1>5, <3>2
      <4>2. ~Removed(streams[p]).active
        BY <1>1, <4>1, RemovedHeads
      <4>3. QED BY <2>1, <4>1, <4>2
    <3>3. QED BY <3>1, <3>2
  <2>2. QED BY <1>2, <1>4, <1>5, <2>1 DEF LayoutOK
<1>11. ASSUME NEW m \in DOMAIN carried', carried'[m].what = "pes"
       PROVE  carried'[m].pid \in DOMAIN streams
  <2>1. m \in 1 .. n
    BY <1>7 DEF Longer
  <2>2. m # n
    BY <1>3, <1>6, <1>11
  <2>3. m \in 1 .. n - 1
    BY <1>1, <2>1, <2>2
  <2>4. m \in DOMAIN carried /\ carried'[m] = carried[m]
    BY <1>7, <2>3 DEF Longer
  <2>5. QED BY <1>1, <1>11, <2>4
<1> HIDE DEF n
<1>12. ASSUME NEW q \in DOMAIN streams
       PROVE  LeadOK(carried', q, leads'[q]) /\ HeadersOK(carried', q, streams'[q])
  <2>1. LeadOK(carried, q, leads[q]) /\ HeadersOK(carried, q, streams[q]) /\ StreamOK(streams[q])
    BY <1>1
  <2>2. LeadOK(carried', q, leads'[q])
    <3>1. CASE q \in changed
      <4>1. ForgetsIn(carried', n, q) /\ leads'[q] = Forget(leads[q])
        BY <1>5, <1>8, <3>1
      <4>2. LeadOK(carried', q, Forget(leads[q]))
        BY <1>6, <1>8, <2>1, <4>1, LeadForgets
      <4>3. QED BY <4>1, <4>2
    <3>2. CASE q \notin changed
      <4>1. ~ForgetsIn(carried', n, q) /\ leads'[q] = leads[q]
        BY <1>5, <1>8, <3>2
      <4>2. LeadOK(carried', q, leads[q])
        BY <1>6, <1>8, <2>1, <4>1, LeadIdles
      <4>3. QED BY <4>1, <4>2
    <3>3. QED BY <3>1, <3>2
  <2>3. streams'[q].pes = streams[q].pes /\ streams'[q].pts = streams[q].pts
    <3>1. CASE q \in current
      <4>1. streams'[q] = Announced(q, types[q])
        BY <1>5, <3>1
      <4>2. /\ Announced(q, types[q]).pes = streams[q].pes
            /\ Announced(q, types[q]).pts = streams[q].pts
        BY <2>1, AnnouncedHeads
      <4>3. QED BY <4>1, <4>2
    <3>2. CASE q \notin current
      BY <1>5, <2>1, <3>2, RemovedHeads
    <3>3. QED BY <3>1, <3>2
  <2>4. HeadersOK(carried', q, streams'[q])
    BY <1>7, <1>8, <2>1, <2>3, HeadersKept
  <2>5. QED BY <2>2, <2>4
<1>13. ASSUME NEW q \in DOMAIN streams' \ DOMAIN streams
       PROVE  LeadOK(carried', q, leads'[q]) /\ HeadersOK(carried', q, streams'[q])
  <2>1. SamplesIn(carried', q) = {} /\ StampedIn(carried', q) = {}
    BY <1>11 DEF SamplesIn, StampedIn, IsSampleIn, IsStampedIn
  <2>2. LeadOK(carried', q, leads'[q])
    BY <1>5, <2>1, NewLeadOK
  <2>3. streams'[q] = Announced(q, types[q]) /\ q \notin DOMAIN streams
    BY <1>5
  <2>4. Announced(q, types[q]).pes = 0 /\ Announced(q, types[q]).pts = 0
    BY <2>3, AnnouncedHeads
  <2>5. HeadersOK(carried', q, streams'[q])
    BY <2>1, <2>3, <2>4 DEF HeadersOK
  <2>6. QED BY <2>2, <2>5
<1>14. \A q \in DOMAIN streams' : LeadOK(carried', q, leads'[q]) /\ HeadersOK(carried', q, streams'[q])
  BY <1>12, <1>13
<1>15. \A m \in DOMAIN carried' : carried'[m].what = "pes" => carried'[m].pid \in DOMAIN streams'
  BY <1>5, <1>11
<1>16. LayoutOK(streams', av', TypesIn(carried', Len(carried')))
  BY <1>9, <1>10
<1>17. QED BY <1>5, <1>6, <1>7, <1>14, <1>15, <1>16 DEF LeadInv

\* A step of the leads is a step of the check.
LEMMA LeadStepChecks == LeadNext => CheckNext
<1> SUFFICES ASSUME LeadNext PROVE CheckNext
  OBVIOUS
<1>1. ASSUME NEW types \in Layouts, LeadLayout(types)
      PROVE  ObserveProgramLayout(types)
  BY <1>1 DEF LeadLayout
<1>2. ASSUME NEW p \in {q \in DOMAIN streams : streams[q].active}, NEW carries \in StampSets,
             NEW at \in NextTimes(p), LeadPES(p, carries, at)
      PROVE  carries.hasPTS \in BOOLEAN /\ ObserveGoodHeader(p, carries.hasPTS, at)
  BY <1>2, LeadAssumption DEF LeadPES
<1>3. ASSUME NEW p \in {q \in DOMAIN streams : streams[q].active}, NEW problem \in HeaderProblems,
             LeadBadHeader(p, problem)
      PROVE  ObserveBadHeader(p, problem)
  BY <1>3 DEF LeadBadHeader
<1>4. ASSUME NEW p \in {q \in DOMAIN streams : streams[q].active}, NEW cause \in BreakCauses,
             LeadBreak(p, cause)
      PROVE  ObserveBreak(p, cause)
  BY <1>4 DEF LeadBreak
<1>5. QED BY <1>1, <1>2, <1>3, <1>4, Zenon DEF LeadNext, CheckNext

\* Nothing has been observed to begin with.
LEMMA InitEstablishesLeadInv == LeadInit => LeadInv
<1> SUFFICES ASSUME LeadInit PROVE LeadInv
  OBVIOUS
<1>1. CheckInv
  BY InitEstablishesCheckInv DEF LeadInit
<1>2. /\ DOMAIN streams = {} /\ DOMAIN leads = {} /\ carried = <<>> /\ offset = 0
  BY DEF LeadInit, CheckInit
<1>3. ObservedOK(carried) /\ Len(carried) = offset /\ DOMAIN carried = {}
  BY <1>2 DEF ObservedOK
<1>4. QED BY <1>1, <1>2, <1>3 DEF LeadInv

\* Every step keeps the invariant.
LEMMA NextKeepsLeadInv == LeadInv /\ [LeadNext]_<<checkVars, leadVars>> => LeadInv'
<1> SUFFICES ASSUME LeadInv, [LeadNext]_<<checkVars, leadVars>> PROVE LeadInv'
  OBVIOUS
<1>1. CASE LeadNext
  <2>1. CheckInv' /\ offset' = offset + 1
    BY <1>1, LeadStepChecks, NextKeepsCheckInv DEF LeadInv, LeadNext
  <2>2. ASSUME NEW types \in Layouts, LeadLayout(types)
        PROVE  LeadInv'
    BY <2>1, <2>2, LayoutKeepsLeads
  <2>3. ASSUME NEW p \in {q \in DOMAIN streams : streams[q].active}, NEW carries \in StampSets,
               NEW at \in NextTimes(p), LeadPES(p, carries, at)
        PROVE  LeadInv'
    BY <2>1, <2>3, PESKeepsLeads
  <2>4. ASSUME NEW p \in {q \in DOMAIN streams : streams[q].active}, NEW problem \in HeaderProblems,
               LeadBadHeader(p, problem)
        PROVE  LeadInv'
    <3>1. /\ streams' = [streams EXCEPT ![p] = BadHeader(streams[p], problem, offset + 1)]
          /\ leads' = [leads EXCEPT ![p] = Forget(@)]
          /\ Carried([what |-> "cut", pids |-> {p}]) /\ av' = av
      BY <2>4 DEF LeadBadHeader, ObserveBadHeader
    <3>2. SameHeads(streams[p], BadHeader(streams[p], problem, offset + 1))
      BY CutHeads DEF LeadInv, CheckInv
    <3>3. QED BY <2>1, <3>1, <3>2, CutKeepsLeads
  <2>5. ASSUME NEW p \in {q \in DOMAIN streams : streams[q].active}, NEW cause \in BreakCauses,
               LeadBreak(p, cause)
        PROVE  LeadInv'
    <3>1. /\ streams' = [streams EXCEPT ![p] = Broken(streams[p], cause)]
          /\ leads' = [leads EXCEPT ![p] = Forget(@)]
          /\ Carried([what |-> "cut", pids |-> {p}]) /\ av' = av
      BY <2>5 DEF LeadBreak, ObserveBreak
    <3>2. SameHeads(streams[p], Broken(streams[p], cause))
      BY CutHeads DEF LeadInv, CheckInv
    <3>3. QED BY <2>1, <3>1, <3>2, CutKeepsLeads
  <2>6. QED BY <1>1, <2>2, <2>3, <2>4, <2>5 DEF LeadNext
<1>2. CASE UNCHANGED <<checkVars, leadVars>>
  <2>1. /\ streams' = streams /\ time' = time /\ offset' = offset /\ history' = history
        /\ leads' = leads /\ av' = av /\ carried' = carried
    BY <1>2 DEF checkVars, leadVars
  <2>2. CheckInv'
    BY <2>1 DEF LeadInv, CheckInv
  <2>3. QED BY <2>1, <2>2 DEF LeadInv
<1>3. QED BY <1>1, <1>2

\* The invariant holds throughout: the leads are those of what was observed.
THEOREM LeadInvHolds == LeadSpec => []LeadInv
<1>1. LeadInit => LeadInv
  BY InitEstablishesLeadInv
<1>2. LeadInv /\ [LeadNext]_<<checkVars, leadVars>> => LeadInv'
  BY NextKeepsLeadInv
<1>3. QED BY <1>1, <1>2, PTL DEF LeadSpec

\* The definition of the leads is that over what has been carried.
LEMMA LeadDefinitions ==
  /\ \A p : SamplesOf(p) = SamplesIn(carried, p)
  /\ \A n : TrueLead(n) = TrueLeadIn(carried, n)
  /\ \A a : Comparisons(a) = ComparisonsIn(carried, a)
  /\ \A c : Apart(c) = ApartIn(carried, c)
<1>1. \A n : IsSample(n) <=> IsSampleIn(carried, n)
  BY DEF IsSample, IsSampleIn
<1>2. \A p : SamplesOf(p) = SamplesIn(carried, p)
  BY <1>1, Zenon DEF SamplesOf, SamplesIn
<1>3. \A n : TrueLead(n) = TrueLeadIn(carried, n)
  BY DEF TrueLead, TrueLeadIn
<1>4. \A n, p : Forgets(n, p) <=> ForgetsIn(carried, n, p)
  BY DEF Forgets, ForgetsIn
<1>5. \A p, n : LatestLead(p, n) = LatestIn(carried, p, n)
  BY <1>2, <1>4, Zenon DEF LatestLead, LatestIn
<1>6. \A n : TypesAt(n) = TypesIn(carried, n) /\ VideoAt(n) = VideoIn(carried, n)
  BY Zenon DEF TypesAt, TypesIn, LayoutsUpTo, VideoAt, VideoIn
<1>7. \A a : Triggers(a) = TriggersIn(carried, a)
  BY <1>1, <1>6, Zenon DEF Triggers, TriggersIn
<1>8. ASSUME NEW a
      PROVE  Comparisons(a) = ComparisonsIn(carried, a)
  <2>1. \A c : c \in Comparisons(a) <=>
                 /\ \E n \in Triggers(a) :
                      c \in {n} \X LatestLead(a, n) \X UNION {LatestLead(v, n) : v \in VideoAt(n)}
                 /\ carried[c[2]].at.segment = carried[c[3]].at.segment
    BY DEF Comparisons
  <2>2. \A c : c \in ComparisonsIn(carried, a) <=>
                 /\ \E n \in TriggersIn(carried, a) :
                      c \in {n} \X LatestIn(carried, a, n)
                              \X UNION {LatestIn(carried, v, n) : v \in VideoIn(carried, n)}
                 /\ carried[c[2]].at.segment = carried[c[3]].at.segment
    BY DEF ComparisonsIn
  <2>3. ASSUME NEW n
        PROVE  UNION {LatestLead(v, n) : v \in VideoAt(n)}
                 = UNION {LatestIn(carried, v, n) : v \in VideoIn(carried, n)}
    BY <1>5, <1>6
  <2>4. QED BY <1>5, <1>7, <2>1, <2>2, <2>3
<1>9. \A c : Apart(c) = ApartIn(carried, c)
  BY <1>3 DEF Apart, ApartIn
<1>10. QED BY <1>2, <1>3, <1>8, <1>9

\* The extremes are the least and the greatest lead, and the first of the greatest.
Extremes(s, p, l) ==
  /\ l.min.ticks = Min({TrueLeadIn(s, n) : n \in SamplesIn(s, p)})
  /\ l.max.ticks = Max({TrueLeadIn(s, n) : n \in SamplesIn(s, p)})
  /\ l.max.offset = Min({n \in SamplesIn(s, p) : TrueLeadIn(s, n) = l.max.ticks})

\* So they are by the invariant.
LEMMA ExtremesDefine ==
  ASSUME NEW s, ObservedOK(s), NEW p, NEW l, ExtremesOK(s, p, l)
  PROVE  /\ l.samples > 0 <=> SamplesIn(s, p) # {}
         /\ l.samples > 0 => Extremes(s, p, l)
<1> DEFINE S == SamplesIn(s, p)
           T == {TrueLeadIn(s, n) : n \in S}
           F == {n \in S : TrueLeadIn(s, n) = l.max.ticks}
<1>1. /\ l.samples = Cardinality(S)
      /\ l.samples > 0 =>
           /\ \E n \in S : l.min.ticks = TrueLeadIn(s, n)
           /\ \A n \in S : l.min.ticks <= TrueLeadIn(s, n)
           /\ l.max.offset \in S /\ TrueLeadIn(s, l.max.offset) = l.max.ticks
           /\ \A n \in S : /\ TrueLeadIn(s, n) <= l.max.ticks
                           /\ TrueLeadIn(s, n) = l.max.ticks => l.max.offset <= n
  BY DEF ExtremesOK
<1>2. \A n \in S : n \in Nat /\ TrueLeadIn(s, n) \in Int
  <2> TAKE n \in S
  <2>1. n \in DOMAIN s /\ IsSampleIn(s, n)
    BY DEF SamplesIn
  <2>2. TrueLeadIn(s, n) \in (StampPeriod \div 2) - StampPeriod .. (StampPeriod \div 2) - 1
    BY <2>1, TrueLeadIs
  <2>3. n \in Nat
    BY <2>1, ObservedIs
  <2>4. QED BY <2>2, <2>3, LeadAssumption
<1>3. IsFiniteSet(S)
  <2>1. S \subseteq 1 .. Len(s) /\ Len(s) \in Nat
    BY DEF ObservedOK, SamplesIn
  <2>2. IsFiniteSet(1 .. Len(s))
    BY <2>1, FS_Interval
  <2> HIDE DEF S
  <2>3. QED BY <2>1, <2>2, FS_Subset
<1>4. Cardinality(S) \in Nat /\ (Cardinality(S) = 0 <=> S = {})
  BY <1>3, FS_CardinalityType, FS_EmptySet
<1> HIDE DEF S
<1>5. l.samples > 0 <=> S # {}
  BY <1>1, <1>4
<1> HIDE DEF T, F
<1>6. ASSUME l.samples > 0
      PROVE  /\ l.min.ticks = Min(T) /\ l.max.ticks = Max(T) /\ l.max.offset = Min(F)
  <2>1. T \in SUBSET Int /\ l.min.ticks \in T /\ l.max.ticks \in T
    BY <1>1, <1>2, <1>6 DEF T
  <2>2. (\A k \in T : l.min.ticks <= k) /\ (\A k \in T : k <= l.max.ticks)
    BY <1>1, <1>6 DEF T
  <2>3. F \in SUBSET Int /\ l.max.offset \in F /\ \A k \in F : l.max.offset <= k
    BY <1>1, <1>2, <1>6 DEF F
  <2>4. QED BY <2>1, <2>2, <2>3, LeastIsMin, GreatestIsMax
<1>7. QED BY <1>5, <1>6 DEF S, T, F, Extremes

\* The comparisons lie at integer distances.
LEMMA ApartIs ==
  ASSUME NEW s, ObservedOK(s), NEW a, NEW c \in ComparisonsIn(s, a)
  PROVE  ApartIn(s, c) \in Int
<1>1. PICK i \in TriggersIn(s, a) : c \in ComparedAt(s, a, i)
  BY ComparisonsAre
<1>2. c[2] \in SamplesIn(s, a) /\ \E u : c[3] \in SamplesIn(s, u)
  BY <1>1, ComparedAtIs DEF LatestIn
<1>3. ASSUME NEW u, NEW n \in SamplesIn(s, u)
      PROVE  TrueLeadIn(s, n) \in Int
  <2>1. n \in DOMAIN s /\ IsSampleIn(s, n)
    BY DEF SamplesIn
  <2>2. TrueLeadIn(s, n) \in (StampPeriod \div 2) - StampPeriod .. (StampPeriod \div 2) - 1
    BY <2>1, TrueLeadIs
  <2>3. QED BY <2>2, LeadAssumption
<1>4. TrueLeadIn(s, c[2]) \in Int /\ TrueLeadIn(s, c[3]) \in Int
  BY <1>2, <1>3
<1>5. QED BY <1>4 DEF ApartIn

\* The worst of them is the greatest distance.
LEMMA WorstDefines ==
  ASSUME NEW s, ObservedOK(s), NEW a, NEW l, ComparedOK(s, a, l)
  PROVE  /\ l.comparisons > 0 <=> ComparisonsIn(s, a) # {}
         /\ l.comparisons > 0 =>
              /\ l.worst.ticks \in Int
              /\ l.worst.ticks = Max({ApartIn(s, c) : c \in ComparisonsIn(s, a)})
<1> DEFINE C == ComparisonsIn(s, a)
           T == {ApartIn(s, c) : c \in C}
<1>1. /\ IsFiniteSet(C) /\ l.comparisons = Cardinality(C)
      /\ l.comparisons > 0 =>
           /\ \E c \in C : ApartIn(s, c) = l.worst.ticks
           /\ \A c \in C : ApartIn(s, c) <= l.worst.ticks
  BY DEF ComparedOK
<1>2. \A c \in C : ApartIn(s, c) \in Int
  BY ApartIs
<1> HIDE DEF C
<1>3. Cardinality(C) \in Nat /\ (Cardinality(C) = 0 <=> C = {})
  BY <1>1, FS_CardinalityType, FS_EmptySet
<1>4. l.comparisons > 0 <=> C # {}
  BY <1>1, <1>3
<1>5. ASSUME l.comparisons > 0
      PROVE  l.worst.ticks \in Int /\ l.worst.ticks = Max(T)
  <2>1. T \in SUBSET Int /\ l.worst.ticks \in T /\ \A k \in T : k <= l.worst.ticks
    BY <1>1, <1>2, <1>5
  <2> HIDE DEF T
  <2>2. QED BY <2>1, GreatestIsMax
<1>6. QED BY <1>4, <1>5 DEF C

\* The status of a PID tells whether it has a sample, or what it lacks.
LEMMA StatusIs ==
  ASSUME NEW p
  PROVE  /\ LeadStatus(p) = "info" <=> leads[p].samples > 0
         /\ LeadStatus(p) = "no_pcr_timing" <=>
              ~(leads[p].samples > 0) /\ streams[p].pes # 0 /\ streams[p].pts # 0
BY DEF LeadStatus

\* No comparison of a listed audio PID is worse than the one reported.
LEMMA WorstIs ==
  ASSUME LeadInv, NEW p \in WorstAudio, NEW q \in ListedAudio, NEW c \in ComparisonsIn(carried, q)
  PROVE  ApartIn(carried, c) <= leads[p].worst.ticks
<1> DEFINE compared == {r \in ListedAudio : leads[r].comparisons > 0}
           largest == {r \in compared : \A t \in compared : leads[t].worst.ticks <= leads[r].worst.ticks}
<1>1. /\ ObservedOK(carried) /\ DOMAIN leads = DOMAIN streams /\ DOMAIN streams \subseteq Nat
      /\ \A r \in DOMAIN streams : ComparedOK(carried, r, leads[r])
  BY LeadAssumption DEF LeadInv, LeadOK, CheckInv
<1>2. ListedAudio \subseteq DOMAIN streams
  BY DEF ListedAudio
<1>3. p \in IF largest = {} THEN {} ELSE {Min(largest)}
  BY DEF WorstAudio
<1>4. largest # {} /\ p = Min(largest)
  BY <1>3
<1>5. largest \in SUBSET Nat
  BY <1>1, <1>2
<1>6. p \in largest
  <2> HIDE DEF largest
  <2>1. PICK m \in largest : \A k \in largest : m <= k
    BY <1>4, <1>5, LeastNatural
  <2>2. largest \in SUBSET Int
    BY <1>5
  <2>3. QED BY <1>4, <2>1, <2>2, LeastIsMin
<1>7. q \in DOMAIN streams /\ p \in DOMAIN streams
  BY <1>2, <1>6
<1>8. leads[q].comparisons > 0
  <2>1. ComparedOK(carried, q, leads[q])
    BY <1>1, <1>7
  <2>2. QED BY <1>1, <2>1, WorstDefines
<1>9. q \in compared
  BY <1>8
<1>10. leads[q].worst.ticks <= leads[p].worst.ticks /\ leads[p].comparisons > 0
  BY <1>6, <1>9
<1>11. /\ leads[q].worst.ticks \in Int /\ leads[p].worst.ticks \in Int
  <2>1. ComparedOK(carried, q, leads[q]) /\ ComparedOK(carried, p, leads[p])
    BY <1>1, <1>7
  <2>2. QED BY <1>1, <1>8, <1>10, <2>1, WorstDefines
<1>12. ApartIn(carried, c) <= leads[q].worst.ticks
  <2>1. ComparedOK(carried, q, leads[q])
    BY <1>1, <1>7
  <2>2. QED BY <1>8, <2>1 DEF ComparedOK
<1>13. ApartIn(carried, c) \in Int
  BY <1>1, ApartIs
<1> HIDE DEF compared, largest
<1>14. QED BY <1>10, <1>11, <1>12, <1>13

\* What the invariant says of the leads is what defines them.
LEMMA LeadsFollow == LeadInv => LeadsAsDefined
<1> SUFFICES ASSUME LeadInv PROVE LeadsAsDefined
  OBVIOUS
<1>1. /\ ObservedOK(carried) /\ DOMAIN leads = DOMAIN streams
      /\ \A p \in DOMAIN streams : LeadOK(carried, p, leads[p]) /\ HeadersOK(carried, p, streams[p])
  BY DEF LeadInv
<1>2. /\ \A p : SamplesOf(p) = SamplesIn(carried, p)
      /\ \A n : TrueLead(n) = TrueLeadIn(carried, n)
      /\ \A a : Comparisons(a) = ComparisonsIn(carried, a)
      /\ \A c : Apart(c) = ApartIn(carried, c)
  BY LeadDefinitions
<1>3. ASSUME NEW p \in DOMAIN leads
      PROVE  /\ leads[p].samples = Cardinality(SamplesOf(p))
             /\ leads[p].negative = Cardinality({n \in SamplesOf(p) : TrueLead(n) < 0})
             /\ leads[p].samples > 0 =>
                  /\ leads[p].min.ticks = Min({TrueLead(n) : n \in SamplesOf(p)})
                  /\ leads[p].max.ticks = Max({TrueLead(n) : n \in SamplesOf(p)})
                  /\ leads[p].max.offset = Min({n \in SamplesOf(p) : TrueLead(n) = leads[p].max.ticks})
             /\ leads[p].comparisons = Cardinality(Comparisons(p))
             /\ leads[p].comparisons > 0 =>
                  /\ leads[p].worst.ticks = Max({Apart(c) : c \in Comparisons(p)})
                  /\ \E c \in Comparisons(p) : /\ leads[p].worst.audio.offset = c[2]
                                               /\ leads[p].worst.video.offset = c[3]
                                               /\ Apart(c) = leads[p].worst.ticks
             /\ LeadStatus(p) = "info" <=> SamplesOf(p) # {}
             /\ LeadStatus(p) = "no_pcr_timing" <=>
                  SamplesOf(p) = {} /\ \E n \in DOMAIN carried : carried[n].what = "pes"
                                         /\ carried[n].pid = p /\ carried[n].carries.hasPTS
  <2> DEFINE l == leads[p]
             S == SamplesIn(carried, p)
             C == ComparisonsIn(carried, p)
  <2>1. ExtremesOK(carried, p, l) /\ ComparedOK(carried, p, l) /\ HeadersOK(carried, p, streams[p])
    BY <1>1 DEF LeadOK
  <2>2. SamplesOf(p) = S /\ Comparisons(p) = C
    BY <1>2
  <2>3. /\ {n \in S : TrueLead(n) < 0} = NegativesIn(carried, p)
        /\ {TrueLead(n) : n \in S} = {TrueLeadIn(carried, n) : n \in S}
        /\ {n \in S : TrueLead(n) = l.max.ticks} = {n \in S : TrueLeadIn(carried, n) = l.max.ticks}
        /\ {Apart(c) : c \in C} = {ApartIn(carried, c) : c \in C}
    BY <1>2, Zenon DEF NegativesIn
  <2>4. l.samples = Cardinality(S) /\ l.negative = Cardinality(NegativesIn(carried, p))
    BY <2>1 DEF ExtremesOK
  <2>5. /\ l.samples > 0 <=> S # {}
        /\ l.samples > 0 =>
             /\ l.min.ticks = Min({TrueLeadIn(carried, n) : n \in S})
             /\ l.max.ticks = Max({TrueLeadIn(carried, n) : n \in S})
             /\ l.max.offset = Min({n \in S : TrueLeadIn(carried, n) = l.max.ticks})
    <3>1. /\ l.samples > 0 <=> S # {}
          /\ l.samples > 0 => Extremes(carried, p, l)
      <4> HIDE DEF l
      <4>1. QED BY <1>1, <2>1, ExtremesDefine
    <3> HIDE DEF l
    <3>2. QED BY <3>1, Zenon DEF Extremes
  <2>6. l.comparisons > 0 =>
             /\ l.worst.ticks = Max({ApartIn(carried, c) : c \in C})
    BY <1>1, <2>1, WorstDefines
  <2>7. /\ l.comparisons = Cardinality(C)
        /\ l.comparisons > 0 =>
             \E c \in C : /\ l.worst.audio.offset = c[2]
                          /\ l.worst.video.offset = c[3]
                          /\ Apart(c) = l.worst.ticks
    BY <1>2, <2>1 DEF ComparedOK
  <2>8. /\ LeadStatus(p) = "info" <=> S # {}
        /\ LeadStatus(p) = "no_pcr_timing" <=> S = {} /\ StampedIn(carried, p) # {}
    <3>1. /\ streams[p].pes \in Nat /\ streams[p].pts \in Nat
          /\ streams[p].pts > 0 <=> StampedIn(carried, p) # {}
          /\ streams[p].pts > 0 => streams[p].pes > 0
      BY <2>1 DEF HeadersOK
    <3> HIDE DEF S
    <3>2. /\ LeadStatus(p) = "info" <=> l.samples > 0
          /\ LeadStatus(p) = "no_pcr_timing" <=>
               ~(l.samples > 0) /\ streams[p].pes # 0 /\ streams[p].pts # 0
      BY StatusIs
    <3>3. QED BY <2>5, <3>1, <3>2
  <2>9. StampedIn(carried, p) # {} <=>
          \E n \in DOMAIN carried : carried[n].what = "pes"
             /\ carried[n].pid = p /\ carried[n].carries.hasPTS
    BY DEF StampedIn, IsStampedIn
  <2> HIDE DEF l, S, C
  <2>10. /\ l.samples = Cardinality(SamplesOf(p))
         /\ l.negative = Cardinality({n \in SamplesOf(p) : TrueLead(n) < 0})
         /\ l.comparisons = Cardinality(Comparisons(p))
    BY <2>2, <2>3, <2>4, <2>7
  <2>11. l.samples > 0 =>
           /\ l.min.ticks = Min({TrueLead(n) : n \in SamplesOf(p)})
           /\ l.max.ticks = Max({TrueLead(n) : n \in SamplesOf(p)})
           /\ l.max.offset = Min({n \in SamplesOf(p) : TrueLead(n) = l.max.ticks})
    BY <2>2, <2>3, <2>5
  <2>12. l.comparisons > 0 =>
           /\ l.worst.ticks = Max({Apart(c) : c \in Comparisons(p)})
           /\ \E c \in Comparisons(p) : /\ l.worst.audio.offset = c[2]
                                        /\ l.worst.video.offset = c[3]
                                        /\ Apart(c) = l.worst.ticks
    BY <2>2, <2>3, <2>6, <2>7
  <2>13. QED BY <2>2, <2>8, <2>9, <2>10, <2>11, <2>12 DEF l
<1>4. \A p \in WorstAudio, q \in ListedAudio : \A c \in Comparisons(q) :
        Apart(c) <= leads[p].worst.ticks
  BY <1>2, WorstIs
<1>5. QED BY <1>3, <1>4, Zenon DEF LeadsAsDefined

\* The mux lead is as documented: the extremes, counts and comparisons of every PID
\* are those of the true leads of its samples, and the worst is reported.
THEOREM LeadsAreDefined == LeadSpec => []LeadsAsDefined
<1>1. LeadInv => LeadsAsDefined
  BY LeadsFollow
<1>2. QED BY <1>1, LeadInvHolds, PTL

=================================================================================
