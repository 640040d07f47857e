------------------------------- MODULE PesCheck -------------------------------
(***************************************************************************)
(* PESCheck of internal/analysis/pes.go: the PES headers and the intervals  *)
(* between PES packets with a PTS, of each elementary PID of one program.   *)
(*                                                                         *)
(* What the check receives is what ProgramAnalyzer promises it: the packets *)
(* of a PID in stream order, at times that never go back in a segment.      *)
(* history keeps all of it, for the properties only.                       *)
(***************************************************************************)
EXTENDS Integers, Sequences, FiniteSets, FiniteSetsExt

CONSTANTS
  Pids,
  PTSRepetitionLimitTicks,
  Layouts,       \* layouts a PMT may announce: the stream type of each PID
  Gaps,          \* times between two PES packets of a PID in one segment
  MaxObserved    \* bound on the observations and layouts of a behaviour

ASSUME CheckAssumption ==
  /\ IsFiniteSet(Pids)
  /\ PTSRepetitionLimitTicks \in Nat
  /\ Gaps \subseteq Nat

VARIABLES
  streams,   \* PESCheck.streams: the state of each PID announced so far
  time,      \* the last time of each PID, [segment, ticks]
  offset,    \* observations so far, which number them as byte offsets would
  history    \* what each PID was observed to do

checkVars == <<streams, time, offset, history>>

\* Any of the five ways a header fails its checks, and what breaks a PID.
HeaderProblems == {"truncated", "malformed"}
BreakCauses    == {"untrusted_payload", "continuity_error", "incomplete_header"}

IsVideoOrAudio(type) == type \in {"video", "audio"}

NoInterval == [valid |-> FALSE, measured |-> FALSE, ticks |-> 0, from |-> 0, to |-> 0]

Interval(measured, ticks, from, to) ==
  [valid |-> TRUE, measured |-> measured, ticks |-> ticks, from |-> from, to |-> to]

NewStream(type) ==
  [type |-> type, active |-> FALSE, applicable |-> FALSE,
   pes |-> 0, unchecked |-> 0, untrusted |-> 0,
   problems |-> [q \in HeaderProblems |-> [count |-> 0, first |-> 0]],
   pts |-> 0, placed |-> 0, intervals |-> 0, max |-> NoInterval,
   exceeded |-> 0, firstOver |-> 0,
   open |-> FALSE, openHasPTS |-> FALSE, openSegment |-> 0, openFrom |-> 0,
   openStart |-> 0, last |-> 0, lastAt |-> 0]

Over(iv) == iv.ticks > PTSRepetitionLimitTicks

\* Mutant: a lower bound counts as a measured interval.
Record_CountsBounds(st, iv) ==
  [st EXCEPT
     !.intervals = @ + 1,
     !.exceeded  = IF Over(iv) THEN @ + 1 ELSE @,
     !.firstOver = IF Over(iv) /\ st.exceeded = 0 THEN iv.to ELSE @,
     !.max       = IF ~@.valid \/ iv.ticks > @.ticks THEN iv ELSE @]

\* record: a measured interval always counts, a lower bound only above the limit.
Record(st, iv) ==
  IF ~iv.measured /\ ~Over(iv) THEN st
  ELSE [st EXCEPT
          !.intervals = IF iv.measured THEN @ + 1 ELSE @,
          !.exceeded  = IF Over(iv) THEN @ + 1 ELSE @,
          !.firstOver = IF Over(iv) /\ st.exceeded = 0 THEN iv.to ELSE @,
          !.max       = IF ~@.valid \/ iv.ticks > @.ticks THEN iv ELSE @]

\* pending: how long the interval in progress has gone without a PTS.
Pending(st) ==
  IF st.open /\ st.lastAt # st.openFrom
    THEN Interval(FALSE, st.last - st.openStart, st.openFrom, st.lastAt)
    ELSE NoInterval

\* Mutant: what went without a PTS before a break is forgotten.
EndInterval_Forgets(st) == [st EXCEPT !.open = FALSE]

EndInterval(st) ==
  [(IF Pending(st).valid THEN Record(st, Pending(st)) ELSE st) EXCEPT !.open = FALSE]

\* A PES packet whose time is known opens, extends or closes an interval.
Place(st, hasPTS, at, pos) ==
  LET s == IF st.open /\ st.openSegment # at.segment THEN EndInterval(st) ELSE st
      t == IF ~s.open
             THEN [s EXCEPT !.open = TRUE, !.openHasPTS = hasPTS, !.openSegment = at.segment,
                            !.openStart = at.ticks, !.openFrom = pos]
           ELSE IF hasPTS
             THEN [Record(s, Interval(s.openHasPTS, at.ticks - s.openStart, s.openFrom, pos))
                     EXCEPT !.openHasPTS = TRUE, !.openStart = at.ticks, !.openFrom = pos]
           ELSE s
  IN [t EXCEPT !.placed = @ + 1, !.last = at.ticks, !.lastAt = pos]

\* ObservePES with a valid header.  A PTS whose time is unknown ends the interval.
GoodHeader(st, hasPTS, at, pos) ==
  LET s == [st EXCEPT !.pes = @ + 1, !.pts = IF hasPTS THEN @ + 1 ELSE @] IN
  IF ~IsVideoOrAudio(s.type) THEN s
  ELSE IF at.valid THEN Place(s, hasPTS, at, pos)
  ELSE IF hasPTS THEN EndInterval(s)
  ELSE s

\* ObservePES with a header that failed a check.
BadHeader(st, problem, pos) ==
  EndInterval([st EXCEPT
    !.problems[problem] = [count |-> @.count + 1, first |-> IF @.count = 0 THEN pos ELSE @.first]])

\* ObserveBreak.
Broken(st, cause) ==
  EndInterval([st EXCEPT
    !.unchecked = IF cause = "incomplete_header" THEN @ + 1 ELSE @,
    !.untrusted = IF cause = "untrusted_payload" THEN @ + 1 ELSE @])

\* ObserveProgramLayout for one PID of the layout, known or new.
Announced(p, type) ==
  LET known == p \in DOMAIN streams
      st    == IF known THEN streams[p] ELSE NewStream(type)
      s     == IF known /\ (~st.active \/ st.type # type)
                 THEN [EndInterval(st) EXCEPT !.type = type] ELSE st
  IN [s EXCEPT !.active = TRUE, !.applicable = @ \/ IsVideoOrAudio(type)]

Removed(st) == IF st.active THEN [EndInterval(st) EXCEPT !.active = FALSE] ELSE st

-------------------------------------------------------------------------------
Noted(p, entry) == history' = [history EXCEPT ![p] = Append(@, entry)]

Entry(kind, at, hasPTS, applies) ==
  [kind |-> kind, offset |-> offset + 1, at |-> at, pts |-> hasPTS, applies |-> applies]

NoTime == [valid |-> FALSE, segment |-> 0, ticks |-> 0]

\* The times the next PES packet of p may have.
NextTimes(p) ==
  {NoTime, [valid |-> TRUE, segment |-> time[p].segment + 1, ticks |-> 0]}
    \cup {[valid |-> TRUE, segment |-> time[p].segment, ticks |-> time[p].ticks + g] : g \in Gaps}

ObserveGoodHeader(p, hasPTS, at) ==
  /\ streams' = [streams EXCEPT ![p] = GoodHeader(@, hasPTS, at, offset + 1)]
  /\ time' = IF at.valid THEN [time EXCEPT ![p] = [segment |-> at.segment, ticks |-> at.ticks]]
                         ELSE time
  /\ Noted(p, Entry("pes", at, hasPTS, IsVideoOrAudio(streams[p].type)))

ObserveBadHeader(p, problem) ==
  /\ streams' = [streams EXCEPT ![p] = BadHeader(@, problem, offset + 1)]
  /\ Noted(p, Entry(problem, NoTime, FALSE, FALSE))
  /\ UNCHANGED time

ObserveBreak(p, cause) ==
  /\ streams' = [streams EXCEPT ![p] = Broken(@, cause)]
  /\ Noted(p, Entry(cause, NoTime, FALSE, FALSE))
  /\ UNCHANGED time

\* A known PID is added again, removed, or gets another type.
Changes(p, types) ==
  LET was == IF streams[p].active THEN streams[p].type ELSE "none"
  IN p \in DOMAIN streams /\ types[p] # was

ObserveProgramLayout(types) ==
  LET current == {p \in Pids : types[p] # "none"} IN
  /\ streams' = [p \in DOMAIN streams \cup current |->
                   IF p \in current THEN Announced(p, types[p]) ELSE Removed(streams[p])]
  /\ history' = [p \in Pids |->
                   IF Changes(p, types)
                     THEN Append(history[p], Entry("layout", NoTime, FALSE, FALSE))
                     ELSE history[p]]
  /\ UNCHANGED time

CheckInit ==
  /\ streams = [p \in {} |-> NewStream("none")]
  /\ time = [p \in Pids |-> [segment |-> 0, ticks |-> 0]]
  /\ offset = 0
  /\ history = [p \in Pids |-> <<>>]

\* The analyzer reports only the PIDs of its current layout.
CheckNext ==
  /\ offset < MaxObserved
  /\ offset' = offset + 1
  /\ \/ \E types \in Layouts : ObserveProgramLayout(types)
     \/ \E p \in {q \in DOMAIN streams : streams[q].active} :
          \/ \E hasPTS \in BOOLEAN, at \in NextTimes(p) : ObserveGoodHeader(p, hasPTS, at)
          \/ \E problem \in HeaderProblems : ObserveBadHeader(p, problem)
          \/ \E cause \in BreakCauses : ObserveBreak(p, cause)

CheckSpec == CheckInit /\ [][CheckNext]_checkVars

-------------------------------------------------------------------------------
(* Results.                                                                  *)

\* headerResult.
HeaderResult(st) ==
  LET found   == {q \in HeaderProblems : st.problems[q].count > 0}
      errors  == MapThenSumSet(LAMBDA q : st.problems[q].count, found)
      checked == st.pes + errors
  IN [status |-> IF errors > 0 THEN "errors" ELSE IF checked > 0 THEN "ok" ELSE "insufficient_data",
      reason |-> IF checked > 0 THEN "" ELSE IF st.untrusted > 0 THEN "untrusted_payload"
                 ELSE IF st.unchecked > 0 THEN "incomplete_headers" ELSE "no_pes",
      checked |-> checked, errors |-> errors, unchecked |-> st.unchecked,
      first |-> IF errors > 0 THEN Min({st.problems[q].first : q \in found}) ELSE 0]

Unmeasured(st, errors) ==
  IF st.pes = 0
    THEN IF st.untrusted > 0 THEN "untrusted_payload"
         ELSE IF errors > 0 THEN "malformed_headers" ELSE "no_pes"
  ELSE IF st.placed = 0 THEN "no_pcr_timing"
  ELSE IF st.pts = 0 THEN "no_pts" ELSE "single_pts"

\* repetitionResult: the interval in progress counts as at a break.
RepetitionResult(st) ==
  LET ended    == Pending(st).valid /\ Over(Pending(st))
      r        == IF ended THEN Record(st, Pending(st)) ELSE st
  IN [status |-> IF ~st.applicable THEN "skipped" ELSE IF r.exceeded > 0 THEN "ng"
                 ELSE IF st.intervals > 0 THEN "ok" ELSE "insufficient_data",
      reason |-> IF ~st.applicable THEN "not_video_or_audio"
                 ELSE IF r.exceeded > 0 \/ st.intervals > 0 THEN ""
                 ELSE Unmeasured(st, HeaderResult(st).errors),
      pts |-> st.pts, intervals |-> st.intervals, exceeded |-> r.exceeded,
      first |-> r.firstOver, max |-> r.max]

\* Mutant: the first exceeded interval of the first PID is the first of all.
FirstExceeded_OfFirstPid(results) ==
  LET over == {p \in DOMAIN results : results[p].exceeded > 0} IN
    IF over = {} THEN 0 ELSE results[Min(over)].first

FirstExceeded(results) ==
  LET over == {p \in DOMAIN results : results[p].exceeded > 0} IN
    IF over = {} THEN 0 ELSE Min({results[p].first : p \in over})

\* sumRepetition over the PIDs of the program, in PID order.
SumRepetition(results) ==
  LET pids      == DOMAIN results
      exceeded  == MapThenSumSet(LAMBDA p : results[p].exceeded, pids)
      lacking   == {p \in pids : results[p].status = "insufficient_data"}
      maxima    == {results[p].max.ticks : p \in {q \in pids : results[q].max.valid}}
  IN [status |-> IF exceeded > 0 THEN "ng"
                 ELSE IF \E p \in pids : results[p].status = "ok" THEN "ok"
                 ELSE IF lacking # {} THEN "insufficient_data" ELSE "skipped",
      reason |-> IF exceeded > 0 \/ \E p \in pids : results[p].status = "ok" THEN ""
                 ELSE IF lacking # {} THEN results[Min(lacking)].reason ELSE "no_video_or_audio",
      intervals |-> MapThenSumSet(LAMBDA p : results[p].intervals, pids),
      exceeded |-> exceeded, first |-> FirstExceeded(results),
      max |-> IF maxima = {} THEN -1 ELSE Max(maxima)]

Results == [p \in DOMAIN streams |-> RepetitionResult(streams[p])]

-------------------------------------------------------------------------------
(* The definition the check documents, over all that a PID was observed to do. *)

\* Observations whose time is known, and those that end an interval.
Points(h) == {i \in DOMAIN h : h[i].kind = "pes" /\ h[i].applies /\ h[i].at.valid}

Cuts(h) ==
  {i \in DOMAIN h : h[i].kind # "pes" \/ (h[i].applies /\ h[i].pts /\ ~h[i].at.valid)}

\* Two times that can be compared.
Follows(h, i, j) ==
  /\ i < j
  /\ h[i].at.segment = h[j].at.segment
  /\ \A c \in Cuts(h) : ~(i < c /\ c < j)

NoPTSBetween(h, i, j) == \A k \in Points(h) : i < k /\ k < j => ~h[k].pts

\* Intervals between two consecutive PES packets with a PTS.
MeasuredIntervals(h) ==
  LET Measured(i, j) == Follows(h, i, j) /\ h[i].pts /\ h[j].pts /\ NoPTSBetween(h, i, j)
  IN {pair \in Points(h) \X Points(h) : Measured(pair[1], pair[2])}

\* From the first PES packet after a cut to the first PTS, and from the last PTS,
\* or that first packet, to the last one before a cut.
LowerBounds(h) ==
  LET Bounded(i, j) ==
        /\ Follows(h, i, j) /\ NoPTSBetween(h, i, j)
        /\ (h[i].pts \/ \A k \in Points(h) : ~Follows(h, k, i))
        /\ IF h[j].pts THEN ~h[i].pts ELSE \A k \in Points(h) : ~Follows(h, j, k)
  IN {pair \in Points(h) \X Points(h) : Bounded(pair[1], pair[2])}

Ticks(h, pair) == h[pair[2]].at.ticks - h[pair[1]].at.ticks

TooLong(h) ==
  {pair \in MeasuredIntervals(h) \cup LowerBounds(h) : Ticks(h, pair) > PTSRepetitionLimitTicks}

Longest(h) ==
  LET all == {Ticks(h, pair) : pair \in MeasuredIntervals(h) \cup TooLong(h)}
  IN IF all = {} THEN -1 ELSE Max(all)

\* The offset at which the first interval above the limit was known to end.
EarliestTooLong(h) ==
  IF TooLong(h) = {} THEN 0 ELSE Min({h[pair[2]].offset : pair \in TooLong(h)})

-------------------------------------------------------------------------------
(* Properties.                                                               *)

\* The intervals of a PID, those above the limit, the first of them and the
\* longest are the ones its documentation defines over the whole history,
\* whatever breaks, layout changes and segments lie in it.
RepetitionAsDefined ==
  \A p \in DOMAIN streams :
    LET h == history[p]
        r == RepetitionResult(streams[p])
    IN /\ r.intervals = Cardinality(MeasuredIntervals(h))
       /\ r.exceeded = Cardinality(TooLong(h))
       /\ r.first = EarliestTooLong(h)
       /\ IF r.max.valid THEN r.max.ticks = Longest(h) ELSE Longest(h) = -1

\* The totals are those of all PIDs together: the first interval above the limit
\* is the first in the stream, whichever PID it is on, and the longest is the
\* longest of any.
TotalsAsDefined ==
  LET total == SumRepetition(Results)
      known == DOMAIN streams
      over  == {p \in known : TooLong(history[p]) # {}}
  IN /\ total.exceeded = MapThenSumSet(LAMBDA p : Cardinality(TooLong(history[p])), known)
     /\ total.first = IF over = {} THEN 0 ELSE Min({EarliestTooLong(history[p]) : p \in over})
     /\ total.max = Max({-1} \cup {Longest(history[p]) : p \in known})
     /\ total.status = "ng" <=> over # {}
     /\ total.status = "ok" =>
          \E p \in known : MeasuredIntervals(history[p]) # {}

\* What the check reports of each PID, and of all together, is what the history of
\* its observations defines.
ResultsAsDefined == RepetitionAsDefined /\ TotalsAsDefined

\* Once a PID exceeds the limit it does so for the rest of the analysis, and the
\* longest interval reported never shrinks: the interval in progress, which
\* Result counts before it has ended, is never taken back.
NgIsFinal ==
  [][\A p \in DOMAIN streams :
       LET before == RepetitionResult(streams[p])
           after  == RepetitionResult(streams'[p])
       IN /\ before.status = "ng" => after.status = "ng"
          /\ before.exceeded <= after.exceeded
          /\ before.max.valid => after.max.valid /\ before.max.ticks <= after.max.ticks]_checkVars
===============================================================================
