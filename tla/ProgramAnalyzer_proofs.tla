------------------------- MODULE ProgramAnalyzer_proofs -------------------------
(***************************************************************************)
(* Proofs about PcrClock: the segments and the time of the timeline are    *)
(* the sender's, for every PCR modulus, jump limit and number of packets.  *)
(*                                                                         *)
(* Then about ProgramAnalyzer for every set of PIDs, layouts and headers,  *)
(* every PCR modulus and every bound on what the feed holds: each PES      *)
(* packet is reported once, at its time and as its type.                   *)
(*                                                                         *)
(* The invariant AnalyzerInv speaks of a feed f, the PES packets in        *)
(* progress P and a view v of the PCRs and layouts, so that each call of a *)
(* handler can be shown to keep it on its own: the lemmas named ...All,    *)
(* below.  The steps of the handlers are put together from those.          *)
(*                                                                         *)
(* And proofs about PsiHealth, whose clock reads the PCRs of               *)
(* ProgramAnalyzer on its own and has the same segments, whatever the      *)
(* PCR_PID, the tables and the PCRs do.                                    *)
(*                                                                         *)
(* And about PcrStats: the bitrate, the series and the jitter are those of *)
(* the timeline.  The invariant StatsInv speaks of a list of PCRs M, the   *)
(* packets X and what was measured on them.                                *)
(***************************************************************************)
EXTENDS ProgramAnalyzer, PcrStats, PsiHealth, Induction

-------------------------------------------------------------------------------
(* Arithmetic of the modulus.                                                *)

Values == 0 .. PCRWrapTicks - 1

\* A remainder is what is left of a number after a multiple of the modulus.
LEMMA RemainderOf ==
  ASSUME NEW x \in Int, NEW r \in Values, NEW q \in Int, x = q * PCRWrapTicks + r
  PROVE  x % PCRWrapTicks = r
BY TimelineAssumption DEF Values

\* A PCR after a move of the sender's clock: the modulus is passed once at most.
LEMMA ValueAfter ==
  ASSUME NEW p \in Values, NEW move \in Moves
  PROVE  /\ (p + move) % PCRWrapTicks =
              IF p + move < 0 THEN p + move + PCRWrapTicks
              ELSE IF p + move >= PCRWrapTicks THEN p + move - PCRWrapTicks
              ELSE p + move
         /\ (p + move) % PCRWrapTicks \in Values
<1>0. move \in Int /\ move < PCRWrapTicks /\ -move < PCRWrapTicks - PCRJumpLimit
  BY MovesAssumption
<1>1. CASE p + move < 0
  <2>1. p + move + PCRWrapTicks \in Values
    BY <1>0, <1>1, TimelineAssumption DEF Values
  <2>2. p + move = (-1) * PCRWrapTicks + (p + move + PCRWrapTicks)
    BY <1>0, TimelineAssumption DEF Values
  <2>3. (p + move) % PCRWrapTicks = p + move + PCRWrapTicks
    BY <1>0, <2>1, <2>2, RemainderOf DEF Values
  <2>4. QED BY <1>1, <2>1, <2>3
<1>2. CASE p + move >= PCRWrapTicks
  <2>1. p + move - PCRWrapTicks \in Values
    BY <1>0, <1>2, TimelineAssumption DEF Values
  <2>2. p + move = 1 * PCRWrapTicks + (p + move - PCRWrapTicks)
    BY <1>0, TimelineAssumption DEF Values
  <2>3. (p + move) % PCRWrapTicks = p + move - PCRWrapTicks
    BY <1>0, <2>1, <2>2, RemainderOf DEF Values
  <2>4. QED BY <1>0, <1>2, <2>1, <2>3, TimelineAssumption DEF Values
<1>3. CASE p + move \in Values
  <2>1. p + move = 0 * PCRWrapTicks + (p + move)
    BY <1>0, TimelineAssumption DEF Values
  <2>2. (p + move) % PCRWrapTicks = p + move
    BY <1>0, <1>3, <2>1, RemainderOf DEF Values
  <2>3. QED BY <1>0, <1>3, <2>2, TimelineAssumption DEF Values
<1>4. QED BY <1>0, <1>1, <1>2, <1>3, TimelineAssumption DEF Values

\* The interval that nextPcrAnchor counts is the move, for a move that is measured.
LEMMA CountedInterval ==
  ASSUME NEW p \in Values, NEW move \in Moves, 0 <= move, move <= PCRJumpLimit
  PROVE  (((p + move) % PCRWrapTicks) + PCRWrapTicks - p) % PCRWrapTicks = move
<1> DEFINE v == (p + move) % PCRWrapTicks
<1>1. move \in Values /\ v \in Values
  BY ValueAfter, MovesAssumption, TimelineAssumption DEF Values
<1>2. CASE v = p + move
  <2>1. v + PCRWrapTicks - p = 1 * PCRWrapTicks + move
    BY <1>1, <1>2, TimelineAssumption DEF Values
  <2> HIDE DEF v
  <2>2. QED BY <1>1, <2>1, RemainderOf, TimelineAssumption DEF v, Values
<1>3. CASE v = p + move - PCRWrapTicks
  <2>1. v + PCRWrapTicks - p = 0 * PCRWrapTicks + move
    BY <1>1, <1>3, TimelineAssumption DEF Values
  <2> HIDE DEF v
  <2>2. QED BY <1>1, <2>1, RemainderOf, TimelineAssumption DEF v, Values
<1>4. QED BY <1>1, <1>2, <1>3, ValueAfter, MovesAssumption DEF Values

-------------------------------------------------------------------------------
(* The clock.                                                                *)

ClockTypes ==
  /\ pcrPid \in PcrPids
  /\ prevPcr \in [valid : BOOLEAN, pid : PcrPids, value : Values]
  /\ clock \in Anchors
  /\ discontinuityPending \in BOOLEAN /\ pcrPidChanged \in BOOLEAN
  /\ truth \in [elapsed : Int, bases : Int, marked : BOOLEAN]

\* The code knows of a new time base that is marked: no PCR came yet, an indicator
\* waits, or the PCR_PID has changed.
MarksNoticed ==
  /\ truth.marked <=> ~prevPcr.valid \/ discontinuityPending \/ pcrPidChanged
  /\ prevPcr.pid # pcrPid => pcrPidChanged
  /\ prevPcr.valid /\ ~pcrPidChanged => clock.valid

\* The unwrapped value counts whole wraps on from the PCR.
WholeWraps ==
  clock.valid => \E q \in Int : clock.unwrapped = q * PCRWrapTicks + clock.pcr

ClockInv == ClockTypes /\ MarksNoticed /\ WholeWraps /\ ClockIsTrue

\* An anchor by its fields.
LEMMA AnchorByFields ==
  ASSUME NEW v \in BOOLEAN, NEW p \in Int, NEW u \in Int, NEW at \in Int, NEW s \in Int
  PROVE  [valid |-> v, pcr |-> p, unwrapped |-> u, pos |-> at, segment |-> s] \in Anchors
BY Zenon DEF Anchors

\* No anchor yet, in a segment.
LEMMA NoAnchorIn ==
  ASSUME NEW s \in Int
  PROVE  /\ [NoAnchor EXCEPT !.segment = s] \in Anchors
         /\ [NoAnchor EXCEPT !.segment = s].segment = s /\ ~[NoAnchor EXCEPT !.segment = s].valid
<1>1. 0 \in Int /\ FALSE \in BOOLEAN
  OBVIOUS
<1>2. NoAnchor \in Anchors
  BY <1>1, AnchorByFields DEF NoAnchor
<1>3. [NoAnchor EXCEPT !.segment = s] \in Anchors
  BY <1>2 DEF Anchors
<1>4. QED BY <1>3 DEF NoAnchor

\* The invariant holds before the first packet.
LEMMA ClockInvInit == PcrInit => ClockInv
<1> SUFFICES ASSUME PcrInit PROVE ClockInv
  OBVIOUS
<1>1. 0 \in Values
  BY TimelineAssumption DEF Values
<1>2. ClockTypes
  <2>1. 0 \in Int /\ FALSE \in BOOLEAN /\ TRUE \in BOOLEAN
    OBVIOUS
  <2>2. clock \in Anchors
    BY <2>1, AnchorByFields DEF PcrInit, NoAnchor
  <2>3. prevPcr \in [valid : BOOLEAN, pid : PcrPids, value : Values]
    BY <1>1, <2>1, Zenon DEF PcrInit
  <2>4. truth \in [elapsed : Int, bases : Int, marked : BOOLEAN]
    BY <2>1, Zenon DEF PcrInit
  <2>5. QED BY <2>2, <2>3, <2>4 DEF PcrInit, ClockTypes
<1>3. MarksNoticed /\ WholeWraps /\ ClockIsTrue
  BY DEF PcrInit, MarksNoticed, WholeWraps, ClockIsTrue, SegmentTimeIsTrue, SegmentPerTimeBase, NoAnchor
<1>4. QED BY <1>2, <1>3 DEF ClockInv

\* A step is measured exactly when the sender kept its time base.
LEMMA MeasuredIsTrue ==
  ASSUME ClockInv, NEW move \in Moves, NEW indicated \in BOOLEAN, NEW pcr,
         pcr = [pid |-> pcrPid, value |-> (prevPcr.value + move) % PCRWrapTicks,
                discontinuity |-> Declared(indicated), pidChanged |-> pcrPidChanged]
  PROVE  Comparable(StepKind(prevPcr, pcr)) <=>
           ~truth.marked /\ ~indicated /\ 0 <= move /\ move <= PCRJumpLimit
<1> DEFINE p == prevPcr.value
           v == (p + move) % PCRWrapTicks
<1>1. p \in Values /\ move \in Int /\ move < PCRWrapTicks /\ -move < PCRWrapTicks - PCRJumpLimit
  BY MovesAssumption DEF ClockInv, ClockTypes
<1>2. /\ v = IF p + move < 0 THEN p + move + PCRWrapTicks
             ELSE IF p + move >= PCRWrapTicks THEN p + move - PCRWrapTicks
             ELSE p + move
      /\ v \in Values
  BY <1>1, ValueAfter
<1>3. pcr.pid = pcrPid /\ pcr.value = v /\ (pcr.discontinuity <=> indicated \/ discontinuityPending)
      /\ (pcr.pidChanged <=> pcrPidChanged)
  BY DEF Declared
<1>4. CASE truth.marked \/ indicated
  <2>1. ~prevPcr.valid \/ pcr.discontinuity \/ pcr.pidChanged
    BY <1>3, <1>4 DEF ClockInv, MarksNoticed
  <2>2. StepKind(prevPcr, pcr) \in {"first", "pcr_pid_change", "declared"}
    BY <2>1 DEF StepKind
  <2>3. QED BY <1>4, <2>2 DEF Comparable
<1>5. CASE ~truth.marked /\ ~indicated
  <2>1. prevPcr.valid /\ pcr.pid = prevPcr.pid /\ ~pcr.discontinuity /\ ~pcr.pidChanged
    BY <1>3, <1>5 DEF ClockInv, MarksNoticed
  <2>2. StepKind(prevPcr, pcr) =
          IF v >= p THEN IF v - p <= PCRJumpLimit THEN "continuous" ELSE "forward_jump"
          ELSE IF v + PCRWrapTicks - p <= PCRJumpLimit THEN "wraparound" ELSE "backward"
    BY <1>3, <2>1 DEF StepKind
  <2> HIDE DEF v, p
  <2>3. (IF v >= p THEN v - p ELSE v + PCRWrapTicks - p) <= PCRJumpLimit
          <=> 0 <= move /\ move <= PCRJumpLimit
    BY <1>1, <1>2, TimelineAssumption DEF Values
  <2>4. QED BY <1>5, <2>2, <2>3 DEF Comparable
<1>6. QED BY <1>4, <1>5

\* A PCR keeps the invariant.
LEMMA PcrKeeps ==
  ASSUME ClockInv, NEW move \in Moves, NEW indicated \in BOOLEAN, NEW at \in Int,
         ObservePcr(move, indicated, at)
  PROVE  ClockInv'
<1> DEFINE v == (prevPcr.value + move) % PCRWrapTicks
           pcr == [pid |-> pcrPid, value |-> v, discontinuity |-> Declared(indicated),
                   pidChanged |-> pcrPidChanged]
           measured == Comparable(StepKind(prevPcr, pcr))
           kept == ~truth.marked /\ ~indicated /\ 0 <= move /\ move <= PCRJumpLimit
<1>1. /\ prevPcr' = [valid |-> TRUE, pid |-> pcrPid, value |-> v]
      /\ clock' = NextPcrAnchor(clock, v, at, measured)
      /\ discontinuityPending' = FALSE /\ pcrPidChanged' = FALSE /\ pcrPid' = pcrPid
      /\ truth' = TruthAfter(move, v, indicated)
  BY DEF ObservePcr
<1>2. measured <=> kept
  BY MeasuredIsTrue
<1>3. prevPcr.value \in Values /\ move \in Int /\ v \in Values /\ v \in Int
  BY ValueAfter, MovesAssumption DEF ClockInv, ClockTypes, Values
<1>4. /\ clock'.valid = TRUE /\ clock'.pcr = v /\ clock'.pos = at
      /\ clock'.segment = IF measured THEN clock.segment ELSE clock.segment + 1
      /\ clock'.unwrapped = IF measured
           THEN clock.unwrapped + ((v + PCRWrapTicks - clock.pcr) % PCRWrapTicks) ELSE v
      /\ DOMAIN clock' = {"valid", "pcr", "unwrapped", "pos", "segment"}
  BY <1>1 DEF NextPcrAnchor
<1>5. /\ truth'.elapsed = IF kept THEN truth.elapsed + move ELSE v
      /\ truth'.bases = IF kept THEN truth.bases ELSE truth.bases + 1
      /\ truth'.marked = FALSE
  BY <1>1, <1>3, TimelineAssumption DEF TruthAfter
<1> HIDE DEF v, pcr, measured
<1>6. CASE kept
  <2>1. clock.valid /\ clock.pcr = prevPcr.value /\ clock.unwrapped = truth.elapsed
        /\ clock.unwrapped \in Int /\ clock.segment = truth.bases
    BY <1>6 DEF ClockInv, ClockTypes, MarksNoticed, ClockIsTrue, SegmentTimeIsTrue,
                SegmentPerTimeBase, Anchors
  <2>2. (v + PCRWrapTicks - clock.pcr) % PCRWrapTicks = move
    BY <1>3, <1>6, <2>1, CountedInterval DEF v
  <2>3. clock'.unwrapped = clock.unwrapped + move
    BY <1>2, <1>4, <1>6, <2>2
  <2>4. PICK q \in Int : clock.unwrapped = q * PCRWrapTicks + prevPcr.value
    BY <2>1 DEF ClockInv, WholeWraps
  <2>5. \E n \in Int : clock'.unwrapped = n * PCRWrapTicks + v
    <3>1. CASE v = prevPcr.value + move
      <4>1. clock'.unwrapped = q * PCRWrapTicks + v
        BY <1>3, <2>3, <2>4, <3>1, TimelineAssumption DEF Values
      <4>2. QED BY <4>1
    <3>2. CASE v = prevPcr.value + move - PCRWrapTicks
      <4>1. clock'.unwrapped = (q + 1) * PCRWrapTicks + v
        BY <1>3, <2>3, <2>4, <3>2, TimelineAssumption DEF Values
      <4>2. QED BY <4>1
    <3>3. prevPcr.value + move >= 0
      BY <1>3, <1>6 DEF Values
    <3>4. QED BY <1>3, <3>1, <3>2, <3>3, ValueAfter DEF v, Values
  <2>6. clock'.unwrapped \in Int /\ clock'.unwrapped % PCRWrapTicks = v
    BY <1>3, <2>1, <2>3, <2>5, RemainderOf
  <2>7. /\ clock'.unwrapped = truth'.elapsed /\ clock'.segment = truth'.bases
        /\ clock'.pcr = clock'.unwrapped % PCRWrapTicks /\ clock'.pcr = prevPcr'.value
    BY <1>1, <1>2, <1>4, <1>5, <1>6, <2>1, <2>3, <2>6
  <2>8. ClockIsTrue' /\ WholeWraps'
    BY <1>4, <2>5, <2>7 DEF ClockIsTrue, SegmentTimeIsTrue, SegmentPerTimeBase, WholeWraps
  <2>9. clock' \in Anchors /\ truth' \in [elapsed : Int, bases : Int, marked : BOOLEAN]
    <3>1. clock'.segment \in Int /\ truth.elapsed \in Int /\ truth.bases \in Int
      BY <1>2, <1>4, <1>6 DEF ClockInv, ClockTypes, Anchors
    <3>2. QED BY <1>1, <1>2, <1>3, <1>6, <2>1, <2>2, <2>6, <3>1
             DEF NextPcrAnchor, TruthAfter, Anchors
  <2>10. QED BY <1>1, <1>3, <1>4, <1>5, <2>8, <2>9 DEF ClockInv, ClockTypes, MarksNoticed
<1>7. CASE ~kept
  <2>1. clock.segment = truth.bases /\ clock.segment \in Int
    BY DEF ClockInv, ClockTypes, ClockIsTrue, SegmentPerTimeBase, Anchors
  <2>2. v = 0 * PCRWrapTicks + v
    BY <1>3, TimelineAssumption
  <2>3. v % PCRWrapTicks = v
    BY <1>3, <2>2, RemainderOf
  <2>4. ClockIsTrue' /\ WholeWraps'
    BY <1>1, <1>2, <1>4, <1>5, <1>7, <2>1, <2>2, <2>3
       DEF ClockIsTrue, SegmentTimeIsTrue, SegmentPerTimeBase, WholeWraps
  <2>5. clock' \in Anchors /\ truth' \in [elapsed : Int, bases : Int, marked : BOOLEAN]
    <3>1. clock' = [valid |-> TRUE, pcr |-> v, unwrapped |-> v, pos |-> at,
                    segment |-> clock.segment + 1]
      BY <1>1, <1>2, <1>7 DEF NextPcrAnchor
    <3>2. truth' = [elapsed |-> v, bases |-> truth.bases + 1, marked |-> FALSE]
      <4>1. truth.marked \/ indicated \/ move < 0 \/ move > PCRJumpLimit
        BY <1>3, <1>7, TimelineAssumption
      <4>2. QED BY <1>1, <4>1, Zenon DEF TruthAfter
    <3>3. clock.segment + 1 \in Int /\ truth.bases + 1 \in Int /\ TRUE \in BOOLEAN /\ FALSE \in BOOLEAN
      BY <2>1
    <3>4. clock' \in Anchors
      BY <1>3, <3>1, <3>3, AnchorByFields
    <3>5. truth' \in [elapsed : Int, bases : Int, marked : BOOLEAN]
      BY <1>3, <3>2, <3>3, Zenon
    <3>6. QED BY <3>4, <3>5
  <2>6. QED BY <1>1, <1>3, <1>4, <1>5, <2>4, <2>5 DEF ClockInv, ClockTypes, MarksNoticed
<1>8. QED BY <1>6, <1>7

\* An indicator and a change of the PCR_PID keep the invariant.
LEMMA OthersKeep ==
  ASSUME ClockInv
  PROVE  /\ ObserveIndicator => ClockInv'
         /\ \A pid \in PcrPids : SetPcrPid(pid) => ClockInv'
         /\ UNCHANGED pcrVars => ClockInv'
<1> USE DEF ClockInv, ClockTypes, MarksNoticed, WholeWraps, ClockIsTrue, SegmentTimeIsTrue,
            SegmentPerTimeBase
<1>1. UNCHANGED pcrVars => ClockInv'
  BY DEF pcrVars
<1>2. ASSUME ObserveIndicator PROVE ClockInv'
  BY <1>2 DEF ObserveIndicator
<1>3. ASSUME NEW pid \in PcrPids, SetPcrPid(pid), pid # pcrPid PROVE ClockInv'
  <2>1. clock' = [NoAnchor EXCEPT !.segment = clock.segment]
    BY <1>3 DEF SetPcrPid
  <2>2. ~clock'.valid /\ clock'.segment = clock.segment /\ clock' \in Anchors
    BY <2>1, NoAnchorIn DEF Anchors
  <2>3. QED BY <1>3, <2>2 DEF SetPcrPid
<1>4. QED BY <1>1, <1>2, <1>3 DEF SetPcrPid

\* The timeline's segments and time are the sender's: for every modulus and jump limit,
\* every PCR_PID, and any sequence of PCRs, indicators and changes of the PCR_PID.
THEOREM ClockStaysTrue == PcrSpec => []ClockIsTrue
<1> DEFINE Inv == pos \in Int /\ ClockInv
<1>1. PcrInit => Inv
  BY ClockInvInit DEF PcrInit
<1>2. Inv /\ [PcrNext]_<<pos, pcrVars>> => Inv'
  BY PcrKeeps, OthersKeep, MovesAssumption DEF PcrNext
<1>3. Inv => ClockIsTrue
  BY DEF ClockInv
<1>4. QED
  BY <1>1, <1>2, <1>3, PTL DEF PcrSpec

-------------------------------------------------------------------------------
(* The feed: a queue per PID that loses nothing, for any observations.        *)

\* The numbers of all observations are those given out so far.
Numbered(f) ==
  /\ \A i \in DOMAIN f.log : f.log[i].n \in 1 .. f.seen
  /\ \A i \in DOMAIN f.pending : f.pending[i].n \in 1 .. f.seen

GoodFeed(f) == f \in Feeds /\ Numbered(f) /\ InOrder(f) /\ AllKept(f) /\ MarksHeld(f)

\* The time of a placed packet has the type the check expects.
LEMMA ArrivalType ==
  ASSUME NEW prev \in Anchors, NEW next \in Anchors, NEW offset \in Int
  PROVE  ArrivalAt(prev, next, offset) \in Arrivals
BY DEF ArrivalAt, Anchors, Arrivals, Unplaced

\* The records used as "no PCR" and "no time".
LEMMA NoneType == NoAnchor \in Anchors /\ Unplaced \in Arrivals
BY DEF NoAnchor, Anchors, Unplaced, Arrivals

\* Placing an observation changes neither its PID nor its number.
LEMMA PlacedType ==
  ASSUME NEW item \in Observations, NEW next \in Anchors
  PROVE  /\ Placed(item, next) \in Observations
         /\ Placed(item, next).n = item.n
         /\ Placed(item, next).pid = item.pid
<1>1. ArrivalAt(item.prev, next, item.offset) \in Arrivals
  BY ArrivalType DEF Observations
<1>2. QED
  BY <1>1 DEF Placed, Observations

\* What the fields of a good feed hold.
LEMMA FeedParts ==
  ASSUME NEW f, GoodFeed(f)
  PROVE  /\ f \in Feeds
         /\ f.pending \in Seq(Observations) /\ f.log \in Seq(Observations)
         /\ f.held \in [Pids -> Nat] /\ f.seen \in Nat
         /\ \A i \in DOMAIN f.log : f.log[i].n \in 1 .. f.seen /\ f.log[i].pid \in Pids
         /\ \A i \in DOMAIN f.pending : f.pending[i].n \in 1 .. f.seen /\ f.pending[i].pid \in Pids
<1>1. f \in Feeds /\ Numbered(f)
  BY DEF GoodFeed
<1>2. f.pending \in Seq(Observations) /\ f.log \in Seq(Observations)
  BY <1>1 DEF Feeds
<1>3. \A item \in Observations : item.pid \in Pids
  BY DEF Observations
<1>4. /\ \A i \in DOMAIN f.log : f.log[i].pid \in Pids
      /\ \A i \in DOMAIN f.pending : f.pending[i].pid \in Pids
  BY <1>2, <1>3
<1>5. QED
  BY <1>1, <1>2, <1>4 DEF Feeds, Numbered

\* An observation that reaches the check at once keeps the feed good, if its
\* PID holds nothing.
LEMMA DeliverGood ==
  ASSUME NEW f, GoodFeed(f), NEW item \in Observations, item.n = f.seen + 1,
         f.held[item.pid] = 0
  PROVE  GoodFeed(Deliver(f, item)) /\ Deliver(f, item).pending = f.pending
<1> DEFINE g == Deliver(f, item)
<1>0. /\ \A i \in DOMAIN f.log : f.log[i].n \in 1 .. f.seen /\ f.log[i].pid \in Pids
      /\ \A i \in DOMAIN f.pending : f.pending[i].n \in 1 .. f.seen /\ f.pending[i].pid \in Pids
      /\ f.pending \in Seq(Observations) /\ f.log \in Seq(Observations)
      /\ f.seen \in Nat /\ InOrder(f) /\ AllKept(f) /\ MarksHeld(f)
  BY FeedParts DEF GoodFeed
<1>1. item.pid \in Pids /\ item.n \in Nat
  BY DEF Observations
<1>2. f \in Feeds /\ Append(f.log, item) \in Seq(Observations)
  BY FeedParts
<1>3. /\ g.pending = f.pending /\ g.held = f.held /\ g.seen = f.seen + 1
      /\ g.log = Append(f.log, item)
  BY <1>2 DEF Deliver, Feeds
<1>5. g \in Feeds
  BY <1>1, <1>2 DEF Deliver, Feeds
<1> HIDE DEF g
<1>4. /\ g.log \in Seq(Observations)
      /\ DOMAIN g.log = DOMAIN f.log \cup {Len(f.log) + 1}
      /\ \A i \in DOMAIN f.log : g.log[i] = f.log[i] /\ i < Len(f.log) + 1
      /\ g.log[Len(f.log) + 1] = item
  BY <1>3, FeedParts
<1>6. \A j \in DOMAIN f.pending : f.pending[j].pid # item.pid
  BY <1>1, FeedParts DEF GoodFeed, MarksHeld
<1>7. Numbered(g)
  BY <1>3, <1>4, FeedParts DEF Numbered
<1>8. InOrder(g)
  <2>1. /\ \A i, j \in DOMAIN f.log :
             i < j /\ f.log[i].pid = f.log[j].pid => f.log[i].n < f.log[j].n
        /\ \A i \in DOMAIN f.log, j \in DOMAIN f.pending :
             f.log[i].pid = f.pending[j].pid => f.log[i].n < f.pending[j].n
        /\ \A i, j \in DOMAIN f.pending : i < j => f.pending[i].n < f.pending[j].n
    BY <1>0 DEF InOrder
  <2>2. \A i \in DOMAIN f.log : f.log[i].n < item.n
    BY <1>0
  <2>3. \A i, j \in DOMAIN g.log :
          i < j /\ g.log[i].pid = g.log[j].pid => g.log[i].n < g.log[j].n
    BY <1>4, <2>1, <2>2
  <2>4. \A i \in DOMAIN g.log, j \in DOMAIN g.pending :
          g.log[i].pid = g.pending[j].pid => g.log[i].n < g.pending[j].n
    BY <1>3, <1>4, <1>6, <2>1
  <2>5. QED
    BY <1>3, <2>1, <2>3, <2>4 DEF InOrder
<1>9. AllKept(g)
  <2>1. SUFFICES ASSUME NEW n \in 1 .. f.seen + 1
                 PROVE  \/ \E i \in DOMAIN g.log : g.log[i].n = n
                        \/ \E i \in DOMAIN f.pending : f.pending[i].n = n
    BY <1>3 DEF AllKept
  <2>2. CASE n = f.seen + 1
    BY <1>4, <2>2
  <2>3. CASE n \in 1 .. f.seen
    BY <1>0, <1>4, <2>3 DEF AllKept
  <2>4. QED
    BY <1>0, <2>2, <2>3
<1>10. MarksHeld(g)
  BY <1>3 DEF GoodFeed, MarksHeld
<1>11. QED
  BY <1>3, <1>5, <1>7, <1>8, <1>9, <1>10 DEF GoodFeed, g

\* Holding one more observation keeps the feed good.
LEMMA PushGood ==
  ASSUME NEW f, GoodFeed(f), NEW item \in Observations, item.n = f.seen + 1
  PROVE  GoodFeed(Push(f, item)) /\ Len(Push(f, item).pending) = Len(f.pending) + 1
<1> DEFINE g == Push(f, item)
<1>0. /\ \A i \in DOMAIN f.log : f.log[i].n \in 1 .. f.seen /\ f.log[i].pid \in Pids
      /\ \A i \in DOMAIN f.pending : f.pending[i].n \in 1 .. f.seen /\ f.pending[i].pid \in Pids
      /\ f.pending \in Seq(Observations) /\ f.log \in Seq(Observations)
      /\ f.seen \in Nat /\ InOrder(f) /\ AllKept(f) /\ MarksHeld(f)
  BY FeedParts DEF GoodFeed
<1>1. item.pid \in Pids /\ item.n \in Nat
  BY DEF Observations
<1>2. /\ f \in Feeds /\ Append(f.pending, item) \in Seq(Observations)
      /\ [f.held EXCEPT ![item.pid] = @ + 1] \in [Pids -> Nat]
  BY <1>1, FeedParts
<1>3. /\ g.pending = Append(f.pending, item) /\ g.seen = f.seen + 1 /\ g.log = f.log
      /\ g.held = [f.held EXCEPT ![item.pid] = @ + 1]
  BY <1>2 DEF Push, Feeds
<1>5. g \in Feeds
  <2>1. g = [[f EXCEPT !.pending = Append(@, item)]
              EXCEPT !.held = [f.held EXCEPT ![item.pid] = @ + 1], !.seen = item.n]
    BY <1>2 DEF Push, Feeds
  <2>2. QED
    BY <1>1, <1>2, <2>1 DEF Feeds
<1> HIDE DEF g
<1>4. /\ g.pending \in Seq(Observations)
      /\ DOMAIN g.pending = DOMAIN f.pending \cup {Len(f.pending) + 1}
      /\ \A i \in DOMAIN f.pending : g.pending[i] = f.pending[i] /\ i < Len(f.pending) + 1
      /\ g.pending[Len(f.pending) + 1] = item
      /\ Len(g.pending) = Len(f.pending) + 1
  BY <1>3, FeedParts
<1>7. Numbered(g)
  BY <1>3, <1>4, FeedParts DEF Numbered
<1>8. InOrder(g)
  <2>1. /\ \A i, j \in DOMAIN f.log :
             i < j /\ f.log[i].pid = f.log[j].pid => f.log[i].n < f.log[j].n
        /\ \A i \in DOMAIN f.log, j \in DOMAIN f.pending :
             f.log[i].pid = f.pending[j].pid => f.log[i].n < f.pending[j].n
        /\ \A i, j \in DOMAIN f.pending : i < j => f.pending[i].n < f.pending[j].n
    BY <1>0 DEF InOrder
  <2>2. /\ \A i \in DOMAIN f.log : f.log[i].n < item.n
        /\ \A i \in DOMAIN f.pending : f.pending[i].n < item.n
    BY <1>0
  <2>3. \A i, j \in DOMAIN g.pending : i < j => g.pending[i].n < g.pending[j].n
    BY <1>4, <2>1, <2>2
  <2>4. \A i \in DOMAIN g.log, j \in DOMAIN g.pending :
          g.log[i].pid = g.pending[j].pid => g.log[i].n < g.pending[j].n
    BY <1>3, <1>4, <2>1, <2>2
  <2>5. QED
    BY <1>3, <2>1, <2>3, <2>4 DEF InOrder
<1>9. AllKept(g)
  <2>1. SUFFICES ASSUME NEW n \in 1 .. f.seen + 1
                 PROVE  \/ \E i \in DOMAIN f.log : f.log[i].n = n
                        \/ \E i \in DOMAIN g.pending : g.pending[i].n = n
    BY <1>3 DEF AllKept
  <2>2. CASE n = f.seen + 1
    BY <1>4, <2>2
  <2>3. CASE n \in 1 .. f.seen
    BY <1>0, <1>4, <2>3 DEF AllKept
  <2>4. QED
    BY <1>0, <2>2, <2>3
<1>10. MarksHeld(g)
  <2> SUFFICES ASSUME NEW p \in Pids
               PROVE  g.held[p] > 0 <=> \E i \in DOMAIN g.pending : g.pending[i].pid = p
    BY DEF MarksHeld
  <2>1. CASE p = item.pid
    BY <1>1, <1>3, <1>4, <2>1, FeedParts
  <2>2. CASE p # item.pid
    BY <1>1, <1>3, <1>4, <2>2, FeedParts DEF GoodFeed, MarksHeld
  <2>3. QED
    BY <2>1, <2>2
<1>11. QED
  BY <1>4, <1>5, <1>7, <1>8, <1>9, <1>10 DEF GoodFeed, g

\* Releasing everything keeps the feed good and leaves nothing held.
LEMMA ReleaseGood ==
  ASSUME NEW f, GoodFeed(f), NEW next \in Anchors
  PROVE  GoodFeed(Release(f, next)) /\ Release(f, next).pending = <<>>
<1> DEFINE g == Release(f, next)
           out == [i \in DOMAIN f.pending |-> Placed(f.pending[i], next)]
           k == Len(f.log)
<1>0. /\ \A i \in DOMAIN f.log : f.log[i].n \in 1 .. f.seen /\ f.log[i].pid \in Pids
      /\ \A i \in DOMAIN f.pending : f.pending[i].n \in 1 .. f.seen /\ f.pending[i].pid \in Pids
      /\ f.pending \in Seq(Observations) /\ f.log \in Seq(Observations)
      /\ f.seen \in Nat /\ InOrder(f) /\ AllKept(f) /\ MarksHeld(f)
  BY FeedParts DEF GoodFeed
<1>1. \A i \in DOMAIN f.pending :
        /\ Placed(f.pending[i], next) \in Observations
        /\ Placed(f.pending[i], next).n = f.pending[i].n
        /\ Placed(f.pending[i], next).pid = f.pending[i].pid
  BY FeedParts, PlacedType
<1>2. /\ out \in Seq(Observations) /\ Len(out) = Len(f.pending)
      /\ DOMAIN out = DOMAIN f.pending
      /\ \A i \in DOMAIN f.pending : out[i].n = f.pending[i].n /\ out[i].pid = f.pending[i].pid
  BY <1>1, FeedParts
<1>3. g = [f EXCEPT !.log = @ \o out, !.pending = <<>>, !.held = [p \in Pids |-> 0]]
  BY DEF Release
<1> HIDE DEF out
<1>4. /\ f \in Feeds /\ f.log \o out \in Seq(Observations)
      /\ <<>> \in Seq(Observations) /\ [p \in Pids |-> 0] \in [Pids -> Nat]
  BY <1>2, FeedParts
<1> HIDE DEF g
<1>5. /\ g.pending = <<>> /\ g.seen = f.seen /\ g.held = [p \in Pids |-> 0]
      /\ g.log = f.log \o out
  BY <1>3, <1>4 DEF Feeds
<1>6. g \in Feeds
  BY <1>3, <1>4 DEF Feeds
<1>6a. \A i \in DOMAIN g.pending : FALSE
  BY <1>5
<1>7. /\ k \in Nat
      /\ \A i \in DOMAIN g.log :
           \/ i \in DOMAIN f.log /\ i <= k /\ g.log[i] = f.log[i]
           \/ i > k /\ i - k \in DOMAIN f.pending /\ g.log[i] = out[i - k]
      /\ \A i \in DOMAIN f.log : i \in DOMAIN g.log /\ g.log[i] = f.log[i]
      /\ \A i \in DOMAIN f.pending : k + i \in DOMAIN g.log /\ g.log[k + i] = out[i]
  <2>1. f.log \in Seq(Observations) /\ out \in Seq(Observations)
    BY <1>2, FeedParts
  <2>2. QED
    BY <1>2, <1>5, <2>1
<1>8. Numbered(g)
  <2>1. ASSUME NEW i \in DOMAIN g.log PROVE g.log[i].n \in 1 .. f.seen
    <3>1. CASE i \in DOMAIN f.log /\ g.log[i] = f.log[i]
      BY <1>0, <3>1
    <3>2. CASE i - k \in DOMAIN f.pending /\ g.log[i] = out[i - k]
      BY <1>0, <1>2, <3>2
    <3>3. QED
      BY <1>7, <3>1, <3>2
  <2>2. QED
    BY <1>5, <1>6a, <2>1 DEF Numbered
<1>9. InOrder(g)
  <2>1. SUFFICES ASSUME NEW i \in DOMAIN g.log, NEW j \in DOMAIN g.log,
                        i < j, g.log[i].pid = g.log[j].pid
                 PROVE  g.log[i].n < g.log[j].n
    BY <1>6a DEF InOrder
  <2>2. i \in Int /\ j \in Int
    BY <1>6 DEF Feeds
  <2>3. CASE j <= k
    <3>1. /\ i \in DOMAIN f.log /\ g.log[i] = f.log[i]
          /\ j \in DOMAIN f.log /\ g.log[j] = f.log[j]
      BY <1>7, <2>1, <2>2, <2>3
    <3>2. QED
      BY <1>0, <2>1, <3>1 DEF InOrder
  <2>4. CASE i <= k /\ j > k
    <3>1. /\ i \in DOMAIN f.log /\ g.log[i] = f.log[i]
          /\ j - k \in DOMAIN f.pending /\ g.log[j] = out[j - k]
      BY <1>7, <2>1, <2>2, <2>4
    <3>2. QED
      BY <1>0, <1>2, <2>1, <3>1 DEF InOrder
  <2>5. CASE i > k
    <3>1. i - k \in DOMAIN f.pending /\ j - k \in DOMAIN f.pending /\ i - k < j - k
      BY <1>7, <2>1, <2>2, <2>5
    <3>2. g.log[i] = out[i - k] /\ g.log[j] = out[j - k]
      BY <1>7, <2>1, <2>2, <2>5
    <3>3. QED
      BY <1>0, <1>2, <2>1, <3>1, <3>2 DEF InOrder
  <2>6. QED
    BY <1>7, <2>1, <2>2, <2>3, <2>4, <2>5
<1>10. AllKept(g)
  <2>1. SUFFICES ASSUME NEW n \in 1 .. f.seen
                 PROVE  \E i \in DOMAIN g.log : g.log[i].n = n
    BY <1>5 DEF AllKept
  <2>2. CASE \E i \in DOMAIN f.log : f.log[i].n = n
    BY <1>7, <2>2
  <2>3. CASE \E i \in DOMAIN f.pending : f.pending[i].n = n
    BY <1>2, <1>7, <2>3
  <2>4. QED
    BY <1>0, <2>2, <2>3 DEF AllKept
<1>11. MarksHeld(g)
  BY <1>5 DEF MarksHeld
<1>12. QED
  BY <1>5, <1>6, <1>8, <1>9, <1>10, <1>11 DEF GoodFeed, g

\* hold keeps the feed good and below its bound.
LEMMA HoldGood ==
  ASSUME NEW f, GoodFeed(f), Len(f.pending) < MaxPendingPES,
         NEW item \in Observations, item.n = f.seen + 1
  PROVE  GoodFeed(Hold(f, item)) /\ Len(Hold(f, item).pending) < MaxPendingPES
<1>1. /\ GoodFeed(Push(f, item))
      /\ Len(Push(f, item).pending) = Len(f.pending) + 1
      /\ Len(f.pending) \in Nat
  BY PushGood DEF GoodFeed, Feeds
<1>2. /\ GoodFeed(Release(Push(f, item), NoAnchor))
      /\ Len(Release(Push(f, item), NoAnchor).pending) = 0
  BY <1>1, ReleaseGood, NoneType
<1>3. QED
  BY <1>1, <1>2, FeedAssumption DEF Hold


\* A feed that holds fewer observations than its bound and is good.
BoundedFeed(f) == GoodFeed(f) /\ Len(f.pending) < MaxPendingPES

\* An observation that need not wait follows what its PID holds.
LEMMA PassGood ==
  ASSUME NEW f, BoundedFeed(f), NEW item \in Observations, item.n = f.seen + 1
  PROVE  BoundedFeed(IF f.held[item.pid] > 0 THEN Hold(f, item) ELSE Deliver(f, item))
<1>1. f.held[item.pid] \in Nat
  BY DEF BoundedFeed, GoodFeed, Feeds, Observations
<1>2. CASE f.held[item.pid] > 0
  BY <1>2, HoldGood DEF BoundedFeed
<1>3. CASE f.held[item.pid] = 0
  BY <1>3, DeliverGood DEF BoundedFeed
<1>4. QED
  BY <1>1, <1>2, <1>3

\* observe keeps the feed good and below its bound.
LEMMA ObservePESGood ==
  ASSUME NEW f, BoundedFeed(f), NEW pid \in Pids, NEW problem \in Problems,
         NEW offset \in Int, NEW prev \in Anchors, NEW next \in Anchors
  PROVE  BoundedFeed(ObservePES(f, pid, offset, problem, prev, next))
<1> DEFINE waiting == Observation(f, pid, problem, offset, TRUE, prev, Unplaced)
           at == IF problem = "ok" THEN ArrivalAt(prev, next, offset) ELSE Unplaced
           passing == Observation(f, pid, problem, offset, FALSE, NoAnchor, at)
<1>1. f \in Feeds /\ problem \in Problems \cup BreakCauses
  BY DEF BoundedFeed, GoodFeed
<1>2. at \in Arrivals
  BY NoneType, ArrivalType
<1>3. waiting \in Observations /\ waiting.n = f.seen + 1
  BY <1>1, NoneType DEF Feeds, Observation, Observations
<1> HIDE DEF at
<1>4. passing \in Observations /\ passing.n = f.seen + 1 /\ passing.pid = pid
  BY <1>1, <1>2, NoneType DEF Feeds, Observation, Observations
<1> HIDE DEF waiting, passing
<1>5. BoundedFeed(Hold(f, waiting))
  BY <1>3, HoldGood DEF BoundedFeed
<1>6. BoundedFeed(IF f.held[pid] > 0 THEN Hold(f, passing) ELSE Deliver(f, passing))
  BY <1>4, PassGood
<1>7. QED
  BY <1>5, <1>6 DEF ObservePES, waiting, passing, at

\* observeBreak keeps the feed good and below its bound.
LEMMA ObserveBreakGood ==
  ASSUME NEW f, BoundedFeed(f), NEW pid \in Pids, NEW cause \in BreakCauses, NEW offset \in Int
  PROVE  BoundedFeed(ObserveBreak(f, pid, offset, cause))
<1> DEFINE item == Observation(f, pid, cause, offset, FALSE, NoAnchor, Unplaced)
<1>1. f \in Feeds /\ cause \in Problems \cup BreakCauses
  BY DEF BoundedFeed, GoodFeed
<1>2. item \in Observations /\ item.n = f.seen + 1 /\ item.pid = pid
  BY <1>1, NoneType DEF Feeds, Observation, Observations
<1> HIDE DEF item
<1>3. BoundedFeed(IF f.held[pid] > 0 THEN Hold(f, item) ELSE Deliver(f, item))
  BY <1>2, PassGood
<1>4. QED
  BY <1>3 DEF ObserveBreak, item

-------------------------------------------------------------------------------
(* What an observation and a release do to what is held and delivered: the    *)
(* facts that the proofs of the modules around the feed use.                  *)

\* What the check is told of an observation, whether or not it is placed.
Report(item) == [n |-> item.n, pid |-> item.pid, what |-> item.what, offset |-> item.offset]

Reports(f) == {Report(f.log[i]) : i \in DOMAIN f.log}
                \cup {Report(f.pending[i]) : i \in DOMAIN f.pending}

\* What a feed holds is in one set, and what it has delivered after the m-th in another.
Fits(f, m, held, logged) ==
  /\ \A i \in DOMAIN f.log : i > m => f.log[i] \in logged
  /\ \A i \in DOMAIN f.pending : f.pending[i] \in held

\* What has been delivered stays.
Longer(f, g) == \A i \in DOMAIN f.log : i \in DOMAIN g.log /\ g.log[i] = f.log[i]

\* A feed that has taken one observation.
Takes(f, g, item) ==
  /\ BoundedFeed(g) /\ g.seen = f.seen + 1 /\ Len(g.pending) <= g.seen
  /\ Reports(g) = Reports(f) \cup {Report(item)}
  /\ Longer(f, g)

\* Placing an observation changes only its time.
LEMMA PlacedReport ==
  ASSUME NEW item \in Observations, NEW next
  PROVE  Report(Placed(item, next)) = Report(item)
BY DEF Placed, Report, Observations

\* What it is to deliver an observation.
LEMMA DeliverStep ==
  ASSUME NEW f, GoodFeed(f), NEW item \in Observations, NEW g, g = Deliver(f, item)
  PROVE  /\ g.pending = f.pending /\ g.seen = item.n
         /\ Reports(g) = Reports(f) \cup {Report(item)}
         /\ Longer(f, g)
         /\ DOMAIN g.log = DOMAIN f.log \cup {Len(f.log) + 1} /\ g.log[Len(f.log) + 1] = item
<1>1. f \in Feeds /\ f.log \in Seq(Observations)
  BY FeedParts
<1>2. g.pending = f.pending /\ g.seen = item.n /\ g.log = Append(f.log, item)
  BY <1>1 DEF Deliver, Feeds
<1>3. /\ DOMAIN g.log = DOMAIN f.log \cup {Len(f.log) + 1}
      /\ \A i \in DOMAIN f.log : g.log[i] = f.log[i]
      /\ g.log[Len(f.log) + 1] = item
  BY <1>1, <1>2
<1>4. {Report(g.log[i]) : i \in DOMAIN g.log}
        = {Report(f.log[i]) : i \in DOMAIN f.log} \cup {Report(item)}
  BY <1>3
<1>5. Reports(g) = Reports(f) \cup {Report(item)}
  BY <1>2, <1>4 DEF Reports
<1>6. QED BY <1>2, <1>3, <1>5 DEF Longer

\* What it is to hold an observation.
LEMMA PushStep ==
  ASSUME NEW f, GoodFeed(f), NEW item \in Observations, NEW g, g = Push(f, item)
  PROVE  /\ g.log = f.log /\ g.seen = item.n
         /\ Reports(g) = Reports(f) \cup {Report(item)}
         /\ DOMAIN g.pending = DOMAIN f.pending \cup {Len(f.pending) + 1}
         /\ \A i \in DOMAIN f.pending : g.pending[i] = f.pending[i]
         /\ g.pending[Len(f.pending) + 1] = item
<1>1. f \in Feeds /\ f.pending \in Seq(Observations) /\ item.pid \in Pids
  BY FeedParts DEF Observations
<1>2. g.log = f.log /\ g.seen = item.n /\ g.pending = Append(f.pending, item)
  BY <1>1 DEF Push, Feeds
<1>3. /\ DOMAIN g.pending = DOMAIN f.pending \cup {Len(f.pending) + 1}
      /\ \A i \in DOMAIN f.pending : g.pending[i] = f.pending[i]
      /\ g.pending[Len(f.pending) + 1] = item
  BY <1>1, <1>2
<1>4. {Report(g.pending[i]) : i \in DOMAIN g.pending}
        = {Report(f.pending[i]) : i \in DOMAIN f.pending} \cup {Report(item)}
  BY <1>3
<1>5. Reports(g) = Reports(f) \cup {Report(item)}
  BY <1>2, <1>4 DEF Reports
<1>6. QED BY <1>2, <1>3, <1>5

\* What it is to release all that is held.
LEMMA ReleaseStep ==
  ASSUME NEW f, GoodFeed(f), NEW next \in Anchors, NEW g, g = Release(f, next)
  PROVE  /\ g.pending = <<>> /\ g.seen = f.seen
         /\ Reports(g) = Reports(f)
         /\ Longer(f, g)
         /\ \A i \in DOMAIN g.log :
              \/ i \in DOMAIN f.log /\ g.log[i] = f.log[i]
              \/ i > Len(f.log) /\ i - Len(f.log) \in DOMAIN f.pending
                 /\ g.log[i] = Placed(f.pending[i - Len(f.log)], next)
<1> DEFINE out == [i \in DOMAIN f.pending |-> Placed(f.pending[i], next)]
           k == Len(f.log)
<1>1. /\ f \in Feeds /\ f.log \in Seq(Observations) /\ f.pending \in Seq(Observations)
  BY FeedParts
<1>2. \A i \in DOMAIN f.pending :
        f.pending[i] \in Observations /\ Placed(f.pending[i], next) \in Observations
  BY <1>1, PlacedType
<1>3. /\ out \in Seq(Observations) /\ Len(out) = Len(f.pending)
      /\ DOMAIN out = DOMAIN f.pending
  BY <1>1, <1>2
<1>4. g.pending = <<>> /\ g.seen = f.seen /\ g.log = f.log \o out
  BY <1>1 DEF Release, Feeds
<1>5. \A i \in DOMAIN f.pending : Report(out[i]) = Report(f.pending[i])
  BY <1>2, PlacedReport
<1>6. \A i \in DOMAIN f.pending : out[i] = Placed(f.pending[i], next)
  OBVIOUS
<1> HIDE DEF out
<1>7. /\ \A i \in DOMAIN g.log :
           \/ i \in DOMAIN f.log /\ g.log[i] = f.log[i]
           \/ i > k /\ i - k \in DOMAIN f.pending /\ g.log[i] = out[i - k]
      /\ \A i \in DOMAIN f.log : i \in DOMAIN g.log /\ g.log[i] = f.log[i]
      /\ \A i \in DOMAIN f.pending : k + i \in DOMAIN g.log /\ g.log[k + i] = out[i]
  <2>1. f.log \in Seq(Observations) /\ out \in Seq(Observations) /\ g.log = f.log \o out
    BY <1>1, <1>3, <1>4
  <2>2. /\ \A i \in DOMAIN g.log :
             \/ i \in DOMAIN f.log /\ g.log[i] = f.log[i]
             \/ i > Len(f.log) /\ i - Len(f.log) \in DOMAIN out /\ g.log[i] = out[i - Len(f.log)]
        /\ \A i \in DOMAIN f.log : i \in DOMAIN g.log /\ g.log[i] = f.log[i]
        /\ \A i \in DOMAIN out : Len(f.log) + i \in DOMAIN g.log /\ g.log[Len(f.log) + i] = out[i]
    BY <2>1
  <2>3. QED BY <1>3, <2>2
<1>8. ASSUME NEW r \in Reports(g) PROVE r \in Reports(f)
  <2>1. PICK i \in DOMAIN g.log : r = Report(g.log[i])
    BY <1>4 DEF Reports
  <2>2. CASE i \in DOMAIN f.log /\ g.log[i] = f.log[i]
    BY <2>1, <2>2 DEF Reports
  <2>3. CASE i - k \in DOMAIN f.pending /\ g.log[i] = out[i - k]
    BY <1>5, <2>1, <2>3 DEF Reports
  <2>4. QED BY <1>7, <2>2, <2>3
<1>9. ASSUME NEW r \in Reports(f) PROVE r \in Reports(g)
  <2>1. CASE \E i \in DOMAIN f.log : r = Report(f.log[i])
    BY <1>7, <2>1 DEF Reports
  <2>2. ASSUME NEW i \in DOMAIN f.pending, r = Report(f.pending[i]) PROVE r \in Reports(g)
    <3>1. r = Report(g.log[k + i]) /\ k + i \in DOMAIN g.log
      BY <1>5, <1>7, <2>2
    <3>2. QED BY <3>1 DEF Reports
  <2>3. QED BY <2>1, <2>2 DEF Reports
<1>10. QED BY <1>4, <1>6, <1>7, <1>8, <1>9 DEF Longer

\* Releasing keeps what fits, when what is held fits the log once it is placed.
LEMMA ReleaseFits ==
  ASSUME NEW f, GoodFeed(f), NEW next \in Anchors, NEW m, NEW held, NEW logged,
         NEW after, NEW all, Fits(f, m, held, logged), logged \subseteq all,
         \A x \in held \cap Observations : Placed(x, next) \in all
  PROVE  Fits(Release(f, next), m, after, all)
<1> DEFINE g == Release(f, next)
<1>1. /\ g.pending = <<>>
      /\ \A i \in DOMAIN g.log :
           \/ i \in DOMAIN f.log /\ g.log[i] = f.log[i]
           \/ i > Len(f.log) /\ i - Len(f.log) \in DOMAIN f.pending
              /\ g.log[i] = Placed(f.pending[i - Len(f.log)], next)
  BY ReleaseStep
<1>2. \A i \in DOMAIN f.pending : f.pending[i] \in held \cap Observations
  BY FeedParts DEF Fits
<1> HIDE DEF g
<1>3. \A i \in DOMAIN g.log : i > m => g.log[i] \in all
  BY <1>1, <1>2 DEF Fits
<1>4. QED BY <1>1, <1>3 DEF Fits, g

\* A full feed is released without a PCR.
LEMMA HoldTakes ==
  ASSUME NEW f, BoundedFeed(f), Len(f.pending) <= f.seen,
         NEW item \in Observations, item.n = f.seen + 1
  PROVE  Takes(f, Hold(f, item), item)
<1> DEFINE g == Push(f, item)
           h == Release(g, NoAnchor)
<1>1. GoodFeed(f) /\ f.seen \in Nat /\ Len(f.pending) \in Nat
  BY FeedParts DEF BoundedFeed
<1>2. /\ GoodFeed(g) /\ Len(g.pending) = Len(f.pending) + 1
      /\ BoundedFeed(Hold(f, item))
  BY <1>1, PushGood, HoldGood DEF BoundedFeed
<1>3. /\ g.log = f.log /\ g.seen = item.n /\ Reports(g) = Reports(f) \cup {Report(item)}
  BY <1>1, PushStep
<1>4. Longer(f, g)
  BY <1>3 DEF Longer
<1>5. /\ h.pending = <<>> /\ h.seen = g.seen /\ Reports(h) = Reports(g) /\ Longer(g, h)
  BY <1>2, ReleaseStep, NoneType
<1>6. Longer(f, h)
  BY <1>3, <1>5 DEF Longer
<1>7. Hold(f, item) = IF Len(g.pending) >= MaxPendingPES THEN h ELSE g
  BY DEF Hold
<1> HIDE DEF g, h
<1>8. QED BY <1>1, <1>2, <1>3, <1>4, <1>5, <1>6, <1>7 DEF Takes

\* Holding keeps what fits, when a full feed may be released without a PCR.
LEMMA HoldFits ==
  ASSUME NEW f, BoundedFeed(f), Len(f.pending) <= f.seen,
         NEW item \in Observations, item.n = f.seen + 1,
         NEW m, NEW held, NEW logged, Fits(f, m, held, logged), item \in held,
         f.seen + 1 >= MaxPendingPES =>
           \A x \in held \cap Observations : Placed(x, NoAnchor) \in logged
  PROVE  Fits(Hold(f, item), m, held, logged)
<1> DEFINE g == Push(f, item)
<1>1. GoodFeed(f) /\ f.seen \in Nat /\ Len(f.pending) \in Nat
  BY FeedParts DEF BoundedFeed
<1>2. /\ GoodFeed(g) /\ Len(g.pending) = Len(f.pending) + 1
  BY <1>1, PushGood DEF BoundedFeed
<1>3. /\ g.log = f.log
      /\ DOMAIN g.pending = DOMAIN f.pending \cup {Len(f.pending) + 1}
      /\ \A i \in DOMAIN f.pending : g.pending[i] = f.pending[i]
      /\ g.pending[Len(f.pending) + 1] = item
  BY <1>1, PushStep
<1>4. Hold(f, item) = IF Len(g.pending) >= MaxPendingPES THEN Release(g, NoAnchor) ELSE g
  BY DEF Hold
<1> HIDE DEF g
<1>5. Fits(g, m, held, logged)
  BY <1>3 DEF Fits
<1>6. CASE Len(g.pending) >= MaxPendingPES
  <2>1. \A x \in held \cap Observations : Placed(x, NoAnchor) \in logged
    BY <1>1, <1>2, <1>6, FeedAssumption
  <2>2. QED BY <1>2, <1>4, <1>5, <1>6, <2>1, ReleaseFits, NoneType
<1>7. QED BY <1>4, <1>5, <1>6

\* The observation that need not wait.
Passed(f, item) == IF f.held[item.pid] > 0 THEN Hold(f, item) ELSE Deliver(f, item)

\* An observation that need not wait is taken.
LEMMA PassTakes ==
  ASSUME NEW f, BoundedFeed(f), Len(f.pending) <= f.seen,
         NEW item \in Observations, item.n = f.seen + 1
  PROVE  Takes(f, Passed(f, item), item)
<1>1. GoodFeed(f) /\ f.seen \in Nat /\ Len(f.pending) \in Nat
  BY FeedParts DEF BoundedFeed
<1>2. BoundedFeed(Passed(f, item))
  BY PassGood DEF Passed
<1>3. CASE f.held[item.pid] > 0
  BY <1>3, HoldTakes DEF Passed
<1>4. CASE ~(f.held[item.pid] > 0)
  <2>1. /\ Deliver(f, item).pending = f.pending /\ Deliver(f, item).seen = item.n
        /\ Reports(Deliver(f, item)) = Reports(f) \cup {Report(item)}
        /\ Longer(f, Deliver(f, item))
    BY <1>1, DeliverStep
  <2>2. QED BY <1>1, <1>2, <1>4, <2>1 DEF Passed, Takes
<1>5. QED BY <1>3, <1>4

\* It keeps what fits.
LEMMA PassFits ==
  ASSUME NEW f, BoundedFeed(f), Len(f.pending) <= f.seen,
         NEW item \in Observations, item.n = f.seen + 1,
         NEW m, NEW held, NEW logged, Fits(f, m, held, logged), item \in held, item \in logged,
         f.seen + 1 >= MaxPendingPES =>
           \A x \in held \cap Observations : Placed(x, NoAnchor) \in logged
  PROVE  Fits(Passed(f, item), m, held, logged)
<1>1. GoodFeed(f) /\ f.seen \in Nat /\ Len(f.pending) \in Nat
  BY FeedParts DEF BoundedFeed
<1>3. CASE f.held[item.pid] > 0
  BY <1>3, HoldFits DEF Passed
<1>4. CASE ~(f.held[item.pid] > 0)
  <2> DEFINE g == Deliver(f, item)
  <2>1. /\ g.pending = f.pending /\ Longer(f, g)
        /\ DOMAIN g.log = DOMAIN f.log \cup {Len(f.log) + 1} /\ g.log[Len(f.log) + 1] = item
    BY <1>1, DeliverStep
  <2>2. Passed(f, item) = g
    BY <1>4 DEF Passed
  <2> HIDE DEF g
  <2>3. QED BY <2>1, <2>2 DEF Fits, Longer
<1>5. QED BY <1>3, <1>4

-------------------------------------------------------------------------------
(* The feed alone.                                                            *)

FeedInv == BoundedFeed(feed)

\* FeedInv holds at the start.
LEMMA FeedInitInv == FeedInit => FeedInv
<1> SUFFICES ASSUME FeedInit PROVE FeedInv
  OBVIOUS
<1>1. feed = [pending |-> <<>>, held |-> [p \in Pids |-> 0], log |-> <<>>, seen |-> 0]
  BY DEF FeedInit, NewPESFeed
<1>2. QED
  BY <1>1, FeedAssumption
     DEF FeedInv, BoundedFeed, GoodFeed, Feeds, Numbered, InOrder, AllKept, MarksHeld

\* Every call of the feed keeps FeedInv.
LEMMA FeedNextInv == FeedInv /\ [FeedNext]_feed => FeedInv'
<1> SUFFICES ASSUME FeedInv, [FeedNext]_feed PROVE FeedInv'
  OBVIOUS
<1>0. GoodFeed(feed) /\ feed.seen \in Nat /\ feed.seen + 1 \in Int
  BY DEF FeedInv, BoundedFeed, GoodFeed, Feeds
<1>1. \A n \in Nat : Anchor(n) \in Anchors
  BY DEF Anchor, NoAnchor, Anchors
<1>2. ASSUME NEW pid \in Pids, NEW problem \in Problems,
             NEW prev \in {NoAnchor, Anchor(feed.seen)},
             NEW next \in {NoAnchor, Anchor(feed.seen + 2)},
             feed' = ObservePES(feed, pid, feed.seen + 1, problem, prev, next)
      PROVE  FeedInv'
  <2>1. prev \in Anchors /\ next \in Anchors
    BY <1>0, <1>1, NoneType
  <2>2. BoundedFeed(ObservePES(feed, pid, feed.seen + 1, problem, prev, next))
    BY <1>0, <2>1, ObservePESGood DEF FeedInv
  <2>3. QED
    BY <1>2, <2>2 DEF FeedInv
<1>3. ASSUME NEW pid \in Pids, NEW cause \in BreakCauses,
             feed' = ObserveBreak(feed, pid, feed.seen + 1, cause)
      PROVE  FeedInv'
  <2>1. BoundedFeed(ObserveBreak(feed, pid, feed.seen + 1, cause))
    BY <1>0, ObserveBreakGood DEF FeedInv
  <2>2. QED
    BY <1>3, <2>1 DEF FeedInv
<1>4. ASSUME NEW next \in {NoAnchor, Anchor(feed.seen + 1)}, feed' = Release(feed, next)
      PROVE  FeedInv'
  <2>1. next \in Anchors
    BY <1>0, <1>1, NoneType
  <2>2. GoodFeed(feed') /\ feed'.pending = <<>>
    BY <1>0, <1>4, <2>1, ReleaseGood
  <2>3. QED
    BY <2>2, FeedAssumption DEF FeedInv, BoundedFeed
<1>5. CASE UNCHANGED feed
  BY <1>5 DEF FeedInv
<1>6. QED
  BY <1>2, <1>3, <1>4, <1>5 DEF FeedNext, FeedObserves, FeedBreaks, FeedReleases

\* FeedInv holds in every state.
LEMMA AlwaysFeedInv == FeedSpec => []FeedInv
BY FeedInitInv, FeedNextInv, PTL DEF FeedSpec

-------------------------------------------------------------------------------
\* Every part of the feed keeps its type.
THEOREM FeedTypeCorrect == FeedSpec => []FeedTypeOK
<1>1. FeedInv => FeedTypeOK
  BY DEF FeedInv, BoundedFeed, GoodFeed, FeedTypeOK
<1>2. QED
  BY <1>1, AlwaysFeedInv, PTL

\* The feed never holds maxPendingPES observations.
THEOREM FeedBounded == FeedSpec => []PendingBounded
<1>1. FeedInv => PendingBounded
  BY DEF FeedInv, BoundedFeed, PendingBounded
<1>2. QED
  BY <1>1, AlwaysFeedInv, PTL

\* The check sees each PID's observations in stream order.
THEOREM FeedInOrder == FeedSpec => []InStreamOrder
<1>1. FeedInv => InStreamOrder
  BY DEF FeedInv, BoundedFeed, GoodFeed, InStreamOrder
<1>2. QED
  BY <1>1, AlwaysFeedInv, PTL

\* Every observation reaches the check or is held.
THEOREM FeedLosesNothing == FeedSpec => []NothingLost
<1>1. FeedInv => NothingLost
  BY DEF FeedInv, BoundedFeed, GoodFeed, NothingLost
<1>2. QED
  BY <1>1, AlwaysFeedInv, PTL

\* The marks of the held PIDs are exact.
THEOREM FeedMarksHeld == FeedSpec => []HeldIsPending
<1>1. FeedInv => HeldIsPending
  BY DEF FeedInv, BoundedFeed, GoodFeed, HeldIsPending
<1>2. QED
  BY <1>1, AlwaysFeedInv, PTL

-------------------------------------------------------------------------------
(* The parts of the invariant.                                               *)

\* A PES packet in progress.
PesPackets == [pos : Int, got : Nat, header : Headers, prev : Anchors, next : Anchors]

\* What the places of the PES packets depend on.
View == [pcrs |-> pcrs, clock |-> clock, layouts |-> layouts, pos |-> pos,
         live |-> phase = "scanning"]

\* The feed is in order, and the PES packets in progress have their types.
ScanTypes(f, packets) ==
  /\ BoundedFeed(f) /\ Len(f.pending) <= f.seen
  /\ IsFiniteSet(DOMAIN packets) /\ DOMAIN packets \subseteq Pids
  /\ \A p \in DOMAIN packets : packets[p] \in PesPackets

\* The PES packets started by the offset end, and what was observed by the offset at:
\* every PES packet in begun is reported or in progress, every report is of one that
\* was started, the reports of a PID follow their offsets, and nothing is reported of
\* a PID beyond the PES packet in progress there.
Sent(f, packets, begun, end, at) ==
  /\ \A r \in Reports(f) :
       /\ 1 <= r.offset /\ r.offset <= at
       /\ IsPes(r) => r.offset <= end /\ <<r.pid, r.offset>> \in begun
       /\ r.pid \in DOMAIN packets =>
            r.offset <= packets[r.pid].pos /\ (IsPes(r) => r.offset < packets[r.pid].pos)
  /\ \A r, s \in Reports(f) :
       r.pid = s.pid /\ r.n < s.n /\ IsPes(r) /\ IsPes(s) => r.offset < s.offset
  /\ \A p \in DOMAIN packets :
       /\ 1 <= packets[p].pos /\ packets[p].pos <= end
       /\ <<p, packets[p].pos>> \in begun
  /\ \A b \in begun :
       \/ \E r \in Reports(f) : IsPes(r) /\ r.pid = b[1] /\ r.offset = b[2]
       \/ b[1] \in DOMAIN packets /\ packets[b[1]].pos = b[2]

\* An offset between two consecutive PCRs.
Between(cs, i, offset) ==
  i \in DOMAIN cs /\ i + 1 \in DOMAIN cs /\ cs[i].pos <= offset /\ offset < cs[i + 1].pos

\* A layout change between an offset and the PCR after it.
Cut(ls, offset, next) ==
  \E l \in DOMAIN ls : l > 1 /\ ls[l].at >= offset /\ ls[l].at < next

\* An offset after the last PCR so far.
AfterLast(cs, offset) == Len(cs) > 0 /\ cs[Len(cs)].pos <= offset

\* A PES packet at this offset rightly has no time: so much was held that the feed
\* was emptied, or the PCRs around it are of two segments or were parted by a layout
\* change; while the scan goes on, the next PCR cannot be its second one.
Excused(v, seen, offset) ==
  \/ seen >= MaxPendingPES
  \/ /\ \A i \in DOMAIN v.pcrs :
          Between(v.pcrs, i, offset) =>
            v.pcrs[i].segment # v.pcrs[i + 1].segment \/ Cut(v.layouts, offset, v.pcrs[i + 1].pos)
     /\ v.live /\ AfterLast(v.pcrs, offset) =>
          ~v.clock.valid \/ \E l \in DOMAIN v.layouts : l > 1 /\ v.layouts[l].at >= offset

\* A time between the PCRs around the offset.
PlacedIn(cs, at, offset) ==
  \E i \in DOMAIN cs : /\ Between(cs, i, offset)
                       /\ cs[i].segment = cs[i + 1].segment
                       /\ at = ArrivalAt(cs[i], cs[i + 1], offset)

\* What the check may have received: placed rightly, or rightly not placed.
LogItems(v, seen) ==
  {x \in Observations :
     /\ x.what = "ok" => x.offset <= v.pos
     /\ x.at.valid => x.what = "ok" /\ PlacedIn(v.pcrs, x.at, x.offset)
     /\ x.what = "ok" /\ ~x.at.valid => Excused(v, seen, x.offset)}

\* What the feed may hold: what waits for the PCR after the last one, or follows it.
HeldItems(v, seen) ==
  {x \in Observations :
     IF x.place THEN /\ x.what = "ok" /\ ~x.at.valid /\ x.offset <= v.pos
                     /\ v.clock.valid /\ x.prev = v.clock /\ v.clock.pos <= x.offset
                ELSE x \in LogItems(v, seen)}

\* The brackets of a PES packet in progress: both PCRs are known and consecutive, or the
\* last one is the one before it, or it has none and is rightly not placed.
OpenPackets(v, seen) ==
  {k \in PesPackets :
     /\ k.pos <= v.pos
     /\ k.prev.valid /\ k.next.valid =>
          \E i \in DOMAIN v.pcrs : /\ Between(v.pcrs, i, k.pos)
                                   /\ k.prev = v.pcrs[i] /\ k.next = v.pcrs[i + 1]
     /\ k.prev.valid /\ ~k.next.valid =>
          v.clock.valid /\ k.prev = v.clock /\ v.clock.pos <= k.pos
     /\ ~k.prev.valid => Excused(v, seen, k.pos)}

\* Every part of the scan is placed as the PCRs so far allow.
PlacedSoFar(f, packets, v) ==
  /\ Fits(f, 0, HeldItems(v, f.seen), LogItems(v, f.seen))
  /\ \A p \in DOMAIN packets : packets[p] \in OpenPackets(v, f.seen)

\* The PCRs so far: offsets grow, and so does the time within a segment.
Timeline(v) ==
  /\ v.pcrs \in Seq(Anchors) /\ v.clock \in Anchors
  /\ \A i \in DOMAIN v.pcrs : v.pcrs[i].valid /\ 1 <= v.pcrs[i].pos /\ v.pcrs[i].pos <= v.pos
  /\ \A i, j \in DOMAIN v.pcrs :
       i < j => /\ v.pcrs[i].pos < v.pcrs[j].pos
                /\ v.pcrs[i].segment <= v.pcrs[j].segment
                /\ v.pcrs[i].segment = v.pcrs[j].segment =>
                     v.pcrs[i].unwrapped <= v.pcrs[j].unwrapped
  /\ v.clock.valid => Len(v.pcrs) > 0 /\ v.clock = v.pcrs[Len(v.pcrs)]
  /\ Len(v.pcrs) > 0 => v.pcrs[Len(v.pcrs)].segment = v.clock.segment

\* The types in force at an offset, and those known to the check at its k-th observation.
InForce(ls, offset) == ls[Max({i \in DOMAIN ls : ls[i].at < offset})].types

Known(ls, k) == ls[Max({i \in DOMAIN ls : ls[i].logged < k})].types

\* Observations whose PID has had the same type since they were sent.
OfThisLayout(ls) == {x \in Observations : ls[Len(ls)].types[x.pid] = InForce(ls, x.offset)[x.pid]}

\* All that is held, open or delivered since the last layout is of that layout's types,
\* and what was delivered before was judged as its type.
Judged(f, packets, ls) ==
  /\ Fits(f, ls[Len(ls)].logged, OfThisLayout(ls), OfThisLayout(ls))
  /\ \A p \in DOMAIN packets : ls[Len(ls)].types[p] = InForce(ls, packets[p].pos)[p]
  /\ \A k \in DOMAIN f.log :
       k <= ls[Len(ls)].logged =>
         Known(ls, k)[f.log[k].pid] = InForce(ls, f.log[k].offset)[f.log[k].pid]

\* The layouts by their types: the first is there from the start.
LayoutRecords == [at : Nat, logged : Nat, types : Layouts]

LayoutTypes(ls, now, f) ==
  /\ ls \in Seq(LayoutRecords) /\ Len(ls) > 0
  /\ ls[1].at = 0 /\ ls[1].logged = 0
  /\ \A l \in DOMAIN ls : ls[l].at <= now /\ ls[l].logged <= Len(f.log)

\* What completePes hands to the feed, and how it is taken.
CompletedAs(f, g, p, packet, item) ==
  /\ item \in Observations /\ IsPes(item)
  /\ item.n = f.seen + 1 /\ item.pid = p /\ item.offset = packet.pos
  /\ item.what # "ok" => ~item.at.valid /\ ~item.place
  /\ IF item.place
       THEN /\ packet.prev.valid /\ ~packet.next.valid
            /\ item.prev = packet.prev /\ item.at = Unplaced
            /\ g = Hold(f, item)
       ELSE /\ g = Passed(f, item)
            /\ item.what = "ok" =>
                 /\ packet.prev.valid => packet.next.valid
                 /\ item.at = ArrivalAt(packet.prev, packet.next, packet.pos)

\* completePes hands the feed one observation of the PES packet that ends.
LEMMA CompleteItem ==
  ASSUME NEW f, BoundedFeed(f), NEW p \in Pids, NEW packet \in PesPackets, NEW next \in BOOLEAN
  PROVE  \E item : CompletedAs(f, CompletePes(f, p, packet, next), p, packet, item)
<1> DEFINE problem == IF packet.got < packet.header.need THEN "truncated" ELSE packet.header.problem
           g == CompletePes(f, p, packet, next)
           at == IF problem = "ok" THEN ArrivalAt(packet.prev, packet.next, packet.pos) ELSE Unplaced
           broken == Observation(f, p, "incomplete_header", packet.pos, FALSE, NoAnchor, Unplaced)
           waits == Observation(f, p, problem, packet.pos, TRUE, packet.prev, Unplaced)
           passes == Observation(f, p, problem, packet.pos, FALSE, NoAnchor, at)
<1>1. f.seen \in Nat
  BY FeedParts DEF BoundedFeed
<1>2. problem \in Problems
  BY HeadersAssumption DEF PesPackets, HeaderKinds, Problems
<1>3. packet.pos \in Int /\ packet.prev \in Anchors /\ packet.next \in Anchors
  BY DEF PesPackets
<1>4. at \in Arrivals /\ Unplaced \in Arrivals /\ NoAnchor \in Anchors /\ ~Unplaced.valid
  BY <1>3, ArrivalType, NoneType DEF Unplaced
<1>5. g = IF problem = "truncated" /\ ~next
            THEN ObserveBreak(f, p, packet.pos, "incomplete_header")
            ELSE ObservePES(f, p, packet.pos, problem, packet.prev, packet.next)
  BY DEF CompletePes
<1>6. problem # "ok" => at = Unplaced
  OBVIOUS
<1>6a. problem = "ok" => at = ArrivalAt(packet.prev, packet.next, packet.pos)
  OBVIOUS
<1> HIDE DEF problem, g, at
<1>7. /\ broken \in Observations /\ broken.n = f.seen + 1 /\ broken.pid = p
      /\ broken.offset = packet.pos /\ broken.what = "incomplete_header" /\ ~broken.place
      /\ broken.at = Unplaced
  BY <1>1, <1>3, <1>4 DEF Observation, Observations, BreakCauses
<1>8. /\ waits \in Observations /\ waits.n = f.seen + 1 /\ waits.pid = p
      /\ waits.offset = packet.pos /\ waits.what = problem /\ waits.place
      /\ waits.at = Unplaced /\ waits.prev = packet.prev
  BY <1>1, <1>2, <1>3, <1>4 DEF Observation, Observations
<1>9. /\ passes \in Observations /\ passes.n = f.seen + 1 /\ passes.pid = p
      /\ passes.offset = packet.pos /\ passes.what = problem /\ ~passes.place
      /\ passes.at = at
  BY <1>1, <1>2, <1>3, <1>4 DEF Observation, Observations
<1>10. ObserveBreak(f, p, packet.pos, "incomplete_header") = Passed(f, broken)
  BY <1>7 DEF ObserveBreak, Passed
<1>11. ObservePES(f, p, packet.pos, problem, packet.prev, packet.next) =
         IF problem = "ok" /\ packet.prev.valid /\ ~packet.next.valid
           THEN Hold(f, waits) ELSE Passed(f, passes)
  BY <1>9 DEF ObservePES, Passed, at
<1> HIDE DEF broken, waits, passes
<1>12. CASE problem = "truncated" /\ ~next
  <2>1. CompletedAs(f, g, p, packet, broken)
    BY <1>4, <1>5, <1>7, <1>10, <1>12 DEF CompletedAs, IsPes
  <2>2. QED BY <2>1 DEF g
<1>13. CASE ~(problem = "truncated" /\ ~next) /\ problem = "ok" /\ packet.prev.valid /\ ~packet.next.valid
  <2>1. CompletedAs(f, g, p, packet, waits)
    BY <1>2, <1>5, <1>8, <1>11, <1>13 DEF CompletedAs, IsPes
  <2>2. QED BY <2>1 DEF g
<1>14. CASE ~(problem = "truncated" /\ ~next) /\ ~(problem = "ok" /\ packet.prev.valid /\ ~packet.next.valid)
  <2>1. CompletedAs(f, g, p, packet, passes)
    BY <1>2, <1>4, <1>5, <1>6, <1>6a, <1>9, <1>11, <1>14 DEF CompletedAs, IsPes
  <2>2. QED BY <2>1 DEF g
<1>15. QED BY <1>12, <1>13, <1>14

\* It is taken.
LEMMA CompletedTakes ==
  ASSUME NEW f, BoundedFeed(f), Len(f.pending) <= f.seen, NEW g, NEW p, NEW packet, NEW item,
         CompletedAs(f, g, p, packet, item)
  PROVE  Takes(f, g, item)
BY HoldTakes, PassTakes DEF CompletedAs

\* observeBreak hands the feed the break.
LEMMA BreakItem ==
  ASSUME NEW f, BoundedFeed(f), NEW p \in Pids, NEW at \in Int, NEW cause \in BreakCauses
  PROVE  \E item \in Observations :
           /\ item.n = f.seen + 1 /\ item.pid = p /\ item.offset = at /\ item.what = cause
           /\ ~item.place /\ ~item.at.valid
           /\ ObserveBreak(f, p, at, cause) = Passed(f, item)
<1> DEFINE item == Observation(f, p, cause, at, FALSE, NoAnchor, Unplaced)
<1>1. f.seen \in Nat
  BY FeedParts DEF BoundedFeed
<1>2. /\ item \in Observations /\ item.n = f.seen + 1 /\ item.pid = p
      /\ item.offset = at /\ item.what = cause /\ ~item.place /\ ~item.at.valid
  BY <1>1, NoneType DEF Observation, Observations, Unplaced
<1>3. ObserveBreak(f, p, at, cause) = Passed(f, item)
  BY <1>2 DEF ObserveBreak, Passed
<1> HIDE DEF item
<1>4. QED BY <1>2, <1>3

-------------------------------------------------------------------------------
(* The scan state's types.                                                   *)

\* The numbers of the reports are those given out so far.
LEMMA ReportTypes ==
  ASSUME NEW f, BoundedFeed(f)
  PROVE  \A r \in Reports(f) : r.n \in 1 .. f.seen /\ r.pid \in Pids /\ r.offset \in Int
<1>1. /\ \A i \in DOMAIN f.log : f.log[i].n \in 1 .. f.seen /\ f.log[i] \in Observations
      /\ \A i \in DOMAIN f.pending : f.pending[i].n \in 1 .. f.seen /\ f.pending[i] \in Observations
  BY FeedParts DEF BoundedFeed
<1>2. QED BY <1>1 DEF Reports, Report, Observations

\* Taking an observation and ending or not a PES packet keeps the types.
LEMMA TypesKept ==
  ASSUME NEW f, NEW P, ScanTypes(f, P), NEW g, NEW item, Takes(f, g, item), NEW p
  PROVE  ScanTypes(g, P) /\ ScanTypes(g, Without(P, p))
<1>1. IsFiniteSet(DOMAIN P \ {p})
  BY FS_Difference DEF ScanTypes
<1>2. QED BY <1>1 DEF ScanTypes, Takes, Without

\* A new PES packet keeps the types.
LEMMA TypesWith ==
  ASSUME NEW f, NEW P, ScanTypes(f, P), NEW p \in Pids, NEW k \in PesPackets
  PROVE  ScanTypes(f, With(P, p, k))
<1>1. IsFiniteSet(DOMAIN P \cup {p})
  BY FS_AddElement DEF ScanTypes
<1>2. QED BY <1>1 DEF ScanTypes, With

\* Releasing keeps the types.
LEMMA TypesReleased ==
  ASSUME NEW f, NEW P, ScanTypes(f, P), NEW next \in Anchors
  PROVE  ScanTypes(Release(f, next), P)
<1>1. GoodFeed(f) /\ f.seen \in Nat
  BY FeedParts DEF ScanTypes, BoundedFeed
<1>2. /\ GoodFeed(Release(f, next))
      /\ Release(f, next).pending = <<>> /\ Release(f, next).seen = f.seen
  BY <1>1, ReleaseGood, ReleaseStep
<1>3. QED BY <1>1, <1>2, FeedAssumption DEF ScanTypes, BoundedFeed

-------------------------------------------------------------------------------
(* What was sent.                                                            *)

\* A PES packet that ends is reported in its place.
LEMMA SentCompletes ==
  ASSUME NEW f, NEW P, ScanTypes(f, P), NEW begun, NEW end, NEW at \in Int, end <= at, end \in Int,
         Sent(f, P, begun, end, at), NEW p \in DOMAIN P,
         NEW g, NEW item, CompletedAs(f, g, p, P[p], item)
  PROVE  Sent(g, Without(P, p), begun, end, at)
<1> DEFINE Q == Without(P, p)
           new == Report(item)
<1>1. Takes(f, g, item)
  BY CompletedTakes DEF ScanTypes
<1>2. Reports(g) = Reports(f) \cup {new}
  BY <1>1 DEF Takes
<1>3. new.n = f.seen + 1 /\ new.pid = p /\ new.offset = P[p].pos /\ IsPes(new)
  BY DEF CompletedAs, Report, IsPes
<1>4. \A r \in Reports(f) : r.n \in 1 .. f.seen /\ r.offset \in Int
  BY ReportTypes DEF ScanTypes
<1>5. f.seen \in Nat /\ \A q \in DOMAIN P : P[q].pos \in Int
  BY FeedParts DEF ScanTypes, BoundedFeed, PesPackets
<1>6. DOMAIN Q = DOMAIN P \ {p} /\ \A q \in DOMAIN Q : Q[q] = P[q]
  BY DEF Without
<1> HIDE DEF Q, new
<1>7. ASSUME NEW r \in Reports(g)
      PROVE  /\ 1 <= r.offset /\ r.offset <= at
             /\ IsPes(r) => r.offset <= end /\ <<r.pid, r.offset>> \in begun
             /\ r.pid \in DOMAIN Q =>
                  r.offset <= Q[r.pid].pos /\ (IsPes(r) => r.offset < Q[r.pid].pos)
  <2>1. CASE r \in Reports(f)
    BY <1>6, <2>1 DEF Sent
  <2>2. CASE r = new
    BY <1>3, <1>5, <1>6, <2>2 DEF Sent
  <2>3. QED BY <1>2, <2>1, <2>2
<1>8. ASSUME NEW r \in Reports(g), NEW s \in Reports(g),
             r.pid = s.pid, r.n < s.n, IsPes(r), IsPes(s)
      PROVE  r.offset < s.offset
  <2>1. CASE r \in Reports(f) /\ s \in Reports(f)
    BY <1>8, <2>1 DEF Sent
  <2>2. CASE r \in Reports(f) /\ s = new
    BY <1>3, <1>8, <2>2 DEF Sent
  <2>3. r # new
    BY <1>2, <1>3, <1>4, <1>5, <1>8
  <2>4. QED BY <1>2, <2>1, <2>2, <2>3
<1>9. ASSUME NEW b \in begun
      PROVE  \/ \E r \in Reports(g) : IsPes(r) /\ r.pid = b[1] /\ r.offset = b[2]
             \/ b[1] \in DOMAIN Q /\ Q[b[1]].pos = b[2]
  BY <1>2, <1>3, <1>6 DEF Sent
<1>10. QED
  <2>1. \A q \in DOMAIN Q : /\ 1 <= Q[q].pos /\ Q[q].pos <= end
                            /\ <<q, Q[q].pos>> \in begun
    BY <1>6 DEF Sent
  <2>2. QED BY <1>7, <1>8, <1>9, <2>1 DEF Sent, Q

\* A break of a PID without a PES packet in progress.
LEMMA SentBreaks ==
  ASSUME NEW f, NEW P, ScanTypes(f, P), NEW begun, NEW end, NEW at \in Int,
         Sent(f, P, begun, end, at), 1 <= at,
         NEW g, NEW item, Takes(f, g, item), item.pid \notin DOMAIN P,
         item.offset = at, ~IsPes(item)
  PROVE  Sent(g, P, begun, end, at)
<1> DEFINE new == Report(item)
<1>2. Reports(g) = Reports(f) \cup {new}
  BY DEF Takes
<1>3. new.pid = item.pid /\ new.offset = at /\ ~IsPes(new)
  BY DEF Report, IsPes
<1> HIDE DEF new
<1>10. QED BY <1>2, <1>3 DEF Sent

\* A PES packet that starts is in progress.
LEMMA SentStarts ==
  ASSUME NEW f, NEW P, ScanTypes(f, P), NEW begun, NEW end \in Int, NEW at \in Int,
         Sent(f, P, begun, end, at), 0 <= end, end < at, NEW p, p \notin DOMAIN P,
         NEW k, k.pos = at
  PROVE  Sent(f, With(P, p, k), begun \cup {<<p, at>>}, at, at)
<1> DEFINE Q == With(P, p, k)
           all == begun \cup {<<p, at>>}
<1>1. /\ DOMAIN Q = DOMAIN P \cup {p} /\ Q[p].pos = at
      /\ \A q \in DOMAIN P : Q[q] = P[q]
  BY DEF With
<1>2. \A r \in Reports(f) : r.offset \in Int
  BY ReportTypes DEF ScanTypes
<1>3. \A q \in DOMAIN P : P[q].pos \in Int
  BY DEF ScanTypes, PesPackets
<1> HIDE DEF Q
<1>4. ASSUME NEW r \in Reports(f)
      PROVE  /\ 1 <= r.offset /\ r.offset <= at
             /\ IsPes(r) => r.offset <= at /\ <<r.pid, r.offset>> \in all
             /\ r.pid \in DOMAIN Q =>
                  r.offset <= Q[r.pid].pos /\ (IsPes(r) => r.offset < Q[r.pid].pos)
  BY <1>1, <1>2 DEF Sent
<1>5. ASSUME NEW q \in DOMAIN Q
      PROVE  1 <= Q[q].pos /\ Q[q].pos <= at /\ <<q, Q[q].pos>> \in all
  BY <1>1, <1>3 DEF Sent
<1>6. ASSUME NEW b \in all
      PROVE  \/ \E r \in Reports(f) : IsPes(r) /\ r.pid = b[1] /\ r.offset = b[2]
             \/ b[1] \in DOMAIN Q /\ Q[b[1]].pos = b[2]
  BY <1>1 DEF Sent
<1>7. \A r, s \in Reports(f) :
        r.pid = s.pid /\ r.n < s.n /\ IsPes(r) /\ IsPes(s) => r.offset < s.offset
  BY DEF Sent
<1>8. QED BY <1>4, <1>5, <1>6, <1>7 DEF Sent, Q

-------------------------------------------------------------------------------
(* What is placed.                                                           *)

\* What is excused stays so as more is observed.
LEMMA SeenGrows ==
  ASSUME NEW v, NEW s \in Nat, NEW t \in Nat, s <= t
  PROVE  /\ LogItems(v, s) \subseteq LogItems(v, t)
         /\ HeldItems(v, s) \subseteq HeldItems(v, t)
         /\ OpenPackets(v, s) \subseteq OpenPackets(v, t)
<1>1. \A o : Excused(v, s, o) => Excused(v, t, o)
  BY FeedAssumption DEF Excused
<1>2. LogItems(v, s) \subseteq LogItems(v, t)
  BY <1>1 DEF LogItems
<1>3. QED BY <1>1, <1>2 DEF HeldItems, OpenPackets

\* What fits a set fits a larger one.
LEMMA FitsMore ==
  ASSUME NEW f, NEW m, NEW H, NEW L, NEW HH, NEW LL, Fits(f, m, H, L), H \subseteq HH, L \subseteq LL
  PROVE  Fits(f, m, HH, LL)
BY DEF Fits

\* The PCRs of a timeline by their fields.
LEMMA PcrTypes ==
  ASSUME NEW v, Timeline(v)
  PROVE  /\ Len(v.pcrs) \in Nat /\ DOMAIN v.pcrs = 1 .. Len(v.pcrs)
         /\ \A i \in DOMAIN v.pcrs :
              /\ i \in Int /\ v.pcrs[i] \in Anchors
              /\ v.pcrs[i].pos \in Int /\ v.pcrs[i].segment \in Int
              /\ v.pcrs[i].unwrapped \in Int
<1>1. v.pcrs \in Seq(Anchors)
  BY DEF Timeline
<1>2. /\ Len(v.pcrs) \in Nat /\ DOMAIN v.pcrs = 1 .. Len(v.pcrs)
      /\ \A i \in DOMAIN v.pcrs : i \in Int /\ v.pcrs[i] \in Anchors
  BY <1>1
<1>3. \A a \in Anchors : a.pos \in Int /\ a.segment \in Int /\ a.unwrapped \in Int
  BY DEF Anchors
<1>4. QED BY <1>2, <1>3

\* The PCRs around an offset are around no other pair's offsets.
LEMMA OneBracket ==
  ASSUME NEW v, Timeline(v), NEW i \in DOMAIN v.pcrs, NEW j \in DOMAIN v.pcrs, NEW o \in Int,
         Between(v.pcrs, i, o), Between(v.pcrs, j, o)
  PROVE  i = j
<1>1. \A a, b \in DOMAIN v.pcrs : a < b => v.pcrs[a].pos < v.pcrs[b].pos
  BY DEF Timeline
<1>2. \A a \in DOMAIN v.pcrs : a \in Int /\ v.pcrs[a].pos \in Int
  BY PcrTypes
<1>3. i + 1 \in DOMAIN v.pcrs /\ j + 1 \in DOMAIN v.pcrs
  BY DEF Between
<1>4. i < j => v.pcrs[i + 1].pos <= v.pcrs[j].pos
  <2>1. i < j => i + 1 = j \/ i + 1 < j
    BY <1>2
  <2>2. QED BY <1>1, <1>2, <1>3, <2>1
<1>5. j < i => v.pcrs[j + 1].pos <= v.pcrs[i].pos
  <2>1. j < i => j + 1 = i \/ j + 1 < i
    BY <1>2
  <2>2. QED BY <1>1, <1>2, <1>3, <2>1
<1>6. QED BY <1>2, <1>3, <1>4, <1>5 DEF Between

\* After the last PCR there is no bracket, and inside one the last PCR is later.
LEMMA LastIsLate ==
  ASSUME NEW v, Timeline(v), NEW i \in DOMAIN v.pcrs, NEW o \in Int, Between(v.pcrs, i, o)
  PROVE  ~AfterLast(v.pcrs, o)
<1>1. \A a, b \in DOMAIN v.pcrs : a < b => v.pcrs[a].pos < v.pcrs[b].pos
  BY DEF Timeline
<1>2. /\ \A a \in DOMAIN v.pcrs : a \in Int /\ v.pcrs[a].pos \in Int
      /\ DOMAIN v.pcrs = 1 .. Len(v.pcrs) /\ Len(v.pcrs) \in Nat
  BY PcrTypes
<1>3. i + 1 \in DOMAIN v.pcrs /\ Len(v.pcrs) \in DOMAIN v.pcrs /\ i + 1 <= Len(v.pcrs)
  BY <1>2 DEF Between
<1>4. v.pcrs[i + 1].pos <= v.pcrs[Len(v.pcrs)].pos
  BY <1>1, <1>2, <1>3
<1>5. QED BY <1>2, <1>3, <1>4, SMTT(40) DEF Between, AfterLast

\* The observation of a PES packet that ends may be held, and delivered if it need not
\* wait.
LEMMA CompletedIsPlaced ==
  ASSUME NEW v, Timeline(v), NEW s \in Nat, NEW k \in OpenPackets(v, s),
         NEW f, NEW g, NEW p, NEW item, CompletedAs(f, g, p, k, item)
  PROVE  item \in HeldItems(v, s) /\ (~item.place => item \in LogItems(v, s))
<1>1. item \in Observations /\ item.offset = k.pos /\ k.pos <= v.pos /\ k \in PesPackets
  BY DEF CompletedAs, OpenPackets
<1>2. CASE item.place
  <2>1. item.what = "ok" /\ ~item.at.valid
    BY <1>2 DEF CompletedAs, Unplaced
  <2>2. v.clock.valid /\ item.prev = v.clock /\ v.clock.pos <= k.pos
    BY <1>2 DEF CompletedAs, OpenPackets
  <2>3. QED BY <1>1, <1>2, <2>1, <2>2 DEF HeldItems
<1>3. CASE ~item.place
  <2>1. CASE item.what # "ok"
    <3>1. ~item.at.valid
      BY <2>1 DEF CompletedAs
    <3>2. item \in LogItems(v, s)
      BY <1>1, <2>1, <3>1 DEF LogItems
    <3>3. QED BY <1>3, <1>1, <3>2 DEF HeldItems
  <2>2. CASE item.what = "ok" /\ ~k.prev.valid
    <3>1. item.at = ArrivalAt(k.prev, k.next, k.pos)
      BY <1>3, <2>2 DEF CompletedAs
    <3>2. ~item.at.valid
      BY <2>2, <3>1 DEF ArrivalAt, Unplaced
    <3>3. Excused(v, s, k.pos)
      BY <2>2 DEF OpenPackets
    <3>4. item \in LogItems(v, s)
      BY <1>1, <3>2, <3>3 DEF LogItems
    <3>5. QED BY <1>3, <1>1, <3>4 DEF HeldItems
  <2>3. CASE item.what = "ok" /\ k.prev.valid
    <3>1. item.at = ArrivalAt(k.prev, k.next, k.pos) /\ k.next.valid
      BY <1>3, <2>3 DEF CompletedAs
    <3>2. PICK i \in DOMAIN v.pcrs : /\ Between(v.pcrs, i, k.pos)
                                     /\ k.prev = v.pcrs[i] /\ k.next = v.pcrs[i + 1]
      BY <2>3, <3>1 DEF OpenPackets
    <3>3. k.pos \in Int /\ k.prev.pos \in Int /\ k.next.pos \in Int /\ k.prev.pos < k.next.pos
      BY <1>1, <3>2 DEF Between, PesPackets, Anchors
    <3>4. CASE k.prev.segment = k.next.segment
      <4>1. item.at.valid
        BY <2>3, <3>1, <3>3, <3>4 DEF ArrivalAt
      <4>2. PlacedIn(v.pcrs, item.at, item.offset)
        BY <1>1, <3>1, <3>2, <3>4 DEF PlacedIn
      <4>3. item \in LogItems(v, s)
        BY <1>1, <2>3, <4>1, <4>2 DEF LogItems
      <4>4. QED BY <1>3, <1>1, <4>3 DEF HeldItems
    <3>5. CASE k.prev.segment # k.next.segment
      <4>1. ~item.at.valid
        BY <3>1, <3>5 DEF ArrivalAt, Unplaced
      <4>2. \A j \in DOMAIN v.pcrs : Between(v.pcrs, j, k.pos) => j = i
        BY <3>2, <3>3, OneBracket
      <4>3. ~AfterLast(v.pcrs, k.pos)
        BY <3>2, <3>3, LastIsLate
      <4>4. Excused(v, s, k.pos)
        BY <3>2, <3>5, <4>2, <4>3 DEF Excused
      <4>5. item \in LogItems(v, s)
        BY <1>1, <4>1, <4>4 DEF LogItems
      <4>6. QED BY <1>3, <1>1, <4>5 DEF HeldItems
    <3>6. QED BY <3>4, <3>5
  <2>4. QED BY <2>1, <2>2, <2>3
<1>4. QED BY <1>2, <1>3

\* What a full feed releases without a PCR is excused.
LEMMA FullIsExcused ==
  ASSUME NEW v, NEW s, s >= MaxPendingPES, NEW x \in HeldItems(v, s) \cap Observations
  PROVE  Placed(x, NoAnchor) \in LogItems(v, s)
<1>1. CASE ~x.place
  BY <1>1 DEF Placed, HeldItems
<1>2. CASE x.place
  <2> DEFINE y == Placed(x, NoAnchor)
  <2>1. y \in Observations
    BY PlacedType, NoneType
  <2>2. y = [x EXCEPT !.at = Unplaced]
    BY <1>2 DEF Placed, ArrivalAt, NoAnchor
  <2>3. y.what = x.what /\ y.offset = x.offset /\ ~y.at.valid
    BY <2>2 DEF Observations, Unplaced
  <2>4. Excused(v, s, y.offset)
    BY DEF Excused
  <2> HIDE DEF y
  <2>5. y \in LogItems(v, s)
    BY <1>2, <2>1, <2>3, <2>4 DEF LogItems, HeldItems
  <2>6. QED BY <2>5 DEF y
<1>3. QED BY <1>1, <1>2

\* A PES packet that ends keeps the placement.
LEMMA PlacedCompletes ==
  ASSUME NEW v, Timeline(v), NEW f, NEW P, ScanTypes(f, P), PlacedSoFar(f, P, v),
         NEW p \in DOMAIN P, NEW g, NEW item, CompletedAs(f, g, p, P[p], item)
  PROVE  PlacedSoFar(g, Without(P, p), v)
<1> DEFINE t == f.seen + 1
           H == HeldItems(v, t)
           L == LogItems(v, t)
<1>0. BoundedFeed(f) /\ Len(f.pending) <= f.seen
  BY DEF ScanTypes
<1>1. f.seen \in Nat /\ t \in Nat /\ f.seen <= t
  BY <1>0, FeedParts DEF BoundedFeed
<1>2. /\ LogItems(v, f.seen) \subseteq L /\ HeldItems(v, f.seen) \subseteq H
      /\ OpenPackets(v, f.seen) \subseteq OpenPackets(v, t)
  BY <1>1, SeenGrows
<1>3. Fits(f, 0, H, L)
  BY <1>2, FitsMore DEF PlacedSoFar
<1>4. \A q \in DOMAIN P : P[q] \in OpenPackets(v, t)
  BY <1>2 DEF PlacedSoFar
<1>5. item \in H /\ (~item.place => item \in L)
  BY <1>1, <1>4, CompletedIsPlaced
<1>6. t >= MaxPendingPES => \A x \in H \cap Observations : Placed(x, NoAnchor) \in L
  BY FullIsExcused
<1>7. g.seen = t
  BY <1>0, CompletedTakes DEF Takes
<1> HIDE DEF H, L
<1>8. Fits(g, 0, H, L)
  <2>1. item \in Observations /\ item.n = f.seen + 1
    BY DEF CompletedAs
  <2>2. CASE item.place
    <3>1. g = Hold(f, item)
      BY <2>2 DEF CompletedAs
    <3>2. QED BY <1>0, <1>3, <1>5, <1>6, <2>1, <3>1, HoldFits
  <2>3. CASE ~item.place
    <3>1. g = Passed(f, item)
      BY <2>3 DEF CompletedAs
    <3>2. QED BY <1>0, <1>3, <1>5, <1>6, <2>1, <2>3, <3>1, PassFits
  <2>4. QED BY <2>2, <2>3
<1>9. \A q \in DOMAIN Without(P, p) : Without(P, p)[q] \in OpenPackets(v, t)
  BY <1>4 DEF Without
<1>10. QED BY <1>7, <1>8, <1>9 DEF PlacedSoFar, H, L

\* A break keeps the placement.
LEMMA PlacedBreaks ==
  ASSUME NEW v, NEW f, NEW P, ScanTypes(f, P), PlacedSoFar(f, P, v),
         NEW item \in Observations, item.n = f.seen + 1, item.what # "ok", ~item.place,
         ~item.at.valid
  PROVE  PlacedSoFar(Passed(f, item), P, v)
<1> DEFINE t == f.seen + 1
           H == HeldItems(v, t)
           L == LogItems(v, t)
           g == Passed(f, item)
<1>0. BoundedFeed(f) /\ Len(f.pending) <= f.seen
  BY DEF ScanTypes
<1>1. f.seen \in Nat /\ t \in Nat /\ f.seen <= t
  BY <1>0, FeedParts DEF BoundedFeed
<1>2. /\ LogItems(v, f.seen) \subseteq L /\ HeldItems(v, f.seen) \subseteq H
      /\ OpenPackets(v, f.seen) \subseteq OpenPackets(v, t)
  BY <1>1, SeenGrows
<1>3. Fits(f, 0, H, L)
  BY <1>2, FitsMore DEF PlacedSoFar
<1>4. item \in H /\ item \in L
  BY DEF HeldItems, LogItems
<1>5. t >= MaxPendingPES => \A x \in H \cap Observations : Placed(x, NoAnchor) \in L
  BY FullIsExcused
<1>6. g.seen = t
  BY <1>0, PassTakes DEF Takes
<1> HIDE DEF H, L
<1>7. Fits(g, 0, H, L)
  BY <1>0, <1>3, <1>4, <1>5, PassFits
<1> HIDE DEF g
<1>8. QED BY <1>2, <1>6, <1>7 DEF PlacedSoFar, H, L, g

\* What a PES packet that starts after the last PCR must be like.
LEMMA StartIsOpen ==
  ASSUME NEW v, Timeline(v), NEW s, NEW k \in PesPackets, k.pos = v.pos, v.pos \in Nat,
         k.prev = v.clock, k.next = NoAnchor
  PROVE  k \in OpenPackets(v, s)
<1>1. ~k.next.valid
  BY DEF NoAnchor
<1>2. \A i \in DOMAIN v.pcrs : v.pcrs[i].pos <= v.pos /\ v.pcrs[i].pos \in Int
  BY PcrTypes DEF Timeline
<1>3. CASE k.prev.valid
  <2>1. v.pcrs \in Seq(Anchors) /\ Len(v.pcrs) > 0 /\ v.clock = v.pcrs[Len(v.pcrs)]
    BY <1>3 DEF Timeline
  <2>2. Len(v.pcrs) \in DOMAIN v.pcrs
    BY <2>1
  <2>3. v.clock.pos <= k.pos
    BY <1>2, <2>1, <2>2
  <2>4. QED BY <1>1, <1>3, <2>3 DEF OpenPackets
<1>4. CASE ~k.prev.valid
  <2>1. \A i \in DOMAIN v.pcrs : ~Between(v.pcrs, i, k.pos)
    BY <1>2 DEF Between
  <2>2. Excused(v, s, k.pos)
    BY <1>4, <2>1 DEF Excused
  <2>3. QED BY <1>1, <1>4, <2>2 DEF OpenPackets
<1>5. QED BY <1>3, <1>4

-------------------------------------------------------------------------------
(* The layout in force.                                                      *)

\* The greatest element of a set of numbers.
LEMMA MaxIs ==
  ASSUME NEW S \in SUBSET Int, NEW m \in S, \A x \in S : x <= m
  PROVE  Max(S) = m
<1>1. \A x \in S : (\A y \in S : x >= y) => x = m
  OBVIOUS
<1>2. \E x \in S : \A y \in S : x >= y
  OBVIOUS
<1>3. QED BY <1>1, <1>2 DEF Max

\* The layouts by their fields.
LEMMA LayoutFields ==
  ASSUME NEW ls, NEW now, NEW f, LayoutTypes(ls, now, f)
  PROVE  /\ Len(ls) \in Nat \ {0} /\ DOMAIN ls = 1 .. Len(ls)
         /\ 1 \in DOMAIN ls /\ Len(ls) \in DOMAIN ls
         /\ \A l \in DOMAIN ls : /\ ls[l] \in LayoutRecords /\ ls[l].types \in Layouts
                                 /\ ls[l].at \in Nat /\ ls[l].logged \in Nat
<1>1. ls \in Seq(LayoutRecords) /\ Len(ls) > 0
  BY DEF LayoutTypes
<1>2. /\ Len(ls) \in Nat \ {0} /\ DOMAIN ls = 1 .. Len(ls)
      /\ \A l \in DOMAIN ls : ls[l] \in LayoutRecords
  BY <1>1
<1>3. \A r \in LayoutRecords : r.types \in Layouts /\ r.at \in Nat /\ r.logged \in Nat
  BY DEF LayoutRecords
<1>4. QED BY <1>2, <1>3

\* The last layout is in force after it began, and what the check has since received
\* is judged by it.
LEMMA LastLayout ==
  ASSUME NEW ls, NEW now, NEW f, LayoutTypes(ls, now, f), NEW n \in Int
  PROVE  /\ n > ls[Len(ls)].at => InForce(ls, n) = ls[Len(ls)].types
         /\ n > ls[Len(ls)].logged => Known(ls, n) = ls[Len(ls)].types
<1>1. Len(ls) \in DOMAIN ls /\ \A l \in DOMAIN ls : l \in Int /\ l <= Len(ls)
  BY LayoutFields
<1>2. ASSUME n > ls[Len(ls)].at PROVE InForce(ls, n) = ls[Len(ls)].types
  <2>1. Len(ls) \in {i \in DOMAIN ls : ls[i].at < n}
    BY <1>1, <1>2, LayoutFields
  <2>2. Max({i \in DOMAIN ls : ls[i].at < n}) = Len(ls)
    BY <1>1, <2>1, MaxIs
  <2>3. QED BY <2>2 DEF InForce
<1>3. ASSUME n > ls[Len(ls)].logged PROVE Known(ls, n) = ls[Len(ls)].types
  <2>1. Len(ls) \in {i \in DOMAIN ls : ls[i].logged < n}
    BY <1>1, <1>3, LayoutFields
  <2>2. Max({i \in DOMAIN ls : ls[i].logged < n}) = Len(ls)
    BY <1>1, <2>1, MaxIs
  <2>3. QED BY <2>2 DEF Known
<1>4. QED BY <1>2, <1>3

\* A set of layouts with the first in it has a last one.
LEMMA LastOfSome ==
  ASSUME NEW n \in Nat, NEW S \in SUBSET (1 .. n), 1 \in S
  PROVE  Max(S) \in S
<1>1. S \in SUBSET Nat /\ S # {} /\ \A x \in S : x <= n
  OBVIOUS
<1>2. PICK m \in S : \A x \in S : x <= m
  BY <1>1, GreatestNatural
<1>3. S \in SUBSET Int
  OBVIOUS
<1>4. Max(S) = m
  BY <1>2, <1>3, MaxIs
<1>5. QED BY <1>4

\* A new layout changes neither what was in force before it nor what the check has judged.
LEMMA EarlierLayouts ==
  ASSUME NEW ls, NEW now, NEW f, LayoutTypes(ls, now, f), NEW r \in LayoutRecords,
         NEW n \in Int, n >= 1, NEW ms, ms = Append(ls, r)
  PROVE  /\ n <= r.at => InForce(ms, n) = InForce(ls, n)
         /\ n <= r.logged => Known(ms, n) = Known(ls, n)
<1>1. /\ Len(ls) \in Nat /\ DOMAIN ls = 1 .. Len(ls) /\ DOMAIN ms = 1 .. Len(ls) + 1
      /\ \A l \in DOMAIN ls : ms[l] = ls[l]
      /\ ms[Len(ls) + 1] = r
  BY LayoutFields DEF LayoutTypes
<1>2. 1 \in DOMAIN ls /\ ls[1].at = 0 /\ ls[1].logged = 0 /\ r.at \in Nat /\ r.logged \in Nat
  BY LayoutFields DEF LayoutTypes, LayoutRecords
<1>3. ASSUME n <= r.at PROVE InForce(ms, n) = InForce(ls, n)
  <2> DEFINE S == {i \in DOMAIN ls : ls[i].at < n}
  <2>1. {i \in DOMAIN ms : ms[i].at < n} = S
    BY <1>1, <1>2, <1>3
  <2>2. 1 \in S /\ S \in SUBSET (1 .. Len(ls))
    BY <1>1, <1>2
  <2>3. S \subseteq DOMAIN ls
    OBVIOUS
  <2> HIDE DEF S
  <2>4. Max(S) \in DOMAIN ls
    BY <1>1, <2>2, <2>3, LastOfSome
  <2>5. QED BY <1>1, <2>1, <2>4 DEF InForce, S
<1>4. ASSUME n <= r.logged PROVE Known(ms, n) = Known(ls, n)
  <2> DEFINE S == {i \in DOMAIN ls : ls[i].logged < n}
  <2>1. {i \in DOMAIN ms : ms[i].logged < n} = S
    BY <1>1, <1>2, <1>4
  <2>2. 1 \in S /\ S \in SUBSET (1 .. Len(ls))
    BY <1>1, <1>2
  <2>3. S \subseteq DOMAIN ls
    OBVIOUS
  <2> HIDE DEF S
  <2>4. Max(S) \in DOMAIN ls
    BY <1>1, <2>2, <2>3, LastOfSome
  <2>5. QED BY <1>1, <2>1, <2>4 DEF Known, S
<1>5. QED BY <1>3, <1>4

-------------------------------------------------------------------------------
(* What is judged.                                                           *)

\* A longer log keeps the types of the layouts.
LEMMA LayoutsKept ==
  ASSUME NEW ls, NEW now \in Int, NEW later \in Int, now <= later,
         NEW f, BoundedFeed(f), LayoutTypes(ls, now, f), NEW g, BoundedFeed(g), Longer(f, g)
  PROVE  LayoutTypes(ls, later, g) /\ Len(f.log) <= Len(g.log)
<1>1. /\ f.log \in Seq(Observations) /\ g.log \in Seq(Observations)
  BY FeedParts DEF BoundedFeed
<1>2. /\ DOMAIN f.log = 1 .. Len(f.log) /\ DOMAIN g.log = 1 .. Len(g.log)
      /\ Len(f.log) \in Nat /\ Len(g.log) \in Nat
  BY <1>1
<1>3. Len(f.log) <= Len(g.log)
  BY <1>2 DEF Longer
<1>4. \A l \in DOMAIN ls : ls[l].at \in Nat /\ ls[l].logged \in Nat
  BY LayoutFields
<1>5. \A l \in DOMAIN ls : ls[l].at <= later /\ ls[l].logged <= Len(g.log)
  BY <1>2, <1>3, <1>4 DEF LayoutTypes
<1>6. QED BY <1>3, <1>5 DEF LayoutTypes

\* Placing does not change what an observation is judged by.
LEMMA PlacedJudged ==
  ASSUME NEW ls, NEW next \in Anchors, NEW x \in OfThisLayout(ls) \cap Observations
  PROVE  Placed(x, next) \in OfThisLayout(ls)
<1>1. Placed(x, next) \in Observations /\ Report(Placed(x, next)) = Report(x)
  BY PlacedType, PlacedReport
<1>2. Placed(x, next).pid = x.pid /\ Placed(x, next).offset = x.offset
  BY <1>1 DEF Report
<1>3. QED BY <1>1, <1>2 DEF OfThisLayout

\* What the check has judged stays as it is.
LEMMA PastJudged ==
  ASSUME NEW ls, NEW now, NEW f, NEW P, BoundedFeed(f), LayoutTypes(ls, now, f),
         Judged(f, P, ls), NEW g, BoundedFeed(g), Longer(f, g)
  PROVE  \A k \in DOMAIN g.log :
           k <= ls[Len(ls)].logged =>
             Known(ls, k)[g.log[k].pid] = InForce(ls, g.log[k].offset)[g.log[k].pid]
<1>1. /\ f.log \in Seq(Observations) /\ g.log \in Seq(Observations)
  BY FeedParts DEF BoundedFeed
<1>2. /\ DOMAIN f.log = 1 .. Len(f.log) /\ DOMAIN g.log = 1 .. Len(g.log)
      /\ Len(f.log) \in Nat /\ Len(g.log) \in Nat
  BY <1>1
<1>3. ls[Len(ls)].logged \in Nat /\ ls[Len(ls)].logged <= Len(f.log)
  BY LayoutFields DEF LayoutTypes
<1>4. \A k \in DOMAIN g.log : k <= ls[Len(ls)].logged => k \in DOMAIN f.log /\ g.log[k] = f.log[k]
  BY <1>2, <1>3 DEF Longer
<1>5. QED BY <1>4 DEF Judged

\* An observation of this layout is judged by it.
LEMMA JudgedTakes ==
  ASSUME NEW ls, NEW now, NEW f, NEW P, ScanTypes(f, P), LayoutTypes(ls, now, f),
         Judged(f, P, ls), NEW g, NEW item \in OfThisLayout(ls), item.n = f.seen + 1,
         g = Hold(f, item) \/ g = Passed(f, item)
  PROVE  Judged(g, P, ls)
<1> DEFINE m == ls[Len(ls)].logged
           H == OfThisLayout(ls)
<1>1. BoundedFeed(f) /\ Len(f.pending) <= f.seen /\ item \in Observations
  BY DEF ScanTypes, OfThisLayout
<1>2. Takes(f, g, item)
  BY <1>1, HoldTakes, PassTakes
<1>3. \A x \in H \cap Observations : Placed(x, NoAnchor) \in H
  BY PlacedJudged, NoneType
<1>4. Fits(f, m, H, H)
  BY DEF Judged
<1> HIDE DEF H, m
<1>5. item \in H
  BY DEF H
<1>6. Fits(g, m, H, H)
  BY <1>1, <1>3, <1>4, <1>5, HoldFits, PassFits
<1>7. \A k \in DOMAIN g.log :
        k <= ls[Len(ls)].logged =>
          Known(ls, k)[g.log[k].pid] = InForce(ls, g.log[k].offset)[g.log[k].pid]
  BY <1>1, <1>2, PastJudged DEF Takes
<1>8. QED BY <1>6, <1>7 DEF Judged, H, m

\* A PES packet that ends is judged by the layout it was sent with.
LEMMA JudgedCompletes ==
  ASSUME NEW ls, NEW now, NEW f, NEW P, ScanTypes(f, P), LayoutTypes(ls, now, f),
         Judged(f, P, ls), NEW p \in DOMAIN P,
         NEW g, NEW item, CompletedAs(f, g, p, P[p], item)
  PROVE  Judged(g, Without(P, p), ls)
<1>1. item \in OfThisLayout(ls) /\ item.n = f.seen + 1
  BY DEF CompletedAs, OfThisLayout, Judged
<1>2. g = Hold(f, item) \/ g = Passed(f, item)
  BY DEF CompletedAs
<1>3. Judged(g, P, ls)
  BY <1>1, <1>2, JudgedTakes
<1>4. QED BY <1>3 DEF Judged, Without

\* Releasing changes nothing that is judged.
LEMMA JudgedReleased ==
  ASSUME NEW ls, NEW now, NEW f, NEW P, ScanTypes(f, P), LayoutTypes(ls, now, f),
         Judged(f, P, ls), NEW next \in Anchors
  PROVE  Judged(Release(f, next), P, ls)
<1> DEFINE H == OfThisLayout(ls)
           m == ls[Len(ls)].logged
           g == Release(f, next)
<1>1. GoodFeed(f) /\ BoundedFeed(f) /\ BoundedFeed(g) /\ Longer(f, g)
  BY TypesReleased, ReleaseStep DEF ScanTypes, BoundedFeed
<1>2. \A x \in H \cap Observations : Placed(x, next) \in H
  BY PlacedJudged
<1>3. Fits(f, m, H, H) /\ H \subseteq H
  BY DEF Judged
<1> HIDE DEF H, m
<1>4. Fits(g, m, H, H)
  BY <1>1, <1>2, <1>3, ReleaseFits
<1> HIDE DEF g
<1>5. \A k \in DOMAIN g.log :
        k <= ls[Len(ls)].logged =>
          Known(ls, k)[g.log[k].pid] = InForce(ls, g.log[k].offset)[g.log[k].pid]
  BY <1>1, PastJudged
<1>6. QED BY <1>4, <1>5 DEF Judged, H, m, g

\* Under a new layout that the PES packets in progress keep their type in, all that the
\* check has received stays judged as it was.
LEMMA JudgedLayout ==
  ASSUME NEW ls, NEW now \in Nat, NEW f, NEW P, ScanTypes(f, P), LayoutTypes(ls, now, f),
         Judged(f, P, ls), f.pending = <<>>, NEW types \in Layouts,
         \A p \in DOMAIN P : types[p] = ls[Len(ls)].types[p] /\ 1 <= P[p].pos /\ P[p].pos <= now,
         \A k \in DOMAIN f.log : 1 <= f.log[k].offset /\ f.log[k].offset <= now,
         NEW ms, ms = Append(ls, [at |-> now, logged |-> Len(f.log), types |-> types])
  PROVE  Judged(f, P, ms) /\ LayoutTypes(ms, now, f)
<1> DEFINE r == [at |-> now, logged |-> Len(f.log), types |-> types]
<1>1. /\ f.log \in Seq(Observations) /\ Len(f.log) \in Nat /\ DOMAIN f.log = 1 .. Len(f.log)
  BY FeedParts DEF ScanTypes, BoundedFeed
<1>2. r \in LayoutRecords /\ r.at = now /\ r.logged = Len(f.log) /\ r.types = types
  BY <1>1 DEF LayoutRecords
<1> HIDE DEF r
<1>3. ms = Append(ls, r) /\ ls \in Seq(LayoutRecords) /\ Len(ls) > 0
  BY DEF r, LayoutTypes
<1>4. /\ ms \in Seq(LayoutRecords) /\ Len(ms) = Len(ls) + 1 /\ ms[Len(ms)] = r
      /\ DOMAIN ms = DOMAIN ls \cup {Len(ms)} /\ \A l \in DOMAIN ls : ms[l] = ls[l]
      /\ Len(ms) > 0 /\ 1 \in DOMAIN ls
  BY <1>2, <1>3
<1>5. LayoutTypes(ms, now, f)
  <2>1. \A l \in DOMAIN ms : ms[l].at <= now /\ ms[l].logged <= Len(f.log)
    BY <1>1, <1>2, <1>4 DEF LayoutTypes
  <2>2. QED BY <1>4, <2>1 DEF LayoutTypes
<1>6. ASSUME NEW n \in Int, n >= 1
      PROVE  /\ n <= now => InForce(ms, n) = InForce(ls, n)
             /\ n <= Len(f.log) => Known(ms, n) = Known(ls, n)
  BY <1>2, <1>3, <1>6, EarlierLayouts
<1>7. \A i \in DOMAIN f.pending : FALSE
  OBVIOUS
<1>8. Fits(f, ms[Len(ms)].logged, OfThisLayout(ms), OfThisLayout(ms))
  BY <1>1, <1>2, <1>4, <1>7 DEF Fits
<1>9. \A p \in DOMAIN P : ms[Len(ms)].types[p] = InForce(ms, P[p].pos)[p]
  <2>1. \A p \in DOMAIN P : P[p].pos \in Int
    BY DEF ScanTypes, PesPackets
  <2>2. QED BY <1>2, <1>4, <1>6, <2>1 DEF Judged
<1>10. ASSUME NEW k \in DOMAIN f.log
       PROVE  Known(ms, k)[f.log[k].pid] = InForce(ms, f.log[k].offset)[f.log[k].pid]
  <2>0. f.log[k] \in Observations /\ k \in Int /\ k >= 1 /\ k <= Len(f.log)
    BY <1>1
  <2>1. f.log[k] \in Observations /\ f.log[k].offset \in Int /\ k \in Int /\ k >= 1 /\ k <= Len(f.log)
    BY <2>0 DEF Observations
  <2>2. /\ Known(ms, k) = Known(ls, k)
        /\ InForce(ms, f.log[k].offset) = InForce(ls, f.log[k].offset)
    BY <1>6, <2>1
  <2>3. CASE k <= ls[Len(ls)].logged
    BY <2>2, <2>3 DEF Judged
  <2>4. CASE k > ls[Len(ls)].logged
    <3>1. f.log[k] \in OfThisLayout(ls)
      BY <2>4 DEF Judged, Fits
    <3>2. Known(ls, k) = ls[Len(ls)].types
      BY <2>1, <2>4, LastLayout
    <3>3. QED BY <2>2, <3>1, <3>2 DEF OfThisLayout
  <2>5. ls[Len(ls)].logged \in Nat
    BY LayoutFields
  <2>6. QED BY <2>1, <2>3, <2>4, <2>5
<1>11. QED BY <1>5, <1>8, <1>9, <1>10 DEF Judged

-------------------------------------------------------------------------------
(* From one view of the program to the next.                                 *)

\* What fits the log of one view fits that of a later one.
LEMMA LogKept ==
  ASSUME NEW v, NEW w, NEW s, v.pos \in Int, w.pos \in Int, v.pos <= w.pos,
         DOMAIN v.pcrs \subseteq DOMAIN w.pcrs, \A i \in DOMAIN v.pcrs : w.pcrs[i] = v.pcrs[i],
         \A o \in Int : o <= v.pos /\ Excused(v, s, o) => Excused(w, s, o)
  PROVE  LogItems(v, s) \subseteq LogItems(w, s)
<1>1. \A at, o : PlacedIn(v.pcrs, at, o) => PlacedIn(w.pcrs, at, o)
  BY DEF PlacedIn, Between
<1>2. \A x \in Observations : x.offset \in Int
  BY DEF Observations
<1>3. QED BY <1>1, <1>2 DEF LogItems

\* The next packet, without a PCR.
LEMMA PacketWithoutPcr ==
  ASSUME NEW v, NEW w, NEW f, NEW P, PlacedSoFar(f, P, v), ScanTypes(f, P),
         v.pos \in Int, w.pos \in Int, v.pos <= w.pos,
         w.pcrs = v.pcrs, w.clock = v.clock, w.layouts = v.layouts, w.live = v.live
  PROVE  PlacedSoFar(f, P, w)
<1> DEFINE s == f.seen
<1>1. \A o : Excused(v, s, o) => Excused(w, s, o)
  BY DEF Excused
<1>2. LogItems(v, s) \subseteq LogItems(w, s)
  BY <1>1, LogKept
<1>3. HeldItems(v, s) \subseteq HeldItems(w, s)
  <2>1. \A x \in Observations : x.offset \in Int
    BY DEF Observations
  <2>2. QED BY <1>2, <2>1 DEF HeldItems
<1>4. OpenPackets(v, s) \subseteq OpenPackets(w, s)
  <2>1. \A k \in PesPackets : k.pos \in Int
    BY DEF PesPackets
  <2>2. QED BY <1>1, <2>1 DEF OpenPackets
<1>5. QED BY <1>2, <1>3, <1>4, FitsMore DEF PlacedSoFar

\* The next PCR ends the bracket of what waits for it.
NextPcr(v, w, c) ==
  /\ c \in Anchors /\ c.valid /\ c.pos = w.pos
  /\ v.pos \in Nat /\ w.pos = v.pos + 1
  /\ w.pcrs = Append(v.pcrs, c) /\ w.clock = c
  /\ w.layouts = v.layouts /\ v.live /\ w.live
  /\ ~v.clock.valid => v.clock.segment < c.segment

\* The PCRs before and after it.
LEMMA NextPcrFields ==
  ASSUME NEW v, NEW w, NEW c, Timeline(v), NextPcr(v, w, c)
  PROVE  /\ Len(v.pcrs) \in Nat /\ DOMAIN v.pcrs = 1 .. Len(v.pcrs)
         /\ DOMAIN w.pcrs = 1 .. Len(v.pcrs) + 1 /\ Len(w.pcrs) = Len(v.pcrs) + 1
         /\ \A i \in DOMAIN v.pcrs : w.pcrs[i] = v.pcrs[i] /\ i < Len(v.pcrs) + 1
         /\ w.pcrs[Len(v.pcrs) + 1] = c
         /\ w.pcrs \in Seq(Anchors)
<1>1. v.pcrs \in Seq(Anchors) /\ c \in Anchors /\ w.pcrs = Append(v.pcrs, c)
  BY DEF Timeline, NextPcr
<1>2. QED BY <1>1

\* What is excused stays so when the next PCR comes.
LEMMA ExcusedAtPcr ==
  ASSUME NEW v, NEW w, NEW c, Timeline(v), NextPcr(v, w, c), NEW s, NEW o \in Int, o <= v.pos,
         \A l \in DOMAIN v.layouts : v.layouts[l].at \in Nat /\ v.layouts[l].at <= v.pos,
         Excused(v, s, o)
  PROVE  Excused(w, s, o)
<1> DEFINE k == Len(v.pcrs)
<1>1. /\ k \in Nat /\ DOMAIN v.pcrs = 1 .. k /\ DOMAIN w.pcrs = 1 .. k + 1 /\ Len(w.pcrs) = k + 1
      /\ \A i \in DOMAIN v.pcrs : w.pcrs[i] = v.pcrs[i]
      /\ w.pcrs[k + 1] = c
  BY NextPcrFields
<1>2. v.pos \in Nat /\ c.pos = v.pos + 1 /\ w.layouts = v.layouts /\ v.live
  BY DEF NextPcr
<1>3. CASE s >= MaxPendingPES
  BY <1>3 DEF Excused
<1>4. CASE ~(s >= MaxPendingPES)
  <2>1. ~AfterLast(w.pcrs, o)
    BY <1>1, <1>2 DEF AfterLast
  <2>2. ASSUME NEW i \in DOMAIN w.pcrs, Between(w.pcrs, i, o)
        PROVE  w.pcrs[i].segment # w.pcrs[i + 1].segment \/ Cut(w.layouts, o, w.pcrs[i + 1].pos)
    <3>1. CASE i + 1 <= k
      <4>1. i \in DOMAIN v.pcrs /\ Between(v.pcrs, i, o) /\ i + 1 \in DOMAIN v.pcrs
        BY <1>1, <2>2, <3>1 DEF Between
      <4>2. v.pcrs[i].segment # v.pcrs[i + 1].segment \/ Cut(v.layouts, o, v.pcrs[i + 1].pos)
        BY <1>4, <4>1 DEF Excused
      <4>3. QED BY <1>1, <1>2, <4>1, <4>2
    <3>2. CASE i = k
      <4>1. k > 0 /\ w.pcrs[k] = v.pcrs[k] /\ v.pcrs[k].pos <= o /\ w.pcrs[i + 1] = c
        BY <1>1, <2>2, <3>2 DEF Between
      <4>2. AfterLast(v.pcrs, o)
        BY <4>1 DEF AfterLast
      <4>3. ~v.clock.valid \/ \E l \in DOMAIN v.layouts : l > 1 /\ v.layouts[l].at >= o
        BY <1>2, <1>4, <4>2 DEF Excused
      <4>4. CASE ~v.clock.valid
        <5>1. v.pcrs[k].segment = v.clock.segment
          BY <4>1 DEF Timeline
        <5>2. v.clock.segment < c.segment /\ v.clock.segment \in Int /\ c.segment \in Int
          BY <4>4 DEF NextPcr, Timeline, Anchors
        <5>3. QED BY <3>2, <4>1, <5>1, <5>2
      <4>5. CASE \E l \in DOMAIN v.layouts : l > 1 /\ v.layouts[l].at >= o
        <5>1. Cut(w.layouts, o, c.pos)
          BY <1>2, <4>5 DEF Cut
        <5>2. QED BY <4>1, <5>1
      <4>6. QED BY <4>3, <4>4, <4>5
    <3>3. i + 1 \in DOMAIN w.pcrs /\ i \in Int
      BY <1>1, <2>2 DEF Between
    <3>4. QED BY <1>1, <3>1, <3>2, <3>3
  <2>3. QED BY <2>1, <2>2 DEF Excused
<1>5. QED BY <1>3, <1>4

\* What is held is placed by the next PCR.
LEMMA HeldIsPlaced ==
  ASSUME NEW v, NEW w, NEW c, Timeline(v), NextPcr(v, w, c), NEW s,
         LogItems(v, s) \subseteq LogItems(w, s),
         NEW x \in HeldItems(v, s) \cap Observations
  PROVE  Placed(x, c) \in LogItems(w, s)
<1>1. CASE ~x.place
  BY <1>1 DEF Placed, HeldItems
<1>2. CASE x.place
  <2> DEFINE y == Placed(x, c)
             k == Len(v.pcrs)
  <2>1. c \in Anchors /\ c.valid /\ c.pos = v.pos + 1 /\ v.pos \in Nat /\ w.pos = v.pos + 1
    BY DEF NextPcr
  <2>2. y \in Observations
    BY <2>1, PlacedType
  <2>3. y = [x EXCEPT !.at = ArrivalAt(x.prev, c, x.offset)] /\ x \in Observations
    BY <1>2 DEF Placed
  <2>4. y.what = x.what /\ y.offset = x.offset /\ y.at = ArrivalAt(x.prev, c, x.offset)
    BY <2>3 DEF Observations
  <2>5. /\ x.what = "ok" /\ x.offset <= v.pos
        /\ v.clock.valid /\ x.prev = v.clock /\ v.clock.pos <= x.offset
    BY <1>2 DEF HeldItems
  <2>6. k > 0 /\ v.clock = v.pcrs[k]
    BY <2>5 DEF Timeline
  <2>7. x.offset \in Int /\ v.clock.pos \in Int
    BY DEF Observations, Timeline, Anchors
  <2>8. /\ k \in Nat /\ DOMAIN v.pcrs = 1 .. k /\ DOMAIN w.pcrs = 1 .. k + 1 /\ Len(w.pcrs) = k + 1
        /\ \A i \in DOMAIN v.pcrs : w.pcrs[i] = v.pcrs[i]
        /\ w.pcrs[k + 1] = c
    BY NextPcrFields
  <2>9. Between(w.pcrs, k, x.offset) /\ k \in DOMAIN w.pcrs /\ w.pcrs[k] = v.clock
    BY <2>1, <2>5, <2>6, <2>7, <2>8 DEF Between
  <2> HIDE DEF y, k
  <2>10. CASE c.segment = v.clock.segment
    <3>1. y.at.valid
      BY <2>1, <2>4, <2>5, <2>7, <2>10 DEF ArrivalAt
    <3>2. PlacedIn(w.pcrs, y.at, y.offset)
      BY <2>4, <2>5, <2>8, <2>9, <2>10 DEF PlacedIn
    <3>3. y \in LogItems(w, s)
      BY <2>1, <2>2, <2>4, <2>5, <2>7, <3>1, <3>2 DEF LogItems
    <3>4. QED BY <3>3 DEF y
  <2>11. CASE c.segment # v.clock.segment
    <3>1. ~y.at.valid
      BY <2>4, <2>5, <2>11 DEF ArrivalAt, Unplaced
    <3>2. \A a, b \in DOMAIN w.pcrs : a < b => w.pcrs[a].pos < w.pcrs[b].pos
      <4>1. \A a, b \in DOMAIN v.pcrs : a < b => v.pcrs[a].pos < v.pcrs[b].pos
        BY DEF Timeline
      <4>2. \A a \in DOMAIN v.pcrs : v.pcrs[a].pos < c.pos
        BY <2>1, PcrTypes DEF Timeline
      <4>3. QED BY <2>8, <4>1, <4>2
    <3>3. \A j \in DOMAIN w.pcrs : Between(w.pcrs, j, x.offset) => j = k
      <4>1. ASSUME NEW j \in DOMAIN w.pcrs, Between(w.pcrs, j, x.offset), j # k PROVE FALSE
        <5>0. j \in 1 .. k + 1 /\ j + 1 \in 1 .. k + 1
          BY <2>8, <4>1 DEF Between
        <5>1. j \in 1 .. k /\ j + 1 \in 1 .. k /\ k \in 1 .. k
          BY <2>6, <2>8, <4>1, <5>0
        <5>2. w.pcrs[j + 1].pos <= w.pcrs[k].pos
          <6>1. w.pcrs[k].pos \in Int
            BY <2>7, <2>9
          <6>2. j + 1 = k \/ j + 1 < k
            BY <2>8, <5>1
          <6>3. j + 1 \in DOMAIN w.pcrs /\ k \in DOMAIN w.pcrs
            BY <2>9, <4>1 DEF Between
          <6>4. j + 1 < k => w.pcrs[j + 1].pos < w.pcrs[k].pos
            BY <3>2, <6>3
          <6>5. w.pcrs[j + 1].pos \in Int
            BY <2>8, <5>1, PcrTypes
          <6>6. QED BY <6>1, <6>2, <6>4, <6>5
        <5>3. w.pcrs[j + 1].pos \in Int
          BY <2>8, <5>1, PcrTypes
        <5>4. QED BY <2>5, <2>7, <2>9, <4>1, <5>2, <5>3 DEF Between
      <4>2. QED BY <4>1
    <3>4. ~AfterLast(w.pcrs, x.offset)
      BY <2>1, <2>5, <2>7, <2>8 DEF AfterLast
    <3>5. Excused(w, s, x.offset)
      BY <2>8, <2>9, <2>11, <3>3, <3>4 DEF Excused
    <3>6. y \in LogItems(w, s)
      BY <2>1, <2>2, <2>4, <2>5, <2>7, <3>1, <3>5 DEF LogItems
    <3>7. QED BY <3>6 DEF y
  <2>12. QED BY <2>10, <2>11
<1>3. QED BY <1>1, <1>2

\* A PES packet in progress with its bracket ended stays as it should be.
Ended(k, c) == IF k.next.valid THEN k ELSE [k EXCEPT !.next = c]

\* It is open under the new PCR.
LEMMA OpenIsEnded ==
  ASSUME NEW v, NEW w, NEW c, Timeline(v), NextPcr(v, w, c), NEW s,
         \A o \in Int : o <= v.pos /\ Excused(v, s, o) => Excused(w, s, o),
         NEW k \in OpenPackets(v, s)
  PROVE  Ended(k, c) \in OpenPackets(w, s) /\ Ended(k, c).pos = k.pos
<1> DEFINE n == Len(v.pcrs)
<1>1. c \in Anchors /\ c.valid /\ c.pos = v.pos + 1 /\ v.pos \in Nat /\ w.pos = v.pos + 1
  BY DEF NextPcr
<1>2. /\ n \in Nat /\ DOMAIN v.pcrs = 1 .. n /\ DOMAIN w.pcrs = 1 .. n + 1
      /\ \A i \in DOMAIN v.pcrs : w.pcrs[i] = v.pcrs[i]
      /\ w.pcrs[n + 1] = c
  BY NextPcrFields
<1>3. k \in PesPackets /\ k.pos \in Int /\ k.pos <= v.pos /\ k.pos <= w.pos
  BY <1>1 DEF OpenPackets, PesPackets
<1>4. ~k.prev.valid => Excused(w, s, k.pos)
  BY <1>3 DEF OpenPackets
<1>5. CASE k.next.valid
  <2>1. k.prev.valid =>
          \E i \in DOMAIN w.pcrs : /\ Between(w.pcrs, i, k.pos)
                                   /\ k.prev = w.pcrs[i] /\ k.next = w.pcrs[i + 1]
    <3>1. ASSUME k.prev.valid PROVE \E i \in DOMAIN w.pcrs : /\ Between(w.pcrs, i, k.pos)
                                   /\ k.prev = w.pcrs[i] /\ k.next = w.pcrs[i + 1]
      <4>1. PICK i \in DOMAIN v.pcrs : /\ Between(v.pcrs, i, k.pos)
                                       /\ k.prev = v.pcrs[i] /\ k.next = v.pcrs[i + 1]
        BY <1>5, <3>1 DEF OpenPackets
      <4>2. i \in DOMAIN w.pcrs /\ i + 1 \in DOMAIN v.pcrs /\ i + 1 \in DOMAIN w.pcrs
        BY <1>2, <4>1 DEF Between
      <4>3. Between(w.pcrs, i, k.pos)
        BY <1>2, <4>1, <4>2 DEF Between
      <4>4. QED BY <1>2, <4>1, <4>2, <4>3
    <3>2. QED BY <3>1
  <2>2. QED BY <1>3, <1>4, <1>5, <2>1 DEF Ended, OpenPackets
<1>6. CASE ~k.next.valid
  <2> DEFINE e == [k EXCEPT !.next = c]
  <2>1. /\ e \in PesPackets /\ e.pos = k.pos /\ e.prev = k.prev /\ e.next = c
    BY <1>1, <1>3 DEF PesPackets
  <2>2. Ended(k, c) = e
    BY <1>6 DEF Ended
  <2> HIDE DEF e
  <2>3. ASSUME k.prev.valid
        PROVE  \E i \in DOMAIN w.pcrs : /\ Between(w.pcrs, i, k.pos)
                                        /\ e.prev = w.pcrs[i] /\ e.next = w.pcrs[i + 1]
    <3>1. v.clock.valid /\ k.prev = v.clock /\ v.clock.pos <= k.pos
      BY <1>6, <2>3 DEF OpenPackets
    <3>2. n > 0 /\ v.clock = v.pcrs[n]
      BY <3>1 DEF Timeline
    <3>3. Between(w.pcrs, n, k.pos) /\ n \in DOMAIN w.pcrs /\ w.pcrs[n] = v.clock
      BY <1>1, <1>2, <1>3, <3>1, <3>2 DEF Between
    <3>4. QED BY <1>2, <2>1, <3>1, <3>3
  <2>4. QED BY <1>1, <1>3, <1>4, <2>1, <2>2, <2>3 DEF OpenPackets
<1>7. QED BY <1>5, <1>6

-------------------------------------------------------------------------------
(* A layout change, the end of the program or of the input.                  *)

\* Nothing waits for a PCR any more: the program has ended or has a new layout.
NoPcrNext(v, w) ==
  /\ v.pos \in Nat /\ w.pos = v.pos /\ w.pcrs = v.pcrs
  /\ w.clock.valid => v.clock.valid /\ w.clock = v.clock
  /\ DOMAIN v.layouts \subseteq DOMAIN w.layouts
  /\ \A l \in DOMAIN v.layouts : w.layouts[l] = v.layouts[l]
  /\ w.live => v.live /\ \E l \in DOMAIN w.layouts : l > 1 /\ w.layouts[l].at = v.pos

\* What is excused stays so.
LEMMA ExcusedWithoutPcr ==
  ASSUME NEW v, NEW w, NoPcrNext(v, w), NEW s, NEW o \in Int, Excused(v, s, o)
  PROVE  Excused(w, s, o)
<1>1. CASE s >= MaxPendingPES
  BY <1>1 DEF Excused
<1>2. CASE ~(s >= MaxPendingPES)
  <2>1. \A n : Cut(v.layouts, o, n) => Cut(w.layouts, o, n)
    BY DEF NoPcrNext, Cut
  <2>2. \A i \in DOMAIN w.pcrs :
          Between(w.pcrs, i, o) =>
            w.pcrs[i].segment # w.pcrs[i + 1].segment \/ Cut(w.layouts, o, w.pcrs[i + 1].pos)
    BY <1>2, <2>1 DEF NoPcrNext, Excused
  <2>3. w.live /\ AfterLast(w.pcrs, o) =>
          ~w.clock.valid \/ \E l \in DOMAIN w.layouts : l > 1 /\ w.layouts[l].at >= o
    BY <1>2 DEF NoPcrNext, Excused
  <2>4. QED BY <2>2, <2>3 DEF Excused
<1>3. QED BY <1>1, <1>2

\* After the last PCR nothing lies between two.
LEMMA NothingBetween ==
  ASSUME NEW v, Timeline(v), v.clock.valid, NEW o \in Int, v.clock.pos <= o
  PROVE  /\ \A i \in DOMAIN v.pcrs : ~Between(v.pcrs, i, o)
         /\ AfterLast(v.pcrs, o)
<1>1. Len(v.pcrs) > 0 /\ v.clock = v.pcrs[Len(v.pcrs)]
  BY DEF Timeline
<1>2. AfterLast(v.pcrs, o)
  BY <1>1 DEF AfterLast
<1>3. QED BY <1>2, LastIsLate

\* What is held is released without a time.
LEMMA HeldIsReleased ==
  ASSUME NEW v, NEW w, Timeline(v), NoPcrNext(v, w), NEW s,
         LogItems(v, s) \subseteq LogItems(w, s),
         NEW x \in HeldItems(v, s) \cap Observations
  PROVE  Placed(x, NoAnchor) \in LogItems(w, s)
<1>1. CASE ~x.place
  BY <1>1 DEF Placed, HeldItems
<1>2. CASE x.place
  <2> DEFINE y == Placed(x, NoAnchor)
  <2>1. y \in Observations
    BY PlacedType, NoneType
  <2>2. y = [x EXCEPT !.at = Unplaced]
    BY <1>2 DEF Placed, ArrivalAt, NoAnchor
  <2>3. y.what = x.what /\ y.offset = x.offset /\ ~y.at.valid
    BY <2>2 DEF Observations, Unplaced
  <2>4. /\ x.what = "ok" /\ x.offset <= v.pos /\ x.offset \in Int
        /\ v.clock.valid /\ v.clock.pos <= x.offset
    BY <1>2 DEF HeldItems, Observations
  <2>5. \A i \in DOMAIN v.pcrs : ~Between(v.pcrs, i, x.offset)
    BY <2>4, NothingBetween
  <2>6. Excused(w, s, x.offset)
    BY <2>4, <2>5 DEF Excused, NoPcrNext
  <2> HIDE DEF y
  <2>7. y \in LogItems(w, s)
    BY <2>1, <2>3, <2>4, <2>6 DEF LogItems, NoPcrNext
  <2>8. QED BY <2>7 DEF y
<1>3. QED BY <1>1, <1>2

\* A PES packet that stays in progress may lose the PCR before it.
Bereft(k, moved) == IF moved /\ ~k.next.valid THEN [k EXCEPT !.prev = NoAnchor] ELSE k

\* It is open under the new layout.
LEMMA OpenIsBereft ==
  ASSUME NEW v, NEW w, Timeline(v), NoPcrNext(v, w), NEW s, NEW moved \in BOOLEAN,
         IF moved THEN ~w.clock.valid ELSE w.clock = v.clock,
         NEW k \in OpenPackets(v, s)
  PROVE  Bereft(k, moved) \in OpenPackets(w, s) /\ Bereft(k, moved).pos = k.pos
<1>1. k \in PesPackets /\ k.pos \in Int /\ k.pos <= v.pos
  BY DEF OpenPackets, PesPackets
<1>2. ~k.prev.valid => Excused(w, s, k.pos)
  BY <1>1, ExcusedWithoutPcr DEF OpenPackets
<1>3. CASE moved /\ ~k.next.valid
  <2> DEFINE e == [k EXCEPT !.prev = NoAnchor]
  <2>1. e \in PesPackets /\ e.pos = k.pos /\ e.prev = NoAnchor /\ e.next = k.next
    BY <1>1, NoneType DEF PesPackets
  <2>2. Excused(w, s, k.pos)
    <3>1. CASE k.prev.valid
      <4>1. v.clock.valid /\ v.clock.pos <= k.pos
        BY <1>3, <3>1 DEF OpenPackets
      <4>2. \A i \in DOMAIN v.pcrs : ~Between(v.pcrs, i, k.pos)
        BY <1>1, <4>1, NothingBetween
      <4>3. QED BY <1>3, <4>2 DEF Excused, NoPcrNext
    <3>2. QED BY <1>2, <3>1
  <2>3. Bereft(k, moved) = e
    BY <1>3 DEF Bereft
  <2> HIDE DEF e
  <2>4. ~e.prev.valid
    BY <2>1 DEF NoAnchor
  <2>5. QED BY <1>1, <1>3, <2>1, <2>2, <2>3, <2>4 DEF OpenPackets, NoPcrNext
<1>4. CASE ~moved
  BY <1>1, <1>2, <1>4 DEF OpenPackets, NoPcrNext, Bereft
<1>5. CASE moved /\ k.next.valid
  BY <1>1, <1>2, <1>5 DEF OpenPackets, NoPcrNext, Bereft
<1>6. QED BY <1>3, <1>4, <1>5

-------------------------------------------------------------------------------
(* All of it, through the steps of one packet.                               *)

\* Everything the invariant says of a feed and the PES packets in progress.
Scanned(f, P, begun, end, at, v) ==
  /\ ScanTypes(f, P) /\ LayoutTypes(v.layouts, v.pos, f)
  /\ Sent(f, P, begun, end, at) /\ PlacedSoFar(f, P, v) /\ Judged(f, P, v.layouts)

\* The offsets of a step.
Offsets(end, at, v) == end \in Nat /\ at \in Nat /\ end <= at /\ v.pos \in Nat

\* Only PES packets are reported since.
SameBreaks(f, g) == \A r \in Reports(g) : IsPes(r) \/ r \in Reports(f)

\* A PES packet ends.
LEMMA CompletesAll ==
  ASSUME NEW f, NEW P, NEW begun, NEW end, NEW at, NEW v, Offsets(end, at, v), Timeline(v),
         Scanned(f, P, begun, end, at, v), NEW p \in DOMAIN P, NEW next \in BOOLEAN,
         NEW g, g = CompletePes(f, p, P[p], next)
  PROVE  Scanned(g, Without(P, p), begun, end, at, v) /\ SameBreaks(f, g)
<1>1. p \in Pids /\ P[p] \in PesPackets /\ BoundedFeed(f) /\ Len(f.pending) <= f.seen
      /\ ScanTypes(f, P)
  BY DEF Scanned, ScanTypes
<1>2. PICK item : CompletedAs(f, g, p, P[p], item)
  BY <1>1, CompleteItem
<1>3. Takes(f, g, item)
  BY <1>1, <1>2, CompletedTakes
<1>4. ScanTypes(g, Without(P, p))
  BY <1>1, <1>3, TypesKept
<1>5. LayoutTypes(v.layouts, v.pos, g)
  BY <1>1, <1>3, LayoutsKept DEF Scanned, Takes, Offsets
<1>6. Sent(g, Without(P, p), begun, end, at)
  BY <1>1, <1>2, SentCompletes DEF Scanned, Offsets
<1>7. PlacedSoFar(g, Without(P, p), v)
  BY <1>1, <1>2, PlacedCompletes DEF Scanned
<1>8. Judged(g, Without(P, p), v.layouts)
  BY <1>1, <1>2, JudgedCompletes DEF Scanned
<1>9. SameBreaks(f, g)
  BY <1>2, <1>3 DEF Takes, SameBreaks, CompletedAs, Report, IsPes
<1>10. QED BY <1>4, <1>5, <1>6, <1>7, <1>8, <1>9 DEF Scanned

\* A stream breaks that has no PES packet in progress.
LEMMA BreaksAll ==
  ASSUME NEW f, NEW P, NEW begun, NEW end, NEW at, NEW v, Offsets(end, at, v), Timeline(v),
         Scanned(f, P, begun, end, at, v), NEW p \in Pids, p \notin DOMAIN P,
         at > v.layouts[Len(v.layouts)].at,
         NEW cause \in {"continuity_error", "untrusted_payload"}
  PROVE  Scanned(ObserveBreak(f, p, at, cause), P, begun, end, at, v)
<1> DEFINE g == ObserveBreak(f, p, at, cause)
           ls == v.layouts
<1>1. BoundedFeed(f) /\ Len(f.pending) <= f.seen /\ ScanTypes(f, P) /\ LayoutTypes(ls, v.pos, f)
  BY DEF Scanned, ScanTypes
<1>2. cause \in BreakCauses /\ at \in Int /\ ~(cause \in Problems \cup {"incomplete_header"})
  BY DEF BreakCauses, Problems, Offsets
<1>3. PICK item \in Observations :
        /\ item.n = f.seen + 1 /\ item.pid = p /\ item.offset = at /\ item.what = cause
        /\ ~item.place /\ ~item.at.valid
        /\ g = Passed(f, item)
  BY <1>1, <1>2, BreakItem
<1>4. Takes(f, g, item)
  BY <1>1, <1>3, PassTakes
<1>5. ScanTypes(g, P)
  BY <1>1, <1>4, TypesKept
<1>6. LayoutTypes(ls, v.pos, g)
  BY <1>1, <1>4, LayoutsKept DEF Takes, Offsets
<1>7. 1 <= at
  BY <1>1, LayoutFields DEF Offsets
<1>8. Sent(g, P, begun, end, at)
  BY <1>1, <1>2, <1>3, <1>4, <1>7, SentBreaks DEF Scanned, IsPes
<1>9. PlacedSoFar(g, P, v)
  BY <1>1, <1>2, <1>3, PlacedBreaks DEF Scanned, Problems
<1>10. item \in OfThisLayout(ls)
  <2>1. InForce(ls, at) = ls[Len(ls)].types
    BY <1>1, <1>2, LastLayout
  <2>2. QED BY <1>3, <2>1 DEF OfThisLayout
<1>11. Judged(g, P, ls)
  BY <1>1, <1>3, <1>10, JudgedTakes DEF Scanned
<1> HIDE DEF g
<1>12. QED BY <1>5, <1>6, <1>8, <1>9, <1>11 DEF Scanned, g

\* A PES packet starts on a PID that has none in progress.
LEMMA StartsAll ==
  ASSUME NEW f, NEW P, NEW begun, NEW end, NEW at, NEW v, Offsets(end, at, v), Timeline(v),
         Scanned(f, P, begun, end, at, v), end < at, at = v.pos,
         at > v.layouts[Len(v.layouts)].at,
         NEW p \in Pids, p \notin DOMAIN P,
         NEW k \in PesPackets, k.pos = at, k.prev = v.clock, k.next = NoAnchor
  PROVE  Scanned(f, With(P, p, k), begun \cup {<<p, at>>}, at, at, v)
<1> DEFINE ls == v.layouts
           Q == With(P, p, k)
<1>1. ScanTypes(f, P) /\ LayoutTypes(ls, v.pos, f)
  BY DEF Scanned
<1>2. ScanTypes(f, Q)
  BY <1>1, TypesWith
<1>3. Sent(f, Q, begun \cup {<<p, at>>}, at, at)
  BY <1>1, SentStarts DEF Scanned, Offsets
<1>4. /\ DOMAIN Q = DOMAIN P \cup {p} /\ Q[p] = k
      /\ \A q \in DOMAIN P : Q[q] = P[q]
  BY DEF With
<1> HIDE DEF Q
<1>5. k \in OpenPackets(v, f.seen)
  BY StartIsOpen DEF Offsets
<1>6. PlacedSoFar(f, Q, v)
  BY <1>4, <1>5 DEF Scanned, PlacedSoFar
<1>7. InForce(ls, at) = ls[Len(ls)].types
  BY <1>1, LastLayout DEF Offsets
<1>8. Judged(f, Q, ls)
  BY <1>4, <1>7 DEF Scanned, Judged
<1>9. QED BY <1>1, <1>2, <1>3, <1>6, <1>8 DEF Scanned, Q

\* A PES packet goes on: only what it has of its header grows.
LEMMA ContinuesAll ==
  ASSUME NEW f, NEW P, NEW begun, NEW end, NEW at, NEW v,
         Scanned(f, P, begun, end, at, v), NEW Q, DOMAIN Q = DOMAIN P,
         \A p \in DOMAIN P : /\ Q[p] \in PesPackets /\ Q[p].pos = P[p].pos
                             /\ Q[p].prev = P[p].prev /\ Q[p].next = P[p].next
  PROVE  Scanned(f, Q, begun, end, at, v)
<1>1. ScanTypes(f, Q)
  BY DEF Scanned, ScanTypes
<1>2. Sent(f, Q, begun, end, at)
  BY DEF Scanned, Sent
<1>3. PlacedSoFar(f, Q, v)
  BY DEF Scanned, PlacedSoFar, OpenPackets
<1>4. Judged(f, Q, v.layouts)
  BY DEF Scanned, Judged
<1>5. QED BY <1>1, <1>2, <1>3, <1>4 DEF Scanned

\* The next packet has no PCR.
LEMMA NoPcrAll ==
  ASSUME NEW f, NEW P, NEW begun, NEW end, NEW at, NEW v, NEW w,
         Scanned(f, P, begun, end, at, v), v.pos \in Nat, w.pos = v.pos + 1,
         w.pcrs = v.pcrs, w.clock = v.clock, w.layouts = v.layouts, w.live = v.live
  PROVE  Scanned(f, P, begun, end, at, w)
<1>1. ScanTypes(f, P) /\ PlacedSoFar(f, P, v) /\ BoundedFeed(f) /\ LayoutTypes(v.layouts, v.pos, f)
  BY DEF Scanned, ScanTypes
<1>2. PlacedSoFar(f, P, w)
  BY <1>1, PacketWithoutPcr
<1>3. Longer(f, f)
  BY DEF Longer
<1>4. LayoutTypes(w.layouts, w.pos, f)
  BY <1>1, <1>3, LayoutsKept
<1>5. QED BY <1>2, <1>4 DEF Scanned

\* The next packet has a PCR.
LEMMA PcrAll ==
  ASSUME NEW f, NEW P, NEW begun, NEW end, NEW at, NEW v, NEW w, NEW c,
         Timeline(v), Scanned(f, P, begun, end, at, v), NextPcr(v, w, c),
         NEW Q, Q = [p \in DOMAIN P |-> Ended(P[p], c)]
  PROVE  Scanned(Release(f, c), Q, begun, end, at, w)
<1> DEFINE g == Release(f, c)
           s == f.seen
           ls == v.layouts
<1>1. ScanTypes(f, P) /\ LayoutTypes(ls, v.pos, f) /\ BoundedFeed(f) /\ GoodFeed(f)
  BY DEF Scanned, ScanTypes, BoundedFeed
<1>2. c \in Anchors /\ w.layouts = ls /\ v.pos \in Nat /\ w.pos = v.pos + 1
  BY DEF NextPcr
<1>3. /\ g.pending = <<>> /\ g.seen = s /\ Reports(g) = Reports(f) /\ Longer(f, g)
      /\ ScanTypes(g, P) /\ BoundedFeed(g)
  BY <1>1, <1>2, ReleaseStep, TypesReleased DEF ScanTypes
<1>4. \A l \in DOMAIN ls : ls[l].at \in Nat /\ ls[l].at <= v.pos
  BY <1>1, LayoutFields DEF LayoutTypes
<1>5. \A o \in Int : o <= v.pos /\ Excused(v, s, o) => Excused(w, s, o)
  BY <1>4, ExcusedAtPcr
<1>6. DOMAIN v.pcrs \subseteq DOMAIN w.pcrs /\ \A i \in DOMAIN v.pcrs : w.pcrs[i] = v.pcrs[i]
  BY NextPcrFields
<1>7. LogItems(v, s) \subseteq LogItems(w, s)
  BY <1>2, <1>5, <1>6, LogKept
<1>8. Fits(g, 0, HeldItems(w, s), LogItems(w, s))
  <2>1. Fits(f, 0, HeldItems(v, s), LogItems(v, s))
    BY DEF Scanned, PlacedSoFar
  <2>2. \A x \in HeldItems(v, s) \cap Observations : Placed(x, c) \in LogItems(w, s)
    BY <1>7, HeldIsPlaced
  <2>3. QED BY <1>1, <1>2, <1>7, <2>1, <2>2, ReleaseFits
<1>9. ASSUME NEW p \in DOMAIN P
      PROVE  Q[p] \in OpenPackets(w, s) /\ Q[p].pos = P[p].pos
  <2>1. P[p] \in OpenPackets(v, s)
    BY DEF Scanned, PlacedSoFar
  <2>2. QED BY <1>5, <2>1, OpenIsEnded
<1>10. Judged(g, P, ls)
  BY <1>1, <1>2, JudgedReleased DEF Scanned
<1>11. LayoutTypes(w.layouts, w.pos, g)
  BY <1>1, <1>2, <1>3, LayoutsKept
<1> HIDE DEF g
<1>12. DOMAIN Q = DOMAIN P
  OBVIOUS
<1>13. ScanTypes(g, Q)
  BY <1>3, <1>9, <1>12 DEF ScanTypes, OpenPackets
<1>14. Sent(g, Q, begun, end, at)
  BY <1>3, <1>9, <1>12 DEF Scanned, Sent
<1>15. PlacedSoFar(g, Q, w)
  BY <1>3, <1>8, <1>9, <1>12 DEF PlacedSoFar
<1>16. Judged(g, Q, w.layouts)
  BY <1>2, <1>9, <1>10, <1>12 DEF Judged
<1>17. QED BY <1>11, <1>13, <1>14, <1>15, <1>16 DEF Scanned, g

\* All that is held is released without a PCR.
LEMMA ReleasesAll ==
  ASSUME NEW f, NEW P, NEW begun, NEW end, NEW at, NEW v, NEW w,
         Timeline(v), Scanned(f, P, begun, end, at, v), NoPcrNext(v, w),
         NEW moved \in BOOLEAN, IF moved THEN ~w.clock.valid ELSE w.clock = v.clock,
         NEW Q, Q = [p \in DOMAIN P |-> Bereft(P[p], moved)], NEW g, g = Release(f, NoAnchor)
  PROVE  /\ g.pending = <<>> /\ Reports(g) = Reports(f)
         /\ ScanTypes(g, Q) /\ Sent(g, Q, begun, end, at) /\ PlacedSoFar(g, Q, w)
         /\ Judged(g, Q, v.layouts) /\ LayoutTypes(v.layouts, v.pos, g)
<1> DEFINE s == f.seen
           ls == v.layouts
<1>1. ScanTypes(f, P) /\ LayoutTypes(ls, v.pos, f) /\ BoundedFeed(f) /\ GoodFeed(f)
  BY DEF Scanned, ScanTypes, BoundedFeed
<1>2. v.pos \in Nat /\ w.pos = v.pos /\ w.pcrs = v.pcrs
  BY DEF NoPcrNext
<1>3. /\ g.pending = <<>> /\ g.seen = s /\ Reports(g) = Reports(f) /\ Longer(f, g)
      /\ ScanTypes(g, P) /\ BoundedFeed(g)
  BY <1>1, NoneType, ReleaseStep, TypesReleased DEF ScanTypes
<1>5. \A o \in Int : Excused(v, s, o) => Excused(w, s, o)
  BY ExcusedWithoutPcr
<1>7. LogItems(v, s) \subseteq LogItems(w, s)
  BY <1>2, <1>5, LogKept
<1>8. Fits(g, 0, HeldItems(w, s), LogItems(w, s))
  <2>1. Fits(f, 0, HeldItems(v, s), LogItems(v, s))
    BY DEF Scanned, PlacedSoFar
  <2>2. \A x \in HeldItems(v, s) \cap Observations : Placed(x, NoAnchor) \in LogItems(w, s)
    BY <1>7, HeldIsReleased
  <2>3. QED BY <1>1, <1>7, <2>1, <2>2, ReleaseFits, NoneType
<1>9. ASSUME NEW p \in DOMAIN P
      PROVE  Q[p] \in OpenPackets(w, s) /\ Q[p].pos = P[p].pos
  <2>1. P[p] \in OpenPackets(v, s)
    BY DEF Scanned, PlacedSoFar
  <2>2. QED BY <2>1, OpenIsBereft
<1>10. Judged(g, P, ls)
  BY <1>1, NoneType, JudgedReleased DEF Scanned
<1>11. LayoutTypes(ls, v.pos, g)
  BY <1>1, <1>2, <1>3, LayoutsKept
<1>12. DOMAIN Q = DOMAIN P
  OBVIOUS
<1>13. ScanTypes(g, Q)
  BY <1>3, <1>9, <1>12 DEF ScanTypes, OpenPackets
<1>14. Sent(g, Q, begun, end, at)
  BY <1>3, <1>9, <1>12 DEF Scanned, Sent
<1>15. PlacedSoFar(g, Q, w)
  BY <1>3, <1>8, <1>9, <1>12 DEF PlacedSoFar
<1>16. Judged(g, Q, ls)
  BY <1>9, <1>10, <1>12 DEF Judged
<1>17. QED BY <1>3, <1>11, <1>13, <1>14, <1>15, <1>16

-------------------------------------------------------------------------------
(* The PES packets of several PIDs end: induction over the PIDs.             *)

Rest(P, E) == [q \in DOMAIN P \ E |-> P[q]]

\* The PES packets of s end one after another.
EndOneByOne(g, f, P, S) ==
  \A s \in SUBSET S :
    g[s] = IF s = {} THEN f
           ELSE CompletePes(g[s \ {TakenFirst(s)}], TakenFirst(s), P[TakenFirst(s)], FALSE)

\* The recursive function whose value the fold of EndPes is.
Iter(f, packets, S) ==
  CHOOSE g : g = [s \in SUBSET S |->
                    IF s = {} THEN f
                    ELSE CompletePes(g[s \ {CHOOSE x \in s : TRUE}], CHOOSE x \in s : TRUE,
                                     packets[CHOOSE x \in s : TRUE], FALSE)]

\* The value for each set follows from the one without the PID taken out.
LEMMA EndPesUnfolds ==
  ASSUME NEW f, BoundedFeed(f), NEW P, NEW E, NEW S, S = E \cap DOMAIN P, IsFiniteSet(S),
         S \subseteq Pids, \A p \in S : P[p] \in PesPackets
  PROVE  \E g : EndPes(f, P, E) = g[S] /\ EndOneByOne(g, f, P, S)
<1> DEFINE X == {h \in Feeds : BoundedFeed(h)}
           step == [x \in S |-> [h \in X |-> CompletePes(h, x, P[x], FALSE)]]
           it == Iter(f, P, S)
<1>1. EndPes(f, P, E) = it[S]
  BY DEF EndPes, FoldSet, MapThenFoldSet, Iter
<1>2. \A h : BoundedFeed(h) => h \in Feeds
  BY DEF BoundedFeed, GoodFeed
<1>3. ASSUME NEW x \in S, NEW h \in X PROVE CompletePes(h, x, P[x], FALSE) \in X
  <2>1. PICK item : CompletedAs(h, CompletePes(h, x, P[x], FALSE), x, P[x], item)
    BY CompleteItem
  <2>2. BoundedFeed(CompletePes(h, x, P[x], FALSE))
    BY <2>1, HoldGood, PassGood DEF CompletedAs, BoundedFeed, Passed
  <2>3. QED BY <1>2, <2>2
<1>4. f \in X
  BY <1>2
<1>5. step \in [S -> [X -> X]]
  BY <1>3
<1>6. PICK g \in [SUBSET S -> X] : IsFold(g, f, step, S)
  <2> HIDE DEF X, step
  <2> QED BY <1>4, <1>5, FoldExists
<1>7. ASSUME NEW s \in SUBSET S
      PROVE  g[s] = IF s = {} THEN f
                    ELSE CompletePes(g[s \ {TakenFirst(s)}], TakenFirst(s), P[TakenFirst(s)], FALSE)
  <2>1. CASE s = {}
    BY <1>6, <2>1 DEF IsFold
  <2>2. CASE s # {}
    <3>1. TakenFirst(s) \in S /\ s \ {TakenFirst(s)} \in SUBSET S
      <4>1. TakenFirst(s) \in s
        BY <2>2, Zenon DEF TakenFirst
      <4> HIDE DEF X, step, it
      <4>2. QED BY <4>1
    <3>2. g[s] = step[TakenFirst(s)][g[s \ {TakenFirst(s)}]]
      BY <1>6, <2>2 DEF IsFold
    <3>3. g[s \ {TakenFirst(s)}] \in X
      BY <1>6, <3>1
    <3> HIDE DEF X
    <3>4. QED BY <2>2, <3>1, <3>2, <3>3
  <2>3. QED BY <2>1, <2>2
<1> DEFINE Unfolds(h) ==
             h = [s \in SUBSET S |->
                    IF s = {} THEN f
                    ELSE CompletePes(h[s \ {CHOOSE x \in s : TRUE}], CHOOSE x \in s : TRUE,
                                     P[CHOOSE x \in s : TRUE], FALSE)]
<1>8. Unfolds(g)
  <2>1. g = [s \in SUBSET S |-> g[s]]
    BY <1>6
  <2>2. \A s \in SUBSET S :
          g[s] = IF s = {} THEN f
                 ELSE CompletePes(g[s \ {CHOOSE x \in s : TRUE}], CHOOSE x \in s : TRUE,
                                  P[CHOOSE x \in s : TRUE], FALSE)
    BY <1>7 DEF TakenFirst
  <2>3. QED BY <2>1, <2>2
<1>9. Unfolds(it)
  <2>1. it = CHOOSE h : Unfolds(h)
    BY DEF Iter
  <2> HIDE DEF Unfolds, it
  <2>2. QED BY <1>8, <2>1
<1>10. EndOneByOne(it, f, P, S)
  <2> HIDE DEF it
  <2> QED BY <1>9 DEF TakenFirst, EndOneByOne
<1> HIDE DEF it
<1>11. QED BY <1>1, <1>10

\* The PES packets of a set of PIDs end.
LEMMA EndsAll ==
  ASSUME NEW f, NEW P, NEW begun, NEW end, NEW at, NEW v, Offsets(end, at, v), Timeline(v),
         Scanned(f, P, begun, end, at, v), NEW E
  PROVE  Scanned(EndPes(f, P, E), Rest(P, E), begun, end, at, v) /\ SameBreaks(f, EndPes(f, P, E))
<1>0. PICK S : S = E \cap DOMAIN P
  OBVIOUS
<1>1. /\ BoundedFeed(f) /\ S \subseteq Pids /\ S \subseteq DOMAIN P
      /\ \A p \in S : P[p] \in PesPackets
  BY <1>0 DEF Scanned, ScanTypes
<1>2. IsFiniteSet(S)
  BY <1>0, FS_Subset DEF Scanned, ScanTypes
<1>3. PICK g : EndPes(f, P, E) = g[S] /\ EndOneByOne(g, f, P, S)
  BY <1>0, <1>1, <1>2, EndPesUnfolds
<1> DEFINE T == {s \in SUBSET S : /\ Scanned(g[s], Rest(P, s), begun, end, at, v)
                                  /\ SameBreaks(f, g[s])}
<1>4. {} \in T
  <2>1. g[{}] = f
    BY <1>3 DEF EndOneByOne
  <2>2. DOMAIN Rest(P, {}) = DOMAIN P /\ \A p \in DOMAIN P : Rest(P, {})[p] = P[p]
    BY DEF Rest
  <2>3. Scanned(f, Rest(P, {}), begun, end, at, v)
    <3>1. \A p \in DOMAIN P : P[p] \in PesPackets
      BY DEF Scanned, ScanTypes
    <3>2. QED BY <2>2, <3>1, ContinuesAll
  <2>4. SameBreaks(f, f)
    BY DEF SameBreaks
  <2>5. QED BY <2>1, <2>3, <2>4
<1>5. ASSUME NEW s \in SUBSET S, s # {}, s \ {TakenFirst(s)} \in T PROVE s \in T
  <2> DEFINE p == TakenFirst(s)
             u == s \ {p}
             R == Rest(P, u)
  <2>1. p \in s /\ p \in S
    BY <1>2, <1>5, TakenOut
  <2>2. p \in DOMAIN R /\ R[p] = P[p]
    BY <1>1, <2>1 DEF Rest
  <2>3. g[s] = CompletePes(g[u], p, R[p], FALSE)
    BY <1>3, <1>5, <2>2 DEF EndOneByOne
  <2>4. Scanned(g[u], R, begun, end, at, v) /\ SameBreaks(f, g[u])
    BY <1>5
  <2>5. Without(R, p) = Rest(P, s)
    <3>1. (DOMAIN P \ u) \ {p} = DOMAIN P \ s
      BY <2>1
    <3>2. QED BY <3>1 DEF Without, Rest
  <2> HIDE DEF p, u, R
  <2>6. Scanned(g[s], Without(R, p), begun, end, at, v) /\ SameBreaks(g[u], g[s])
    BY <2>2, <2>3, <2>4, CompletesAll
  <2>7. SameBreaks(f, g[s])
    BY <2>4, <2>6 DEF SameBreaks
  <2>8. QED BY <2>5, <2>6, <2>7
<1>6. S \in T
  <2> HIDE DEF T
  <2>1. \A s \in SUBSET S : s \in T
    BY <1>2, <1>4, <1>5, SubsetInduction
  <2>2. QED BY <2>1
<1>7. Rest(P, S) = Rest(P, E)
  <2>1. DOMAIN P \ S = DOMAIN P \ E
    BY <1>0
  <2>2. QED BY <2>1 DEF Rest
<1>8. QED BY <1>3, <1>6, <1>7

-------------------------------------------------------------------------------
(* The invariant.                                                            *)

InProgress == IF phase = "finished" THEN <<>> ELSE pes

AnalyzerInv ==
  /\ pos \in Nat
  /\ phase \in {"scanning", "stopped", "finished"}
  /\ phase = "finished" => feed.pending = <<>>
  /\ phase = "scanning" => DOMAIN pes \subseteq Streams
  /\ Timeline(View)
  /\ Scanned(feed, InProgress, started, pos, pos, View)
  /\ NoPesSpansABreak

-------------------------------------------------------------------------------
(* The steps of one packet.                                                  *)

\* What is sent by an offset is sent by a later one.
LEMMA SentLater ==
  ASSUME NEW f, NEW P, NEW begun, NEW end \in Int, NEW at \in Int, NEW stop \in Int, NEW now \in Int,
         end <= stop, at <= now, ScanTypes(f, P), Sent(f, P, begun, end, at)
  PROVE  Sent(f, P, begun, stop, now)
<1>1. \A r \in Reports(f) : r.offset \in Int
  BY ReportTypes DEF ScanTypes
<1>2. \A p \in DOMAIN P : P[p].pos \in Int
  BY DEF ScanTypes, PesPackets
<1>3. QED BY <1>1, <1>2 DEF Sent

\* The context of every step of a packet.
InStep(s, begun, end, at, v) ==
  /\ Offsets(end, at, v) /\ Timeline(v) /\ at > v.layouts[Len(v.layouts)].at
  /\ Scanned(s.feed, s.pes, begun, end, at, v)

\* A loss.
LEMMA BreakPesKeeps ==
  ASSUME NEW s, NEW begun, NEW end, NEW at, NEW v, InStep(s, begun, end, at, v), NEW p,
         NEW t, t = BreakPES(s, p, at, "continuity_error")
  PROVE  InStep(t, begun, end, at, v) /\ DOMAIN t.pes \subseteq DOMAIN s.pes
<1>0. Streams \subseteq Pids
  BY DEF Streams
<1>1. CASE p \notin Streams
  BY <1>1 DEF BreakPES
<1>2. CASE p \in Streams /\ p \in DOMAIN s.pes
  <2> DEFINE g == CompletePes(s.feed, p, s.pes[p], FALSE)
             Q == Without(s.pes, p)
  <2>1. t.feed = ObserveBreak(g, p, at, "continuity_error") /\ t.pes = Q
    BY <1>2 DEF BreakPES
  <2>2. Scanned(g, Q, begun, end, at, v)
    BY <1>2, CompletesAll DEF InStep
  <2>3. DOMAIN Q = DOMAIN s.pes \ {p}
    BY DEF Without
  <2> HIDE DEF g, Q
  <2>4. Scanned(t.feed, t.pes, begun, end, at, v)
    BY <1>0, <1>2, <2>1, <2>2, <2>3, BreaksAll DEF InStep
  <2>5. QED BY <2>1, <2>3, <2>4 DEF InStep
<1>3. CASE p \in Streams /\ p \notin DOMAIN s.pes
  <2>1. t.feed = ObserveBreak(s.feed, p, at, "continuity_error") /\ t.pes = s.pes
    BY <1>3 DEF BreakPES
  <2>2. Scanned(t.feed, t.pes, begun, end, at, v)
    BY <1>0, <1>3, <2>1, BreaksAll DEF InStep
  <2>3. QED BY <2>1, <2>2 DEF InStep
<1>4. QED BY <1>1, <1>2, <1>3

\* A payload that is not trusted.
LEMMA UntrustedKeeps ==
  ASSUME NEW s, NEW begun, NEW end, NEW at, NEW v, InStep(s, begun, end, at, v), NEW p \in Streams,
         NEW t, t = ObserveUntrusted(s, p, at)
  PROVE  InStep(t, begun, end, at, v) /\ DOMAIN t.pes \subseteq DOMAIN s.pes
<1>0. p \in Pids
  BY DEF Streams
<1> DEFINE e == IF p \in DOMAIN s.pes
                  THEN [feed |-> CompletePes(s.feed, p, s.pes[p], FALSE), pes |-> Without(s.pes, p)]
                  ELSE s
<1>1. t.feed = ObserveBreak(e.feed, p, at, "untrusted_payload") /\ t.pes = e.pes
  BY DEF ObserveUntrusted, BreakPES
<1>2. /\ Scanned(e.feed, e.pes, begun, end, at, v)
      /\ p \notin DOMAIN e.pes /\ DOMAIN e.pes \subseteq DOMAIN s.pes
  <2>1. CASE p \in DOMAIN s.pes
    <3>1. e.feed = CompletePes(s.feed, p, s.pes[p], FALSE) /\ e.pes = Without(s.pes, p)
      BY <2>1
    <3>2. DOMAIN e.pes = DOMAIN s.pes \ {p}
      BY <3>1 DEF Without
    <3> HIDE DEF e
    <3>3. QED BY <2>1, <3>1, <3>2, CompletesAll DEF InStep
  <2>2. CASE p \notin DOMAIN s.pes
    BY <2>2 DEF InStep
  <2>3. QED BY <2>1, <2>2
<1> HIDE DEF e
<1>3. Scanned(t.feed, t.pes, begun, end, at, v)
  BY <1>0, <1>1, <1>2, BreaksAll DEF InStep
<1>4. QED BY <1>1, <1>2, <1>3 DEF InStep

\* A PES packet starts.
LEMMA StartKeeps ==
  ASSUME NEW s, NEW begun, NEW end, NEW at, NEW v, InStep(s, begun, end, at, v), NEW p \in Streams,
         end < at, at = v.pos, NEW header \in Headers, v.clock \in Anchors,
         NEW t, t = StartPes(s, p, at, header, v.clock)
  PROVE  /\ Scanned(t.feed, t.pes, begun \cup {<<p, at>>}, at, at, v)
         /\ DOMAIN t.pes = DOMAIN s.pes \cup {p}
<1> DEFINE k == [pos |-> at, got |-> 1, header |-> header, prev |-> v.clock, next |-> NoAnchor]
           g == IF p \in DOMAIN s.pes THEN CompletePes(s.feed, p, s.pes[p], TRUE) ELSE s.feed
           Q == Without(s.pes, p)
<1>0. p \in Pids /\ at \in Int
  BY DEF Streams, InStep, Offsets
<1>1. t.feed = g /\ t.pes = With(s.pes, p, k)
  BY DEF StartPes
<1>2. k \in PesPackets /\ k.pos = at /\ k.prev = v.clock /\ k.next = NoAnchor
  BY <1>0, NoneType DEF PesPackets
<1>3. Scanned(g, Q, begun, end, at, v)
  <2>1. CASE p \in DOMAIN s.pes
    BY <2>1, CompletesAll DEF InStep
  <2>2. CASE p \notin DOMAIN s.pes
    <3>1. DOMAIN Q = DOMAIN s.pes /\ \A q \in DOMAIN s.pes : Q[q] = s.pes[q]
      BY <2>2 DEF Without
    <3>2. \A q \in DOMAIN s.pes : s.pes[q] \in PesPackets
      BY DEF InStep, Scanned, ScanTypes
    <3>3. Scanned(s.feed, s.pes, begun, end, at, v)
      BY DEF InStep
    <3> HIDE DEF Q
    <3>4. Scanned(s.feed, Q, begun, end, at, v)
      BY <3>1, <3>2, <3>3, ContinuesAll
    <3>5. QED BY <2>2, <3>4
  <2>3. QED BY <2>1, <2>2
<1>4. p \notin DOMAIN Q /\ With(Q, p, k) = With(s.pes, p, k)
  <2>1. DOMAIN Q = DOMAIN s.pes \ {p} /\ \A q \in DOMAIN Q : Q[q] = s.pes[q]
    BY DEF Without
  <2>2. DOMAIN Q \cup {p} = DOMAIN s.pes \cup {p}
    BY <2>1
  <2> HIDE DEF Q, k
  <2>3. With(Q, p, k) = With(s.pes, p, k)
    BY <2>1, <2>2 DEF With
  <2>4. QED BY <2>1, <2>3
<1> HIDE DEF g, Q, k
<1>5. Scanned(g, With(Q, p, k), begun \cup {<<p, at>>}, at, at, v)
  BY <1>0, <1>2, <1>3, <1>4, StartsAll DEF InStep
<1>6. DOMAIN t.pes = DOMAIN s.pes \cup {p}
  BY <1>1 DEF With
<1>7. QED BY <1>1, <1>4, <1>5, <1>6

\* A PES packet goes on.
LEMMA ContinueKeeps ==
  ASSUME NEW f, NEW P, NEW begun, NEW end, NEW at, NEW v, NEW p,
         Scanned(f, P, begun, end, at, v), NEW t, t = ContinuePes([feed |-> f, pes |-> P], p)
  PROVE  Scanned(t.feed, t.pes, begun, end, at, v) /\ DOMAIN t.pes = DOMAIN P
<1>1. CASE p \notin DOMAIN P
  BY <1>1 DEF ContinuePes
<1>2. CASE p \in DOMAIN P
  <2> DEFINE Q == [P EXCEPT ![p] = [P[p] EXCEPT !.got = P[p].got + 1]]
  <2>1. t.feed = f /\ t.pes = Q
    BY <1>2 DEF ContinuePes
  <2>2. \A q \in DOMAIN P : P[q] \in PesPackets
    BY DEF Scanned, ScanTypes
  <2>3. DOMAIN Q = DOMAIN P /\ Q[p] = [P[p] EXCEPT !.got = P[p].got + 1]
        /\ \A q \in DOMAIN P \ {p} : Q[q] = P[q]
    BY <1>2
  <2>4. Q[p] \in PesPackets /\ Q[p].pos = P[p].pos /\ Q[p].prev = P[p].prev /\ Q[p].next = P[p].next
    BY <1>2, <2>2, <2>3 DEF PesPackets
  <2> HIDE DEF Q
  <2>5. ASSUME NEW q \in DOMAIN P
        PROVE  /\ Q[q] \in PesPackets /\ Q[q].pos = P[q].pos
               /\ Q[q].prev = P[q].prev /\ Q[q].next = P[q].next
    BY <2>2, <2>3, <2>4
  <2>6. Scanned(f, Q, begun, end, at, v)
    BY <2>3, <2>5, ContinuesAll
  <2>7. QED BY <2>1, <2>3, <2>6
<1>3. QED BY <1>1, <1>2

\* A scan state by its fields, and the PES packets started with a packet's payload.
IsScan(s) == s = [feed |-> s.feed, pes |-> s.pes]

StartedBy(begun, p, at, payload) ==
  IF payload = "start" /\ p \in Streams THEN begun \cup {<<p, at>>} ELSE begun

\* The payload of a packet.
LEMMA PayloadKeeps ==
  ASSUME NEW s, IsScan(s), NEW begun, NEW end, NEW at, NEW v,
         InStep(s, begun, end, at, v), end < at, at = v.pos, v.clock \in Anchors,
         NEW p, NEW payload \in {"none", "untrusted", "start", "more"}, NEW header \in Headers,
         NEW t, t = ObservePayload(s, p, at, v.clock, payload, header)
  PROVE  Scanned(t.feed, t.pes, StartedBy(begun, p, at, payload), at, at, v)
<1> DEFINE P == s.pes
           f == s.feed
           all == StartedBy(begun, p, at, payload)
<1>1. end \in Int /\ at \in Int /\ end <= at
  BY DEF InStep, Offsets
<1>2. ASSUME NEW g, NEW Q, Scanned(g, Q, begun, end, at, v)
      PROVE  Scanned(g, Q, begun, at, at, v)
  BY <1>1, <1>2, SentLater DEF Scanned
<1>3. CASE p \notin Streams \/ payload = "none"
  <2>1. t = s /\ all = begun
    BY <1>3 DEF ObservePayload, StartedBy
  <2>2. QED BY <1>1, <1>2, <2>1 DEF InStep
<1>4. CASE p \in Streams /\ payload = "untrusted"
  <2>1. t = ObserveUntrusted(s, p, at) /\ all = begun
    BY <1>4 DEF ObservePayload, StartedBy
  <2>2. InStep(t, begun, end, at, v)
    BY <1>4, <2>1, UntrustedKeeps
  <2>3. QED BY <1>1, <1>2, <2>1, <2>2 DEF InStep
<1>5. CASE p \in Streams /\ payload = "start"
  <2>1. t = StartPes(s, p, at, header, v.clock) /\ all = begun \cup {<<p, at>>}
    BY <1>5 DEF ObservePayload, StartedBy
  <2>2. QED BY <1>5, <2>1, StartKeeps
<1>6. CASE p \in Streams /\ payload = "more"
  <2>1. t = ContinuePes(s, p) /\ all = begun
    BY <1>6 DEF ObservePayload, StartedBy
  <2>2. t = ContinuePes([feed |-> f, pes |-> P], p) /\ Scanned(f, P, begun, end, at, v)
    BY <2>1 DEF IsScan, InStep
  <2> HIDE DEF f, P
  <2>3. Scanned(t.feed, t.pes, begun, end, at, v)
    BY <2>2, ContinueKeeps
  <2>4. QED BY <1>2, <2>1, <2>3
<1>7. QED BY <1>3, <1>4, <1>5, <1>6

\* It starts a PES packet on the packet's PID at most.
LEMMA PayloadPids ==
  ASSUME NEW s, IsScan(s), NEW begun, NEW end, NEW at, NEW v, InStep(s, begun, end, at, v),
         NEW p, NEW payload \in {"none", "untrusted", "start", "more"}, NEW header, NEW anchor,
         NEW t, t = ObservePayload(s, p, at, anchor, payload, header)
  PROVE  DOMAIN t.pes \subseteq DOMAIN s.pes \cup (Streams \cap {p})
<1>1. CASE p \notin Streams \/ payload = "none"
  BY <1>1 DEF ObservePayload
<1>2. CASE p \in Streams /\ payload = "untrusted"
  <2>1. t = ObserveUntrusted(s, p, at)
    BY <1>2 DEF ObservePayload
  <2>2. DOMAIN t.pes \subseteq DOMAIN s.pes
    BY <1>2, <2>1, UntrustedKeeps
  <2>3. QED BY <2>2
<1>3. CASE p \in Streams /\ payload = "start"
  <2>1. t = StartPes(s, p, at, header, anchor)
    BY <1>3 DEF ObservePayload
  <2>2. DOMAIN t.pes = DOMAIN s.pes \cup {p}
    BY <2>1 DEF StartPes, With
  <2>3. QED BY <1>3, <2>2
<1>4. CASE p \in Streams /\ payload = "more"
  <2> DEFINE f == s.feed
             P == s.pes
  <2>1. t = ContinuePes([feed |-> f, pes |-> P], p) /\ Scanned(f, P, begun, end, at, v)
    BY <1>4 DEF IsScan, InStep, ObservePayload
  <2> HIDE DEF f, P
  <2>2. DOMAIN t.pes = DOMAIN P
    BY <2>1, ContinueKeeps
  <2>3. QED BY <2>2 DEF P
<1>5. QED BY <1>1, <1>2, <1>3, <1>4

-------------------------------------------------------------------------------
(* The PCRs.                                                                 *)

\* The timeline grows by a PCR that counts on in its segment or starts the next.
LEMMA TimelineGrows ==
  ASSUME NEW v, NEW w, NEW c, Timeline(v), NextPcr(v, w, c), v.clock.segment <= c.segment,
         v.clock.segment = c.segment => v.clock.unwrapped <= c.unwrapped
  PROVE  Timeline(w)
<1> DEFINE n == Len(v.pcrs)
<1>1. /\ n \in Nat /\ DOMAIN v.pcrs = 1 .. n
      /\ DOMAIN w.pcrs = 1 .. n + 1 /\ Len(w.pcrs) = n + 1
      /\ \A i \in DOMAIN v.pcrs : w.pcrs[i] = v.pcrs[i] /\ i < n + 1
      /\ w.pcrs[n + 1] = c
      /\ w.pcrs \in Seq(Anchors)
  BY NextPcrFields
<1>2. /\ c \in Anchors /\ c.valid /\ c.pos = v.pos + 1 /\ v.pos \in Nat /\ w.pos = v.pos + 1
      /\ w.clock = c /\ (~v.clock.valid => v.clock.segment < c.segment)
  BY DEF NextPcr
<1>3. /\ c.segment \in Int /\ c.unwrapped \in Int
      /\ v.clock.segment \in Int /\ v.clock.unwrapped \in Int
  BY <1>2 DEF Timeline, Anchors
<1>4. \A i \in DOMAIN v.pcrs :
        /\ v.pcrs[i].pos \in Int /\ v.pcrs[i].segment \in Int /\ v.pcrs[i].unwrapped \in Int
        /\ v.pcrs[i].valid /\ 1 <= v.pcrs[i].pos /\ v.pcrs[i].pos <= v.pos
  BY PcrTypes DEF Timeline
<1>5. ASSUME NEW i \in DOMAIN v.pcrs
      PROVE  /\ v.pcrs[i].segment <= v.clock.segment
             /\ v.clock.valid /\ v.pcrs[i].segment = v.clock.segment =>
                  v.pcrs[i].unwrapped <= v.clock.unwrapped
  <2>1. n \in DOMAIN v.pcrs /\ n > 0 /\ (i < n \/ i = n)
    BY <1>1
  <2>2. v.pcrs[n].segment = v.clock.segment
    BY <2>1 DEF Timeline
  <2>3. v.clock.valid => v.clock = v.pcrs[n]
    BY DEF Timeline
  <2>4. i < n => /\ v.pcrs[i].segment <= v.pcrs[n].segment
                 /\ v.pcrs[i].segment = v.pcrs[n].segment =>
                      v.pcrs[i].unwrapped <= v.pcrs[n].unwrapped
    BY <2>1 DEF Timeline
  <2>5. QED BY <1>3, <1>4, <2>1, <2>2, <2>3, <2>4
<1>6. ASSUME NEW i \in DOMAIN v.pcrs
      PROVE  /\ v.pcrs[i].pos < c.pos /\ v.pcrs[i].segment <= c.segment
             /\ v.pcrs[i].segment = c.segment => v.pcrs[i].unwrapped <= c.unwrapped
  BY <1>2, <1>3, <1>4, <1>5
<1>7. ASSUME NEW i \in DOMAIN w.pcrs, NEW j \in DOMAIN w.pcrs, i < j
      PROVE  /\ w.pcrs[i].pos < w.pcrs[j].pos
             /\ w.pcrs[i].segment <= w.pcrs[j].segment
             /\ w.pcrs[i].segment = w.pcrs[j].segment =>
                  w.pcrs[i].unwrapped <= w.pcrs[j].unwrapped
  <2>1. i \in DOMAIN v.pcrs /\ w.pcrs[i] = v.pcrs[i]
    BY <1>1, <1>7
  <2>2. CASE j \in DOMAIN v.pcrs
    BY <1>1, <1>7, <2>1, <2>2 DEF Timeline
  <2>3. CASE j = n + 1
    BY <1>1, <1>6, <2>1, <2>3
  <2>4. QED BY <1>1, <2>2, <2>3
<1>8. \A i \in DOMAIN w.pcrs : w.pcrs[i].valid /\ 1 <= w.pcrs[i].pos /\ w.pcrs[i].pos <= w.pos
  <2>1. \A i \in DOMAIN w.pcrs : i \in DOMAIN v.pcrs \/ i = n + 1
    BY <1>1
  <2>2. QED BY <1>1, <1>2, <1>4, <2>1
<1>9. w.clock.valid => Len(w.pcrs) > 0 /\ w.clock = w.pcrs[Len(w.pcrs)]
  BY <1>1, <1>2
<1>10. QED BY <1>1, <1>2, <1>7, <1>8, <1>9 DEF Timeline

\* A PCR of the program is the next of its timeline.
LEMMA PcrIsNext ==
  ASSUME ClockInv, NEW move \in Moves, NEW indicated \in BOOLEAN, NEW at \in Int,
         ObservePcr(move, indicated, at)
  PROVE  /\ clock' \in Anchors /\ clock'.valid /\ clock'.pos = at
         /\ clock.segment <= clock'.segment
         /\ clock.segment = clock'.segment => clock.valid /\ clock.unwrapped <= clock'.unwrapped
         /\ ~clock.valid => clock.segment < clock'.segment
<1> DEFINE value == (prevPcr.value + move) % PCRWrapTicks
           pcr == [pid |-> pcrPid, value |-> value, discontinuity |-> Declared(indicated),
                   pidChanged |-> pcrPidChanged]
           measured == Comparable(StepKind(prevPcr, pcr))
<1>1. clock' = NextPcrAnchor(clock, value, at, measured)
  BY DEF ObservePcr
<1>2. measured => ~truth.marked
  BY MeasuredIsTrue
<1>3. measured => clock.valid
  BY <1>2 DEF ClockInv, MarksNoticed
<1>4. clock' \in Anchors /\ clock \in Anchors
  BY PcrKeeps DEF ClockInv, ClockTypes
<1>5. value \in Int
  BY ValueAfter DEF ClockInv, ClockTypes, Values
<1> HIDE DEF value, measured
<1>6. /\ clock'.valid = TRUE /\ clock'.pos = at
      /\ clock'.segment = IF measured THEN clock.segment ELSE clock.segment + 1
      /\ clock'.unwrapped = IF measured
           THEN clock.unwrapped + ((value + PCRWrapTicks - clock.pcr) % PCRWrapTicks) ELSE value
  BY <1>1 DEF NextPcrAnchor
<1>7. clock.segment \in Int /\ clock.unwrapped \in Int /\ clock.pcr \in Int
  BY <1>4 DEF Anchors
<1>8. (value + PCRWrapTicks - clock.pcr) % PCRWrapTicks \in Nat
  BY <1>5, <1>7, TimelineAssumption
<1>9. measured => clock.unwrapped <= clock'.unwrapped
  BY <1>6, <1>7, <1>8
<1>10. QED BY <1>3, <1>4, <1>6, <1>7, <1>9

-------------------------------------------------------------------------------
(* The steps keep the invariant.                                             *)

\* No PES packet in progress spans a break when its reports come before it.
LEMMA SentSpansNone ==
  ASSUME NEW f, NEW P, NEW begun, NEW end, NEW at, Sent(f, P, begun, end, at)
  PROVE  \A s \in {f.log, f.pending} : \A i \in DOMAIN s :
           s[i].what \in {"continuity_error", "untrusted_payload"} /\ s[i].pid \in DOMAIN P =>
             s[i].offset <= P[s[i].pid].pos
<1>1. ASSUME NEW s \in {f.log, f.pending}, NEW i \in DOMAIN s, s[i].pid \in DOMAIN P
      PROVE  s[i].offset <= P[s[i].pid].pos
  <2>1. Report(s[i]) \in Reports(f)
    BY <1>1 DEF Reports
  <2>2. Report(s[i]).pid = s[i].pid /\ Report(s[i]).offset = s[i].offset
    BY DEF Report
  <2>3. QED BY <1>1, <2>1, <2>2 DEF Sent
<1>2. QED BY <1>1

\* A step of one packet up to its payload: with the loss and the PCR.
LEMMA PacketKeeps ==
  ASSUME AnalyzerInv, ClockInv, NEW p, NEW lost \in BOOLEAN,
         NEW payload \in {"none", "untrusted", "start", "more"}, NEW header \in Headers,
         Packet(p, lost, payload, header)
  PROVE  AnalyzerInv' /\ ClockInv'
<1> DEFINE at == pos + 1
           s == [feed |-> feed, pes |-> pes]
           broken == IF lost THEN BreakPES(s, p, at, "continuity_error") ELSE s
           placed == IF pcrs' # pcrs THEN PlaceWith(broken, clock') ELSE broken
           after == ObservePayload(placed, p, at, clock', payload, header)
           v == View
           w == View'
<1>1. /\ phase = "scanning" /\ phase' = phase /\ layouts' = layouts
      /\ pos' = at /\ PcrPart(p, at)
      /\ feed' = after.feed /\ pes' = after.pes
      /\ started' = IF payload = "start" /\ p \in Streams THEN started \cup {<<p, at>>} ELSE started
  BY DEF Packet
<1>2. /\ pos \in Nat /\ at \in Nat /\ pos < at /\ pos <= at
      /\ Timeline(v) /\ Scanned(feed, pes, started, pos, pos, v) /\ DOMAIN pes \subseteq Streams
  BY <1>1 DEF AnalyzerInv, InProgress
<1>3. /\ v.pcrs = pcrs /\ v.clock = clock /\ v.layouts = layouts /\ v.pos = pos /\ v.live = TRUE
      /\ w.pcrs = pcrs' /\ w.clock = clock' /\ w.layouts = layouts /\ w.pos = at /\ w.live = TRUE
  BY <1>1 DEF View
<1>4. Streams' = Streams
  BY <1>1 DEF Streams, Layout
<1>5. v.pos \in Nat /\ Offsets(pos, at, v) /\ pos \in Int /\ at \in Int
  BY <1>2, <1>3 DEF Offsets
<1>6. at > layouts[Len(layouts)].at
  <2>1. LayoutTypes(layouts, pos, feed)
    BY <1>2, <1>3 DEF Scanned
  <2>2. Len(layouts) \in DOMAIN layouts /\ layouts[Len(layouts)].at \in Nat
    BY <2>1, LayoutFields
  <2>3. layouts[Len(layouts)].at <= pos
    BY <2>1, <2>2 DEF LayoutTypes
  <2>4. QED BY <1>2, <2>2, <2>3
<1> HIDE DEF v, w, at
<1>7. InStep(s, started, pos, at, v)
  <2>1. ScanTypes(feed, pes) /\ Sent(feed, pes, started, pos, pos)
    BY <1>2 DEF Scanned
  <2>2. Sent(feed, pes, started, pos, at)
    BY <1>2, <1>5, <2>1, SentLater
  <2>3. Scanned(feed, pes, started, pos, at, v)
    BY <1>2, <2>2 DEF Scanned
  <2>4. QED BY <1>2, <1>3, <1>5, <1>6, <2>3 DEF InStep
<1>8. InStep(broken, started, pos, at, v) /\ DOMAIN broken.pes \subseteq Streams
  <2>1. CASE lost
    <3>1. broken = BreakPES(s, p, at, "continuity_error")
      BY <2>1
    <3> HIDE DEF broken
    <3>2. InStep(broken, started, pos, at, v) /\ DOMAIN broken.pes \subseteq DOMAIN s.pes
      BY <1>7, <3>1, BreakPesKeeps
    <3>3. QED BY <1>2, <3>2
  <2>2. CASE ~lost
    BY <1>2, <1>7, <2>2
  <2>3. QED BY <2>1, <2>2
<1> DEFINE P == broken.pes
           f == broken.feed
<1> HIDE DEF broken, s
<1>9. Scanned(f, P, started, pos, at, v)
  BY <1>8 DEF InStep
<1>10. /\ InStep(placed, started, pos, at, w)
       /\ DOMAIN placed.pes = DOMAIN P /\ Timeline(w) /\ ClockInv'
       /\ placed = [feed |-> placed.feed, pes |-> placed.pes]
  <2>1. CASE UNCHANGED <<pcrVars, pcrs>> \/ (p = pcrPid /\ ObserveIndicator /\ UNCHANGED pcrs)
    <3>1. pcrs' = pcrs /\ clock' = clock /\ ClockInv'
      BY <2>1, OthersKeep DEF pcrVars, ObserveIndicator
    <3>2. placed = broken
      BY <3>1
    <3>3. Scanned(f, P, started, pos, at, w)
      BY <1>2, <1>3, <1>5, <1>9, <3>1, NoPcrAll DEF at
    <3>4. Timeline(w)
      <4>1. w.pcrs = v.pcrs /\ w.clock = v.clock /\ v.pos <= w.pos /\ v.pos \in Int /\ w.pos \in Int
        BY <1>2, <1>3, <1>5, <3>1
      <4>2. \A i \in DOMAIN v.pcrs : v.pcrs[i].pos \in Int
        BY <1>2, PcrTypes
      <4>3. QED BY <1>2, <4>1, <4>2 DEF Timeline
    <3>5. Offsets(pos, at, w) /\ at > w.layouts[Len(w.layouts)].at
      BY <1>2, <1>3, <1>6 DEF Offsets
    <3>6. broken = [feed |-> f, pes |-> P]
      BY DEF broken, BreakPES, s
    <3>7. QED BY <3>1, <3>2, <3>3, <3>4, <3>5, <3>6 DEF InStep
  <2>2. CASE /\ \E move \in Moves, indicated \in Indicators : ObservePcr(move, indicated, at)
             /\ pcrs' = Append(pcrs, clock')
    <3>1. PICK move \in Moves, indicated \in Indicators : ObservePcr(move, indicated, at)
      BY <2>2
    <3>2. indicated \in BOOLEAN
      BY MovesAssumption
    <3> DEFINE c == clock'
               Q == [q \in DOMAIN P |-> Ended(P[q], c)]
    <3>3. /\ c \in Anchors /\ c.valid /\ c.pos = at
          /\ clock.segment <= c.segment
          /\ clock.segment = c.segment => clock.valid /\ clock.unwrapped <= c.unwrapped
      BY <1>5, <3>1, <3>2, PcrIsNext
    <3>4. ClockInv'
      BY <1>5, <3>1, <3>2, PcrKeeps
    <3>5. clock.segment \in Int /\ c.segment \in Int /\ clock \in Anchors
      BY <3>3 DEF ClockInv, ClockTypes, Anchors
    <3>6. NextPcr(v, w, c)
      <4>1. ~clock.valid => clock.segment < c.segment
        BY <3>3, <3>5
      <4>2. QED BY <1>2, <1>3, <1>5, <2>2, <3>3, <4>1 DEF NextPcr, at
    <3>7. Timeline(w)
      BY <1>2, <1>3, <3>3, <3>6, TimelineGrows
    <3>8. pcrs' # pcrs
      <4>1. pcrs \in Seq(Anchors)
        BY <1>2, <1>3 DEF Timeline
      <4>2. Len(pcrs') = Len(pcrs) + 1 /\ Len(pcrs) \in Nat
        BY <2>2, <3>3, <4>1
      <4>3. QED BY <4>2
    <3>9. placed = [feed |-> Release(f, c), pes |-> Q]
      BY <3>8 DEF PlaceWith, Ended
    <3> HIDE DEF placed, Q
    <3>10. Scanned(Release(f, c), Q, started, pos, at, w)
      BY <1>2, <1>9, <3>6, PcrAll DEF Q
    <3>11. Offsets(pos, at, w) /\ at > w.layouts[Len(w.layouts)].at
      BY <1>2, <1>3, <1>6 DEF Offsets
    <3>12. DOMAIN Q = DOMAIN P
      BY DEF Q
    <3>13. placed.feed = Release(f, c) /\ placed.pes = Q
      BY <3>9
    <3>14. QED BY <3>4, <3>7, <3>9, <3>10, <3>11, <3>12, <3>13 DEF InStep
  <2>3. QED BY <1>1, <2>1, <2>2 DEF PcrPart
<1> HIDE DEF placed
<1>11. clock' \in Anchors
  BY <1>10 DEF ClockInv, ClockTypes
<1>12. /\ Scanned(feed', pes', started', at, at, w)
       /\ DOMAIN pes' \subseteq DOMAIN placed.pes \cup (Streams \cap {p})
  <2>1. IsScan(placed) /\ w.clock \in Anchors
    BY <1>3, <1>10, <1>11 DEF IsScan
  <2>2. at = w.pos /\ InStep(placed, started, pos, at, w) /\ pos < at
    BY <1>2, <1>3, <1>10
  <2>3. /\ after = ObservePayload(placed, p, at, w.clock, payload, header)
        /\ started' = StartedBy(started, p, at, payload)
    BY <1>1, <1>3 DEF StartedBy
  <2> HIDE DEF after
  <2>4. Scanned(after.feed, after.pes, StartedBy(started, p, at, payload), at, at, w)
    BY <2>1, <2>2, <2>3, PayloadKeeps
  <2>5. DOMAIN after.pes \subseteq DOMAIN placed.pes \cup (Streams \cap {p})
    BY <2>1, <2>2, <2>3, PayloadPids
  <2>6. QED BY <1>1, <2>3, <2>4, <2>5
<1>13. DOMAIN pes' \subseteq Streams'
  BY <1>4, <1>8, <1>10, <1>12
<1>14. InProgress' = pes'
  BY <1>1 DEF InProgress
<1>15. NoPesSpansABreak'
  <2>1. Sent(feed', pes', started', at, at)
    BY <1>12 DEF Scanned
  <2>2. QED BY <2>1, SentSpansNone DEF NoPesSpansABreak
<1>16. Scanned(feed', InProgress', started', pos', pos', View')
  BY <1>1, <1>12, <1>14 DEF w
<1>17. QED BY <1>1, <1>2, <1>10, <1>13, <1>15, <1>16 DEF AnalyzerInv, w, at

\* The timeline of a program without a new PCR.
LEMMA TimelineKept ==
  ASSUME NEW v, NEW w, Timeline(v), w.pcrs = v.pcrs, w.pos = v.pos, w.clock \in Anchors,
         w.clock.segment = v.clock.segment, w.clock.valid => w.clock = v.clock
  PROVE  Timeline(w)
BY DEF Timeline

\* A new layout.
LEMMA SetLayoutKeeps ==
  ASSUME AnalyzerInv, ClockInv, NEW types \in Layouts, NEW newPcrPid \in PcrPids,
         SetLayout(types, newPcrPid)
  PROVE  AnalyzerInv' /\ ClockInv'
<1> DEFINE ended == {p \in Streams : types[p] # Layout[p]}
           moved == newPcrPid # pcrPid
           f == EndPes(feed, pes, ended)
           R == Rest(pes, ended)
           Q == [p \in DOMAIN R |-> Bereft(R[p], moved)]
           g == Release(f, NoAnchor)
           v == View
           w == View'
           r == [at |-> pos, logged |-> Len(g.log), types |-> types]
<1>1. /\ phase = "scanning" /\ phase' = phase /\ pos' = pos /\ pcrs' = pcrs /\ started' = started
      /\ SetPcrPid(newPcrPid)
      /\ pes' = KeptPes(ended, newPcrPid)
      /\ feed' = g /\ layouts' = Append(layouts, r)
  BY DEF SetLayout, EndedFeed
<1>2. /\ pos \in Nat /\ Timeline(v) /\ Scanned(feed, pes, started, pos, pos, v)
      /\ DOMAIN pes \subseteq Streams
  BY <1>1 DEF AnalyzerInv, InProgress
<1>3. pes' = Q
  BY <1>1 DEF KeptPes, Rest, Bereft
<1>4. /\ v.pcrs = pcrs /\ v.clock = clock /\ v.layouts = layouts /\ v.pos = pos /\ v.live = TRUE
      /\ w.pcrs = pcrs /\ w.clock = clock' /\ w.layouts = layouts' /\ w.pos = pos /\ w.live = TRUE
  BY <1>1 DEF View
<1>5. ClockInv'
  BY <1>1, OthersKeep
<1>6. /\ clock \in Anchors /\ clock' \in Anchors /\ clock'.segment = clock.segment
      /\ IF moved THEN ~clock'.valid ELSE clock' = clock
  <2>1. clock \in Anchors /\ clock' \in Anchors /\ clock.segment \in Int
    BY <1>5 DEF ClockInv, ClockTypes, Anchors
  <2>2. CASE moved
    <3>1. clock' = [NoAnchor EXCEPT !.segment = clock.segment]
      BY <1>1, <2>2 DEF SetPcrPid
    <3>2. QED BY <2>1, <2>2, <3>1, NoAnchorIn
  <2>3. CASE ~moved
    BY <1>1, <2>1, <2>3 DEF SetPcrPid, pcrVars
  <2>4. QED BY <2>2, <2>3
<1>7. \A p \in DOMAIN R : p \in Streams /\ types[p] = Layout[p] /\ R[p] = pes[p]
  BY <1>2 DEF Rest
<1>8. Layout = layouts[Len(layouts)].types
  BY DEF Layout
<1>9. moved \in BOOLEAN
  OBVIOUS
<1> HIDE DEF v, w, f, R, g, ended, moved
<1>10. Scanned(f, R, started, pos, pos, v)
  <2>1. Offsets(pos, pos, v)
    BY <1>2, <1>4 DEF Offsets
  <2>2. QED BY <1>2, <2>1, EndsAll DEF f, R
<1>11. LayoutTypes(layouts, pos, f)
  BY <1>4, <1>10 DEF Scanned
<1>12. /\ Len(layouts) \in Nat \ {0} /\ DOMAIN layouts = 1 .. Len(layouts)
       /\ layouts \in Seq(LayoutRecords)
  BY <1>11, LayoutFields DEF LayoutTypes
<1>13. /\ DOMAIN layouts' = 1 .. Len(layouts) + 1 /\ Len(layouts') = Len(layouts) + 1
       /\ \A l \in DOMAIN layouts : layouts'[l] = layouts[l]
       /\ layouts'[Len(layouts) + 1] = r
  BY <1>1, <1>12
<1>14. NoPcrNext(v, w)
  <2>1. Len(layouts) + 1 \in DOMAIN layouts' /\ Len(layouts) + 1 > 1
    BY <1>12, <1>13
  <2>2. layouts'[Len(layouts) + 1].at = v.pos
    BY <1>4, <1>13
  <2>3. DOMAIN layouts \subseteq DOMAIN layouts'
    BY <1>12, <1>13
  <2>4. QED BY <1>2, <1>4, <1>6, <1>13, <2>1, <2>2, <2>3 DEF NoPcrNext
<1>15. /\ g.pending = <<>> /\ ScanTypes(g, Q) /\ Sent(g, Q, started, pos, pos)
       /\ PlacedSoFar(g, Q, w) /\ Judged(g, Q, layouts) /\ LayoutTypes(layouts, pos, g)
  <2>1. IF moved THEN ~w.clock.valid ELSE w.clock = v.clock
    BY <1>4, <1>6
  <2>2. Q = [p \in DOMAIN R |-> Bereft(R[p], moved)] /\ g = Release(f, NoAnchor)
    BY DEF g
  <2> HIDE DEF Q
  <2>3. /\ g.pending = <<>> /\ ScanTypes(g, Q) /\ Sent(g, Q, started, pos, pos)
        /\ PlacedSoFar(g, Q, w) /\ Judged(g, Q, v.layouts) /\ LayoutTypes(v.layouts, v.pos, g)
    BY <1>2, <1>9, <1>10, <1>14, <2>1, <2>2, ReleasesAll
  <2>4. QED BY <1>4, <2>3
<1>16. DOMAIN Q = DOMAIN R
  OBVIOUS
<1> HIDE DEF Q, r
<1>17. \A p \in DOMAIN Q :
         types[p] = layouts[Len(layouts)].types[p] /\ 1 <= Q[p].pos /\ Q[p].pos <= pos
  BY <1>7, <1>8, <1>15, <1>16 DEF Sent
<1>18. \A k \in DOMAIN g.log : 1 <= g.log[k].offset /\ g.log[k].offset <= pos
  <2>1. ASSUME NEW k \in DOMAIN g.log PROVE 1 <= g.log[k].offset /\ g.log[k].offset <= pos
    <3>1. Report(g.log[k]) \in Reports(g) /\ Report(g.log[k]).offset = g.log[k].offset
      BY DEF Reports, Report
    <3>2. QED BY <1>15, <3>1 DEF Sent
  <2>2. QED BY <2>1
<1>19. Judged(g, Q, layouts') /\ LayoutTypes(layouts', pos, g)
  BY <1>1, <1>2, <1>15, <1>17, <1>18, JudgedLayout DEF r
<1>20. Scanned(g, Q, started, pos, pos, w)
  BY <1>4, <1>15, <1>19 DEF Scanned
<1>21. Timeline(w)
  BY <1>2, <1>4, <1>6, TimelineKept
<1>22. DOMAIN pes' \subseteq Streams'
  <2>1. Layout' = types
    <3>1. r.types = types
      BY DEF r
    <3>2. QED BY <1>13, <3>1 DEF Layout
  <2>2. Streams' = {p \in Pids : types[p] # "none"}
    BY <2>1 DEF Streams
  <2>3. \A p \in DOMAIN R : p \in Pids /\ types[p] # "none"
    BY <1>7 DEF Streams
  <2>4. QED BY <1>3, <1>16, <2>2, <2>3
<1>23. NoPesSpansABreak'
  BY <1>1, <1>3, <1>15, SentSpansNone DEF NoPesSpansABreak
<1>24. InProgress' = Q
  BY <1>1, <1>3 DEF InProgress
<1>25. Scanned(feed', InProgress', started', pos', pos', View')
  BY <1>1, <1>20, <1>24 DEF w
<1>26. QED BY <1>1, <1>2, <1>5, <1>21, <1>22, <1>23, <1>25 DEF AnalyzerInv, w

\* Every PES packet in progress ends and all that is held is released.
LEMMA EmptiedKeeps ==
  ASSUME AnalyzerInv, phase # "finished", feed' = EndedFeed(DOMAIN pes),
         phase' \in {"stopped", "finished"}, UNCHANGED <<pos, pcrVars, layouts, pcrs, started>>
  PROVE  /\ Timeline(View') /\ Scanned(feed', <<>>, started, pos, pos, View')
         /\ feed'.pending = <<>> /\ SameBreaks(feed, feed')
<1> DEFINE f == EndPes(feed, pes, DOMAIN pes)
           R == Rest(pes, DOMAIN pes)
           Q == [p \in DOMAIN R |-> Bereft(R[p], FALSE)]
           g == Release(f, NoAnchor)
           v == View
           w == View'
<1>1. /\ pos' = pos /\ clock' = clock /\ layouts' = layouts /\ pcrs' = pcrs /\ started' = started
      /\ feed' = g
  BY DEF pcrVars, EndedFeed
<1>2. pos \in Nat /\ Timeline(v) /\ Scanned(feed, pes, started, pos, pos, v)
  BY DEF AnalyzerInv, InProgress
<1>3. /\ v.pcrs = pcrs /\ v.clock = clock /\ v.layouts = layouts /\ v.pos = pos
      /\ w.pcrs = pcrs /\ w.clock = clock /\ w.layouts = layouts /\ w.pos = pos /\ w.live = FALSE
  BY <1>1 DEF View
<1>4. clock \in Anchors
  BY <1>2, <1>3 DEF Timeline
<1>5. DOMAIN R = {}
  BY DEF Rest
<1> HIDE DEF v, w, f, R, g
<1>6. Scanned(f, R, started, pos, pos, v) /\ SameBreaks(feed, f)
  <2>1. Offsets(pos, pos, v)
    BY <1>2, <1>3 DEF Offsets
  <2>2. QED BY <1>2, <2>1, EndsAll DEF f, R
<1>7. NoPcrNext(v, w)
  BY <1>2, <1>3 DEF NoPcrNext
<1>8. /\ g.pending = <<>> /\ Reports(g) = Reports(f)
      /\ ScanTypes(g, Q) /\ Sent(g, Q, started, pos, pos) /\ PlacedSoFar(g, Q, w)
      /\ Judged(g, Q, v.layouts) /\ LayoutTypes(v.layouts, v.pos, g)
  <2>1. PICK moved \in BOOLEAN : moved = FALSE
    OBVIOUS
  <2>2. Q = [p \in DOMAIN R |-> Bereft(R[p], moved)] /\ g = Release(f, NoAnchor)
    BY <2>1 DEF g
  <2>3. IF moved THEN ~w.clock.valid ELSE w.clock = v.clock
    BY <1>3, <2>1
  <2> HIDE DEF Q
  <2>4. QED BY <1>2, <1>6, <1>7, <2>2, <2>3, ReleasesAll
<1>9. Scanned(g, Q, started, pos, pos, w)
  BY <1>3, <1>8 DEF Scanned
<1>10. DOMAIN Q = {} /\ DOMAIN <<>> = {}
  BY <1>5
<1> HIDE DEF Q
<1>11. Scanned(g, <<>>, started, pos, pos, w)
  BY <1>9, <1>10, ContinuesAll
<1>12. Timeline(w)
  BY <1>2, <1>3, <1>4, TimelineKept
<1>13. SameBreaks(feed, g)
  BY <1>6, <1>8 DEF SameBreaks
<1>14. QED BY <1>1, <1>8, <1>11, <1>12, <1>13 DEF w

\* The program is no longer in the PAT.
LEMMA StopKeeps ==
  ASSUME AnalyzerInv, ClockInv, Stop
  PROVE  AnalyzerInv' /\ ClockInv'
<1>1. /\ phase # "finished" /\ feed' = EndedFeed(DOMAIN pes) /\ phase' = "stopped" /\ pes' = <<>>
      /\ UNCHANGED <<pos, pcrVars, layouts, pcrs, started>>
  BY DEF Stop
<1>2. /\ Timeline(View') /\ Scanned(feed', <<>>, started, pos, pos, View')
      /\ feed'.pending = <<>>
  BY <1>1, EmptiedKeeps
<1>3. ClockInv'
  BY <1>1, OthersKeep
<1>4. InProgress' = <<>> /\ DOMAIN <<>> = {}
  BY <1>1 DEF InProgress
<1>5. NoPesSpansABreak'
  BY <1>1, <1>4 DEF NoPesSpansABreak
<1>6. Scanned(feed', InProgress', started', pos', pos', View')
  BY <1>1, <1>2, <1>4
<1>7. pos' \in Nat
  BY <1>1 DEF AnalyzerInv
<1>8. QED BY <1>1, <1>2, <1>3, <1>5, <1>6, <1>7 DEF AnalyzerInv

\* The input has ended.
LEMMA FinishKeeps ==
  ASSUME AnalyzerInv, ClockInv, Finish
  PROVE  AnalyzerInv' /\ ClockInv'
<1>1. /\ phase # "finished" /\ feed' = EndedFeed(DOMAIN pes) /\ phase' = "finished" /\ pes' = pes
      /\ UNCHANGED <<pos, pcrVars, layouts, pcrs, started>>
  BY DEF Finish
<1>2. /\ Timeline(View') /\ Scanned(feed', <<>>, started, pos, pos, View')
      /\ feed'.pending = <<>> /\ SameBreaks(feed, feed')
  BY <1>1, EmptiedKeeps
<1>3. ClockInv'
  BY <1>1, OthersKeep
<1>4. InProgress' = <<>>
  BY <1>1 DEF InProgress
<1>5. NoPesSpansABreak'
  <2>1. Sent(feed, pes, started, pos, pos)
    BY <1>1 DEF AnalyzerInv, InProgress, Scanned
  <2>2. ASSUME NEW s \in {feed'.log, feed'.pending}, NEW i \in DOMAIN s,
               s[i].what \in {"continuity_error", "untrusted_payload"}, s[i].pid \in DOMAIN pes
        PROVE  s[i].offset <= pes[s[i].pid].pos
    <3> DEFINE r == Report(s[i])
    <3>1. r \in Reports(feed') /\ r.pid = s[i].pid /\ r.offset = s[i].offset /\ r.what = s[i].what
      BY DEF Reports, Report
    <3> HIDE DEF r
    <3>2. ~IsPes(r)
      BY <2>2, <3>1 DEF IsPes, Problems
    <3>3. r \in Reports(feed)
      BY <1>2, <3>1, <3>2 DEF SameBreaks
    <3>4. QED BY <2>1, <2>2, <3>1, <3>3 DEF Sent
  <2>3. QED BY <1>1, <2>2 DEF NoPesSpansABreak
<1>6. Scanned(feed', InProgress', started', pos', pos', View')
  BY <1>1, <1>2, <1>4
<1>7. pos' \in Nat
  BY <1>1 DEF AnalyzerInv
<1>8. QED BY <1>1, <1>2, <1>3, <1>5, <1>6, <1>7 DEF AnalyzerInv

\* A new program.
LEMMA AnalyzerInvInit == Init => AnalyzerInv /\ ClockInv
<1> SUFFICES ASSUME Init PROVE AnalyzerInv /\ ClockInv
  OBVIOUS
<1> DEFINE v == View
<1>1. /\ pos = 0 /\ clock = NoAnchor /\ feed = NewPESFeed /\ pes = <<>> /\ phase = "scanning"
      /\ pcrs = <<>> /\ started = {} /\ PcrInit
  BY DEF Init, PcrInit
<1>2. PICK types \in Layouts : layouts = <<[at |-> 0, logged |-> 0, types |-> types]>>
  BY DEF Init
<1>3. v.pcrs = <<>> /\ v.clock = NoAnchor /\ v.layouts = layouts /\ v.pos = 0
  BY <1>1 DEF View
<1> HIDE DEF v
<1>4. Timeline(v)
  BY <1>3, NoneType DEF Timeline, NoAnchor
<1>5. /\ BoundedFeed(feed) /\ feed.pending = <<>> /\ feed.log = <<>> /\ feed.seen = 0
      /\ Reports(feed) = {}
  <2>1. BoundedFeed(feed)
    BY <1>1, FeedInitInv DEF FeedInit, FeedInv
  <2>2. feed.pending = <<>> /\ feed.log = <<>> /\ feed.seen = 0
    BY <1>1 DEF NewPESFeed
  <2>3. QED BY <2>1, <2>2 DEF Reports
<1>6. ScanTypes(feed, <<>>)
  <2>1. DOMAIN <<>> = {} /\ IsFiniteSet({}) /\ Len(<<>>) = 0
    BY FS_EmptySet
  <2>2. QED BY <1>5, <2>1 DEF ScanTypes
<1>7. LayoutTypes(layouts, 0, feed)
  <2> DEFINE r == [at |-> 0, logged |-> 0, types |-> types]
  <2>1. r \in LayoutRecords /\ r.at = 0 /\ r.logged = 0
    BY DEF LayoutRecords
  <2>2. layouts = <<r>>
    BY <1>2
  <2> HIDE DEF r
  <2>3. /\ layouts \in Seq(LayoutRecords) /\ Len(layouts) = 1 /\ DOMAIN layouts = {1}
        /\ layouts[1] = r
    BY <2>1, <2>2
  <2>4. Len(feed.log) = 0
    BY <1>5
  <2>5. QED BY <2>1, <2>3, <2>4 DEF LayoutTypes
<1>8. Sent(feed, <<>>, {}, 0, 0)
  BY <1>5 DEF Sent
<1>9. PlacedSoFar(feed, <<>>, v)
  BY <1>5 DEF PlacedSoFar, Fits
<1>10. Judged(feed, <<>>, layouts)
  BY <1>5 DEF Judged, Fits
<1>11. Scanned(feed, InProgress, started, pos, pos, v)
  BY <1>1, <1>3, <1>6, <1>7, <1>8, <1>9, <1>10 DEF Scanned, InProgress
<1>12. NoPesSpansABreak
  BY <1>5 DEF NoPesSpansABreak
<1>13. DOMAIN pes \subseteq Streams
  BY <1>1
<1>14. ClockInv
  BY <1>1, ClockInvInit
<1>15. QED BY <1>1, <1>4, <1>11, <1>12, <1>13, <1>14 DEF AnalyzerInv, v

\* Every step keeps it.
LEMMA AnalyzerInvNext ==
  AnalyzerInv /\ ClockInv /\ [Next]_analyzerVars => AnalyzerInv' /\ ClockInv'
<1> SUFFICES ASSUME AnalyzerInv, ClockInv, [Next]_analyzerVars PROVE AnalyzerInv' /\ ClockInv'
  OBVIOUS
<1>1. ASSUME NEW p \in Pids \cup PcrPids, NEW lost \in BOOLEAN,
             NEW payload \in {"none", "untrusted", "start", "more"}, NEW header \in Headers,
             Packet(p, lost, payload, header)
      PROVE  AnalyzerInv' /\ ClockInv'
  BY <1>1, PacketKeeps
<1>2. ASSUME NEW types \in Layouts, NEW newPcrPid \in PcrPids, SetLayout(types, newPcrPid)
      PROVE  AnalyzerInv' /\ ClockInv'
  BY <1>2, SetLayoutKeeps
<1>3. CASE Stop
  BY <1>3, StopKeeps
<1>4. CASE Finish
  BY <1>4, FinishKeeps
<1>5. CASE UNCHANGED analyzerVars
  <2>1. /\ View' = View /\ InProgress' = InProgress /\ Streams' = Streams
        /\ pos' = pos /\ phase' = phase /\ feed' = feed /\ pes' = pes /\ started' = started
        /\ UNCHANGED pcrVars
    BY <1>5 DEF analyzerVars, View, InProgress, Streams, Layout, pcrVars
  <2>2. NoPesSpansABreak'
    BY <2>1 DEF AnalyzerInv, NoPesSpansABreak
  <2>3. QED BY <2>1, <2>2, OthersKeep DEF AnalyzerInv
<1>6. QED BY <1>1, <1>2, <1>3, <1>4, <1>5 DEF Next

\* The invariant always holds.
LEMMA AlwaysAnalyzerInv == Spec => [](AnalyzerInv /\ ClockInv)
BY AnalyzerInvInit, AnalyzerInvNext, PTL DEF Spec

-------------------------------------------------------------------------------
(* What the invariant says.                                                  *)

\* The PES packets of a PID reach the check in the order of their offsets.
LEMMA LogGoesForward ==
  ASSUME AnalyzerInv, NEW i \in DOMAIN Log, NEW j \in DOMAIN Log, i < j,
         IsPes(Log[i]), IsPes(Log[j]), Log[i].pid = Log[j].pid
  PROVE  Log[i].offset < Log[j].offset
<1> DEFINE P == InProgress
<1>1. Sent(feed, P, started, pos, pos) /\ InOrder(feed)
  BY DEF AnalyzerInv, Scanned, ScanTypes, BoundedFeed, GoodFeed
<1>2. Log[i].n < Log[j].n
  BY <1>1 DEF InOrder, Log
<1>3. ASSUME NEW k \in DOMAIN Log
      PROVE  /\ Report(Log[k]) \in Reports(feed)
             /\ Report(Log[k]).pid = Log[k].pid /\ Report(Log[k]).offset = Log[k].offset
             /\ Report(Log[k]).n = Log[k].n /\ IsPes(Report(Log[k])) = IsPes(Log[k])
  BY DEF Report, Reports, IsPes, Log
<1>4. Report(Log[i]).offset < Report(Log[j]).offset
  BY <1>1, <1>2, <1>3 DEF Sent
<1>5. QED BY <1>3, <1>4

\* Of the log one item is about each PES packet at most.
LEMMA StartsOnce == AnalyzerInv => StartsReportedOnce
<1> SUFFICES ASSUME AnalyzerInv PROVE StartsReportedOnce
  OBVIOUS
<1> DEFINE P == InProgress
<1>1. ScanTypes(feed, P) /\ Sent(feed, P, started, pos, pos)
  BY DEF AnalyzerInv, Scanned
<1>2. BoundedFeed(feed) /\ GoodFeed(feed) /\ InOrder(feed)
  BY <1>1 DEF ScanTypes, BoundedFeed, GoodFeed
<1>3. /\ Log \in Seq(Observations) /\ feed.pending \in Seq(Observations) /\ Log = feed.log
      /\ DOMAIN Log = 1 .. Len(Log) /\ Len(Log) \in Nat
      /\ \A i \in DOMAIN Log : Log[i] \in Observations
  BY <1>2, FeedParts DEF Log
<1>4. \A x \in Observations : x.offset \in Int /\ x.n \in Nat
  BY DEF Observations
<1>5. ASSUME NEW i \in DOMAIN Log
      PROVE  /\ Report(Log[i]) \in Reports(feed)
             /\ Report(Log[i]).pid = Log[i].pid /\ Report(Log[i]).offset = Log[i].offset
             /\ Report(Log[i]).n = Log[i].n /\ IsPes(Report(Log[i])) = IsPes(Log[i])
  BY <1>3 DEF Report, Reports, IsPes
<1>6. ASSUME NEW i \in DOMAIN Log, IsPes(Log[i])
      PROVE  <<Log[i].pid, Log[i].offset>> \in started
  <2>1. Report(Log[i]) \in Reports(feed) /\ IsPes(Report(Log[i]))
    BY <1>5, <1>6
  <2>2. <<Report(Log[i]).pid, Report(Log[i]).offset>> \in started
    BY <1>1, <2>1 DEF Sent
  <2>3. QED BY <1>5, <2>2
<1>7. ASSUME NEW i \in DOMAIN Log, NEW j \in DOMAIN Log, i < j, IsPes(Log[i]), IsPes(Log[j]),
             Log[i].pid = Log[j].pid
      PROVE  Log[i].offset < Log[j].offset
  BY <1>7, LogGoesForward
<1>8. ASSUME NEW s \in started
      PROVE  LET reports == {i \in DOMAIN Log :
                               IsPes(Log[i]) /\ Log[i].pid = s[1] /\ Log[i].offset = s[2]}
             IN Cardinality(reports) <= 1 /\ (phase = "finished" => reports # {})
  <2> DEFINE reports == {i \in DOMAIN Log :
                           IsPes(Log[i]) /\ Log[i].pid = s[1] /\ Log[i].offset = s[2]}
  <2>1. ASSUME NEW i \in reports, NEW j \in reports PROVE i = j
    <3>1. i \in Int /\ j \in Int /\ Log[i].offset \in Int /\ Log[j].offset = Log[i].offset
      BY <1>3, <1>4
    <3>2. ~(i < j) /\ ~(j < i)
      BY <1>7, <3>1
    <3>3. QED BY <3>1, <3>2
  <2>2. Cardinality(reports) <= 1
    <3> HIDE DEF reports
    <3>1. CASE reports = {}
      BY <3>1, FS_EmptySet
    <3>2. CASE reports # {}
      <4>1. PICK i : i \in reports
        BY <3>2
      <4>2. reports = {i}
        BY <2>1, <4>1
      <4>3. QED BY <4>2, FS_Singleton
    <3>3. QED BY <3>1, <3>2
  <2>3. ASSUME phase = "finished" PROVE reports # {}
    <3>1. DOMAIN P = {} /\ feed.pending = <<>>
      BY <2>3 DEF AnalyzerInv, InProgress
    <3> HIDE DEF P
    <3>2. PICK r \in Reports(feed) : IsPes(r) /\ r.pid = s[1] /\ r.offset = s[2]
      BY <1>1, <3>1 DEF Sent
    <3>3. PICK i \in DOMAIN Log : r = Report(Log[i])
      BY <1>3, <3>1, <3>2 DEF Reports
    <3>4. i \in reports
      BY <1>5, <3>2, <3>3
    <3>5. QED BY <3>4
  <2>4. QED BY <2>2, <2>3
<1>9. QED BY <1>6, <1>8 DEF StartsReportedOnce

\* What has reached the check is judged as its type.
LEMMA JudgedByInv == AnalyzerInv => JudgedAsItsType
<1> SUFFICES ASSUME AnalyzerInv, NEW k \in DOMAIN Log
             PROVE  LayoutOfCheck(k)[Log[k].pid] = LayoutAt(Log[k].offset)[Log[k].pid]
  BY DEF JudgedAsItsType
<1> DEFINE P == InProgress
           ls == layouts
           x == feed.log[k]
<1>1. ScanTypes(feed, P) /\ Judged(feed, P, ls) /\ LayoutTypes(ls, pos, feed)
  BY DEF AnalyzerInv, Scanned, View
<1>2. k \in Int /\ x \in Observations /\ ls[Len(ls)].logged \in Int
  <2>1. feed.log \in Seq(Observations)
    BY <1>1, FeedParts DEF ScanTypes, BoundedFeed
  <2>2. QED BY <1>1, <2>1, LayoutFields DEF Log
<1>3. LayoutOfCheck(k) = Known(ls, k) /\ LayoutAt(x.offset) = InForce(ls, x.offset)
  BY DEF LayoutOfCheck, LayoutAt, Known, InForce
<1>4. Known(ls, k)[x.pid] = InForce(ls, x.offset)[x.pid]
  <2>1. CASE k <= ls[Len(ls)].logged
    BY <1>1, <2>1 DEF Judged, Log
  <2>2. CASE k > ls[Len(ls)].logged
    <3>1. x \in OfThisLayout(ls)
      BY <1>1, <2>2 DEF Judged, Fits, Log
    <3>2. Known(ls, k) = ls[Len(ls)].types
      BY <1>1, <1>2, <2>2, LastLayout
    <3>3. QED BY <3>1, <3>2 DEF OfThisLayout
  <2>3. QED BY <1>2, <2>1, <2>2
<1>5. QED BY <1>3, <1>4 DEF Log

-------------------------------------------------------------------------------
(* Times between two PCRs.                                                   *)

\* Whole division.
LEMMA DivPart ==
  ASSUME NEW x \in Int, NEW b \in Nat \ {0}
  PROVE  x \div b \in Int /\ b * (x \div b) <= x /\ x < b * (x \div b) + b
OBVIOUS

\* A product grows with its factor.
LEMMA ProductMonotone ==
  ASSUME NEW d \in Nat, NEW x \in Int, NEW y \in Int, x <= y
  PROVE  d * x <= d * y /\ d * x \in Int /\ d * y \in Int
OBVIOUS

\* A quotient grows with the number divided.
LEMMA DivMonotone ==
  ASSUME NEW x \in Int, NEW y \in Int, x <= y, NEW b \in Nat \ {0}
  PROVE  x \div b <= y \div b
<1> DEFINE p == x \div b
           q == y \div b
<1>1. p \in Int /\ q \in Int /\ b * p <= x /\ y < b * q + b
  BY DivPart
<1> HIDE DEF p, q
<1>2. SUFFICES ASSUME q + 1 <= p PROVE FALSE
  BY <1>1 DEF p, q
<1>3. b * (q + 1) <= b * p
  BY <1>1, <1>2, ProductMonotone
<1>4. b * (q + 1) = b * q + b
  BY <1>1
<1>5. b * p \in Int /\ b * q \in Int
  BY <1>1
<1>6. QED BY <1>1, <1>3, <1>4, <1>5

\* A whole multiple is divided without a rest.
LEMMA DivWhole ==
  ASSUME NEW d \in Nat, NEW b \in Nat \ {0}
  PROVE  (d * b) \div b = d /\ 0 \div b = 0 /\ d * 0 = 0
OBVIOUS

\* The share of an interval that has passed at an offset grows from none to all of it.
LEMMA ShareBetween ==
  ASSUME NEW d \in Nat, NEW b \in Nat \ {0}, NEW x \in Nat, NEW y \in Nat, x <= y, y <= b
  PROVE  /\ (d * x) \div b \in Int /\ (d * y) \div b \in Int
         /\ 0 <= (d * x) \div b /\ (d * x) \div b <= (d * y) \div b /\ (d * y) \div b <= d
<1>1. /\ d * x \in Int /\ d * y \in Int /\ d * b \in Int
      /\ d * 0 <= d * x /\ d * x <= d * y /\ d * y <= d * b
  BY ProductMonotone
<1>2. /\ 0 \div b <= (d * x) \div b
      /\ (d * x) \div b <= (d * y) \div b /\ (d * y) \div b <= (d * b) \div b
  BY <1>1, DivMonotone, DivWhole
<1>3. QED BY <1>1, <1>2, DivPart, DivWhole

\* The times of two offsets between two PCRs.
LEMMA TimesBetween ==
  ASSUME NEW c \in Anchors, NEW e \in Anchors, c.valid, e.valid, c.segment = e.segment,
         c.unwrapped <= e.unwrapped,
         NEW o \in Int, NEW u \in Int, c.pos <= o, o <= u, u < e.pos
  PROVE  /\ ArrivalAt(c, e, o).segment = c.segment /\ ArrivalAt(c, e, u).segment = c.segment
         /\ ArrivalAt(c, e, o).ticks \in Int /\ ArrivalAt(c, e, u).ticks \in Int
         /\ c.unwrapped <= ArrivalAt(c, e, o).ticks
         /\ ArrivalAt(c, e, o).ticks <= ArrivalAt(c, e, u).ticks
         /\ ArrivalAt(c, e, u).ticks <= e.unwrapped
<1> DEFINE d == e.unwrapped - c.unwrapped
           b == e.pos - c.pos
           x == o - c.pos
           y == u - c.pos
<1>1. c.unwrapped \in Int /\ e.unwrapped \in Int /\ c.pos \in Int /\ e.pos \in Int
  BY DEF Anchors
<1>2. d \in Nat /\ b \in Nat \ {0} /\ x \in Nat /\ y \in Nat /\ x <= y /\ y <= b
  BY <1>1
<1>3. /\ ArrivalAt(c, e, o).ticks = c.unwrapped + ((d * x) \div b)
      /\ ArrivalAt(c, e, u).ticks = c.unwrapped + ((d * y) \div b)
      /\ ArrivalAt(c, e, o).segment = c.segment /\ ArrivalAt(c, e, u).segment = c.segment
  BY <1>1 DEF ArrivalAt
<1>4. d = e.unwrapped - c.unwrapped
  OBVIOUS
<1> HIDE DEF d, b, x, y
<1>5. /\ (d * x) \div b \in Int /\ (d * y) \div b \in Int
      /\ 0 <= (d * x) \div b /\ (d * x) \div b <= (d * y) \div b /\ (d * y) \div b <= d
  BY <1>2, ShareBetween
<1>6. QED BY <1>1, <1>2, <1>3, <1>4, <1>5

\* A placed item of the log: its PCRs, and its time between theirs.
LEMMA PlacedItem ==
  ASSUME AnalyzerInv, NEW k \in DOMAIN Log, Log[k].at.valid
  PROVE  \E i \in DOMAIN pcrs :
           /\ Between(pcrs, i, Log[k].offset)
           /\ pcrs[i].segment = pcrs[i + 1].segment
           /\ Log[k].at = ArrivalAt(pcrs[i], pcrs[i + 1], Log[k].offset)
           /\ pcrs[i] \in Anchors /\ pcrs[i + 1] \in Anchors
           /\ pcrs[i].valid /\ pcrs[i + 1].valid
           /\ pcrs[i].unwrapped <= pcrs[i + 1].unwrapped
           /\ Log[k].offset \in Int /\ IsPes(Log[k])
<1> DEFINE v == View
           P == InProgress
<1>1. ScanTypes(feed, P) /\ PlacedSoFar(feed, P, v) /\ Timeline(v) /\ v.pcrs = pcrs
  BY DEF AnalyzerInv, Scanned, View
<1> HIDE DEF v, P
<1>2. feed.log \in Seq(Observations)
  BY <1>1, FeedParts DEF ScanTypes, BoundedFeed
<1>3. k \in Nat \ {0} /\ Log[k] \in Observations
  BY <1>2 DEF Log
<1>4. Log[k] \in LogItems(v, feed.seen)
  BY <1>1, <1>3 DEF PlacedSoFar, Fits, Log
<1>5. Log[k].what = "ok" /\ PlacedIn(pcrs, Log[k].at, Log[k].offset)
  BY <1>1, <1>4 DEF LogItems
<1>6. PICK i \in DOMAIN pcrs :
        /\ Between(pcrs, i, Log[k].offset)
        /\ pcrs[i].segment = pcrs[i + 1].segment
        /\ Log[k].at = ArrivalAt(pcrs[i], pcrs[i + 1], Log[k].offset)
  BY <1>5 DEF PlacedIn
<1>7. i + 1 \in DOMAIN pcrs /\ i \in Int /\ pcrs[i] \in Anchors /\ pcrs[i + 1] \in Anchors
  BY <1>1, <1>6, PcrTypes DEF Between
<1>8. i < i + 1 /\ pcrs[i].valid /\ pcrs[i + 1].valid
  BY <1>1, <1>7 DEF Timeline
<1>9. pcrs[i].unwrapped <= pcrs[i + 1].unwrapped
  BY <1>1, <1>6, <1>7, <1>8 DEF Timeline
<1>10. Log[k].offset \in Int /\ IsPes(Log[k])
  BY <1>3, <1>5 DEF Observations, IsPes, Problems
<1>11. QED BY <1>6, <1>7, <1>8, <1>9, <1>10

\* A placed item lies between two consecutive PCRs of its segment.
LEMMA BetweenByInv == AnalyzerInv => PlacedBetweenPcrs
<1> SUFFICES ASSUME AnalyzerInv, NEW k \in DOMAIN Log, Log[k].at.valid
             PROVE  \E i \in DOMAIN pcrs :
                      /\ Bracketed(i, Log[k].offset)
                      /\ pcrs[i].segment = pcrs[i + 1].segment
                      /\ pcrs[i].segment = Log[k].at.segment
                      /\ Log[k].at.ticks \in pcrs[i].unwrapped .. pcrs[i + 1].unwrapped
  BY DEF PlacedBetweenPcrs
<1> DEFINE o == Log[k].offset
<1>1. PICK i \in DOMAIN pcrs :
        /\ Between(pcrs, i, o) /\ pcrs[i].segment = pcrs[i + 1].segment
        /\ Log[k].at = ArrivalAt(pcrs[i], pcrs[i + 1], o)
        /\ pcrs[i] \in Anchors /\ pcrs[i + 1] \in Anchors
        /\ pcrs[i].valid /\ pcrs[i + 1].valid
        /\ pcrs[i].unwrapped <= pcrs[i + 1].unwrapped /\ o \in Int
  BY PlacedItem
<1>2. Bracketed(i, o) /\ pcrs[i].pos <= o /\ o < pcrs[i + 1].pos /\ o <= o
  BY <1>1 DEF Between, Bracketed
<1> HIDE DEF o
<1>3. /\ ArrivalAt(pcrs[i], pcrs[i + 1], o).segment = pcrs[i].segment
      /\ ArrivalAt(pcrs[i], pcrs[i + 1], o).ticks \in Int
      /\ pcrs[i].unwrapped <= ArrivalAt(pcrs[i], pcrs[i + 1], o).ticks
      /\ ArrivalAt(pcrs[i], pcrs[i + 1], o).ticks <= pcrs[i + 1].unwrapped
  BY <1>1, <1>2, TimesBetween
<1>4. pcrs[i].unwrapped \in Int /\ pcrs[i + 1].unwrapped \in Int
  BY <1>1 DEF Anchors
<1>5. Log[k].at.ticks \in pcrs[i].unwrapped .. pcrs[i + 1].unwrapped
  BY <1>1, <1>3, <1>4
<1>6. QED BY <1>1, <1>2, <1>3, <1>5 DEF o

\* Every packet that could be placed is.
LEMMA WheneverByInv == AnalyzerInv => PlacedWheneverPossible
<1> SUFFICES ASSUME AnalyzerInv, NEW k \in DOMAIN Log, NEW i \in DOMAIN pcrs,
                    Log[k].what = "ok", Bracketed(i, Log[k].offset),
                    pcrs[i].segment = pcrs[i + 1].segment,
                    ~CutByLayout(Log[k].offset, pcrs[i + 1].pos), feed.seen < MaxPendingPES,
                    ~Log[k].at.valid
             PROVE  FALSE
  BY DEF PlacedWheneverPossible
<1> DEFINE v == View
           P == InProgress
           o == Log[k].offset
<1>1. /\ ScanTypes(feed, P) /\ PlacedSoFar(feed, P, v)
      /\ v.pcrs = pcrs /\ v.layouts = layouts
  BY DEF AnalyzerInv, Scanned, View
<1>2. Between(pcrs, i, o) /\ ~Cut(layouts, o, pcrs[i + 1].pos)
  BY DEF Between, Bracketed, Cut, CutByLayout
<1> HIDE DEF v, P
<1>3. feed.log \in Seq(Observations) /\ feed.seen \in Nat
  BY <1>1, FeedParts DEF ScanTypes, BoundedFeed
<1>4. k \in Nat \ {0}
  BY <1>3 DEF Log
<1>5. Log[k] \in LogItems(v, feed.seen)
  BY <1>1, <1>4 DEF PlacedSoFar, Fits, Log
<1>6. Excused(v, feed.seen, o)
  BY <1>5 DEF LogItems
<1>7. ~(feed.seen >= MaxPendingPES)
  BY <1>3, FeedAssumption
<1>8. QED BY <1>1, <1>2, <1>6, <1>7 DEF Excused

\* Times of one PID and segment never go back.
LEMMA ForwardByInv == AnalyzerInv => ArrivalsNeverGoBack
<1> SUFFICES ASSUME AnalyzerInv, NEW i \in DOMAIN Log, NEW j \in DOMAIN Log, i < j,
                    Log[i].pid = Log[j].pid, Log[i].at.valid, Log[j].at.valid,
                    Log[i].at.segment = Log[j].at.segment
             PROVE  Log[i].at.ticks <= Log[j].at.ticks
  BY DEF ArrivalsNeverGoBack
<1> DEFINE o == Log[i].offset
           u == Log[j].offset
           v == View
<1>1. PICK a \in DOMAIN pcrs :
        /\ Between(pcrs, a, o) /\ pcrs[a].segment = pcrs[a + 1].segment
        /\ Log[i].at = ArrivalAt(pcrs[a], pcrs[a + 1], o)
        /\ pcrs[a] \in Anchors /\ pcrs[a + 1] \in Anchors
        /\ pcrs[a].valid /\ pcrs[a + 1].valid
        /\ pcrs[a].unwrapped <= pcrs[a + 1].unwrapped /\ o \in Int /\ IsPes(Log[i])
  BY PlacedItem
<1>2. PICK b \in DOMAIN pcrs :
        /\ Between(pcrs, b, u) /\ pcrs[b].segment = pcrs[b + 1].segment
        /\ Log[j].at = ArrivalAt(pcrs[b], pcrs[b + 1], u)
        /\ pcrs[b] \in Anchors /\ pcrs[b + 1] \in Anchors
        /\ pcrs[b].valid /\ pcrs[b + 1].valid
        /\ pcrs[b].unwrapped <= pcrs[b + 1].unwrapped /\ u \in Int /\ IsPes(Log[j])
  BY PlacedItem
<1>3. o < u
  BY <1>1, <1>2, LogGoesForward
<1>4. Timeline(v) /\ v.pcrs = pcrs
  BY DEF AnalyzerInv, View
<1> HIDE DEF v, o, u
<1>5. /\ a \in Int /\ b \in Int /\ a + 1 \in DOMAIN pcrs /\ b + 1 \in DOMAIN pcrs
      /\ pcrs[a].pos <= o /\ o < pcrs[a + 1].pos /\ pcrs[b].pos <= u /\ u < pcrs[b + 1].pos
  BY <1>1, <1>2, <1>4, PcrTypes DEF Between
<1>6. \A n \in DOMAIN pcrs : pcrs[n].pos \in Int /\ pcrs[n].unwrapped \in Int
  BY <1>4, PcrTypes
<1>7. /\ ArrivalAt(pcrs[a], pcrs[a + 1], o).segment = pcrs[a].segment
      /\ ArrivalAt(pcrs[a], pcrs[a + 1], o).ticks \in Int
      /\ ArrivalAt(pcrs[a], pcrs[a + 1], o).ticks <= pcrs[a + 1].unwrapped
  BY <1>1, <1>5, TimesBetween
<1>8. /\ ArrivalAt(pcrs[b], pcrs[b + 1], u).segment = pcrs[b].segment
      /\ ArrivalAt(pcrs[b], pcrs[b + 1], u).ticks \in Int
      /\ pcrs[b].unwrapped <= ArrivalAt(pcrs[b], pcrs[b + 1], u).ticks
  BY <1>2, <1>5, TimesBetween
<1>9. pcrs[a].segment = pcrs[b].segment
  BY <1>1, <1>2, <1>7, <1>8
<1>10. CASE a = b
  <2>1. ArrivalAt(pcrs[a], pcrs[a + 1], o).ticks <= ArrivalAt(pcrs[a], pcrs[a + 1], u).ticks
    BY <1>1, <1>2, <1>3, <1>5, <1>10, TimesBetween
  <2>2. QED BY <1>1, <1>2, <1>10, <2>1
<1>11. CASE a < b
  <2>1. a + 1 = b \/ a + 1 < b
    BY <1>5, <1>11
  <2>2. pcrs[a + 1].unwrapped <= pcrs[b].unwrapped
    <3>1. CASE a + 1 = b
      BY <1>5, <1>6, <3>1
    <3>2. CASE a + 1 < b
      BY <1>1, <1>4, <1>5, <1>9, <3>2 DEF Timeline
    <3>3. QED BY <2>1, <3>1, <3>2
  <2>3. QED BY <1>1, <1>2, <1>5, <1>6, <1>7, <1>8, <2>2
<1>12. CASE b < a
  <2>1. b + 1 = a \/ b + 1 < a
    BY <1>5, <1>12
  <2>2. pcrs[b + 1].pos <= pcrs[a].pos
    <3>1. CASE b + 1 = a
      BY <1>5, <1>6, <3>1
    <3>2. CASE b + 1 < a
      BY <1>4, <1>5, <1>6, <3>2 DEF Timeline
    <3>3. QED BY <2>1, <3>1, <3>2
  <2>3. QED BY <1>1, <1>2, <1>3, <1>5, <1>6, <2>2
<1>13. QED BY <1>5, <1>10, <1>11, <1>12

-------------------------------------------------------------------------------
\* The time of the last PCR is the time of the sender's clock.
THEOREM AnalyzerClockIsTrue == Spec => []ClockIsTrue
<1>1. AnalyzerInv /\ ClockInv => ClockIsTrue
  BY DEF ClockInv
<1>2. QED BY <1>1, AlwaysAnalyzerInv, PTL

\* The check sees the observations of a PID in stream order.
THEOREM AnalyzerInStreamOrder == Spec => []InStreamOrder
<1>1. AnalyzerInv /\ ClockInv => InStreamOrder
  BY DEF AnalyzerInv, Scanned, ScanTypes, BoundedFeed, GoodFeed, InStreamOrder
<1>2. QED BY <1>1, AlwaysAnalyzerInv, PTL

\* Every PES packet is reported as it was sent, once.
THEOREM PesReportedAsSent == Spec => []ReportedAsSent
<1>1. AnalyzerInv /\ ClockInv => ReportedAsSent
  BY StartsOnce DEF AnalyzerInv, ReportedAsSent
<1>2. QED BY <1>1, AlwaysAnalyzerInv, PTL

\* A PES packet is judged as the stream type it was sent with.
THEOREM PesJudgedAsItsType == Spec => []JudgedAsItsType
<1>1. AnalyzerInv /\ ClockInv => JudgedAsItsType
  BY JudgedByInv
<1>2. QED BY <1>1, AlwaysAnalyzerInv, PTL

\* A PES packet has a time exactly when the stream gives it one, and the right one.
THEOREM PesPlacedExactly == Spec => []PlacedExactly
<1>1. AnalyzerInv /\ ClockInv => PlacedExactly
  BY BetweenByInv, WheneverByInv, ForwardByInv DEF PlacedExactly
<1>2. QED BY <1>1, AlwaysAnalyzerInv, PTL

-------------------------------------------------------------------------------
(* The clock of the PSI health check.                                        *)

CheckFields == {"steps", "running", "offset", "elapsed", "segments", "measured", "tables"}

CollectorFields ==
  {"check", "programs", "collecting", "lastPcrPid", "pcrPidChanged", "discontinuityPending",
   "finished"}

\* What an observation of a table leaves as it is.
ClockKept(c, d) ==
  DOMAIN d = CheckFields /\ d.steps = c.steps /\ d.segments = c.segments

-------------------------------------------------------------------------------
(* Observations of tables: one, and a fold of them.                          *)

\* The three kinds of observation that are made for a set of tables.
Change(kind, arg, n, c) ==
  IF kind = "withdrawn" THEN ObserveWithdrawn(c, n)
  ELSE IF kind = "announced" THEN ObserveAnnounced(c, n, arg[n])
  ELSE ObserveProblem(c, n, arg)

\* Such an observation, and that of an instance, leave the clock as it is.
LEMMA TablesOnly ==
  ASSUME NEW c, DOMAIN c = CheckFields, NEW n
  PROVE  /\ \A kind, arg : ClockKept(c, Change(kind, arg, n, c))
         /\ \A pid, at : ClockKept(c, ObserveInstance(c, n, pid, at))
<1>1. ASSUME NEW t PROVE ClockKept(c, SetTable(c, n, t))
  BY DEF ClockKept, SetTable, CheckFields
<1>2. ClockKept(c, c)
  BY DEF ClockKept
<1>3. ASSUME NEW kind, NEW arg PROVE ClockKept(c, Change(kind, arg, n, c))
  BY <1>1, <1>2 DEF Change, ObserveWithdrawn, ObserveAnnounced, ObserveProblem
<1>4. ASSUME NEW pid, NEW at PROVE ClockKept(c, ObserveInstance(c, n, pid, at))
  BY <1>1, <1>2 DEF ObserveInstance
<1>5. QED BY <1>3, <1>4

\* A value for each subset of the tables, from the one without the table taken out.
Unfolds(g, kind, arg, c, S) ==
  g = [s \in SUBSET S |->
         IF s = {} THEN c
         ELSE Change(kind, arg, TakenFirst(s), g[s \ {TakenFirst(s)}])]

\* There is one: for the subsets of each size, from those of the size before.
LEMMA ChangesUnfold ==
  ASSUME NEW S, IsFiniteSet(S), NEW c, NEW kind, NEW arg
  PROVE  \E g : Unfolds(g, kind, arg, c, S)
<1> DEFINE Each(g, n) ==
             g = [s \in SmallSubsets(S, n) |->
                    IF s = {} THEN c
                    ELSE Change(kind, arg, TakenFirst(s), g[s \ {TakenFirst(s)}])]
           Q == {n \in Nat : \E g : Each(g, n)}
<1>0. \A s \in SUBSET S : IsFiniteSet(s) /\ Cardinality(s) \in Nat /\ (Cardinality(s) = 0 <=> s = {})
  BY FS_Subset, FS_CardinalityType, FS_EmptySet
<1>1. 0 \in Q
  <2> DEFINE g == [s \in SmallSubsets(S, 0) |-> c]
  <2>1. \A s \in SmallSubsets(S, 0) : s = {}
    BY <1>0 DEF SmallSubsets
  <2>2. Each(g, 0)
    BY <2>1
  <2> HIDE DEF g
  <2>3. QED BY <2>2
<1>2. ASSUME NEW n \in Nat, n \in Q PROVE n + 1 \in Q
  <2>1. PICK g : Each(g, n)
    BY <1>2
  <2> DEFINE h == [s \in SmallSubsets(S, n + 1) |->
                     IF s = {} THEN c
                     ELSE Change(kind, arg, TakenFirst(s), g[s \ {TakenFirst(s)}])]
  <2>2. ASSUME NEW s \in SmallSubsets(S, n + 1), s # {}
        PROVE  s \ {TakenFirst(s)} \in SmallSubsets(S, n)
    BY <2>2, TakenOut DEF SmallSubsets
  <2>3. SmallSubsets(S, n) \subseteq SmallSubsets(S, n + 1)
    BY <1>0 DEF SmallSubsets
  <2>4. ASSUME NEW s \in SmallSubsets(S, n) PROVE h[s] = g[s]
    <3>1. h[s] = IF s = {} THEN c
                 ELSE Change(kind, arg, TakenFirst(s), g[s \ {TakenFirst(s)}])
      BY <2>3
    <3>2. g[s] = IF s = {} THEN c
                 ELSE Change(kind, arg, TakenFirst(s), g[s \ {TakenFirst(s)}])
      BY <2>1
    <3>3. QED BY <3>1, <3>2
  <2>5. Each(h, n + 1)
    BY <2>2, <2>4
  <2> HIDE DEF h, Each
  <2>6. QED BY <2>5
<1>3. \A n \in Nat : n \in Q
  <2> HIDE DEF Q
  <2> QED BY <1>1, <1>2, SetInduction
<1>4. Cardinality(S) \in Nat /\ SmallSubsets(S, Cardinality(S)) = SUBSET S
  BY FS_Subset, FS_CardinalityType DEF SmallSubsets
<1>5. PICK g : Each(g, Cardinality(S))
  BY <1>3, <1>4
<1>6. QED BY <1>4, <1>5 DEF Unfolds

\* Observations of a set of tables leave the clock as it is.
LEMMA ChangesKeepClock ==
  ASSUME NEW S, IsFiniteSet(S), NEW c, DOMAIN c = CheckFields, NEW kind, NEW arg, NEW g,
         Unfolds(g, kind, arg, c, S)
  PROVE  ClockKept(c, g[S])
<1> DEFINE T == {s \in SUBSET S : ClockKept(c, g[s])}
<1>1. {} \in T
  BY DEF Unfolds, ClockKept
<1>2. ASSUME NEW s \in SUBSET S, s # {}, s \ {TakenFirst(s)} \in T PROVE s \in T
  <2> DEFINE d == g[s \ {TakenFirst(s)}]
  <2>1. ClockKept(c, d)
    BY <1>2
  <2>2. g[s] = Change(kind, arg, TakenFirst(s), d)
    BY <1>2 DEF Unfolds
  <2> HIDE DEF d
  <2>3. ClockKept(d, g[s])
    BY <2>1, <2>2, TablesOnly DEF ClockKept
  <2>4. QED BY <2>1, <2>3 DEF ClockKept
<1> HIDE DEF T
<1>3. S \in T
  BY <1>1, <1>2, SubsetInduction
<1>4. QED BY <1>3 DEF T

ChangesIter(kind, arg, c, S) == CHOOSE g : Unfolds(g, kind, arg, c, S)

\* Observations of several tables leave the clock as it is.
LEMMA FoldKeepsClock ==
  ASSUME NEW S, IsFiniteSet(S), NEW c, DOMAIN c = CheckFields
  PROVE  /\ ClockKept(c, WithdrawAll(c, S))
         /\ \A programs : ClockKept(c, AnnounceAll(c, S, programs))
         /\ \A problem : ClockKept(c, ObserveProblems(c, S, problem))
<1>1. ASSUME NEW kind, NEW arg PROVE ClockKept(c, ChangesIter(kind, arg, c, S)[S])
  <2>1. Unfolds(ChangesIter(kind, arg, c, S), kind, arg, c, S)
    BY ChangesUnfold DEF ChangesIter
  <2>2. QED BY <2>1, ChangesKeepClock
<1>2. WithdrawAll(c, S) = ChangesIter("withdrawn", 0, c, S)[S]
  BY DEF WithdrawAll, FoldSet, MapThenFoldSet, ChangesIter, Unfolds, Change, TakenFirst
<1>3. ASSUME NEW programs PROVE AnnounceAll(c, S, programs) = ChangesIter("announced", programs, c, S)[S]
  BY DEF AnnounceAll, FoldSet, MapThenFoldSet, ChangesIter, Unfolds, Change, TakenFirst
<1>4. ASSUME NEW problem PROVE ObserveProblems(c, S, problem) = ChangesIter("problem", problem, c, S)[S]
  BY DEF ObserveProblems, FoldSet, MapThenFoldSet, ChangesIter, Unfolds, Change, TakenFirst
<1>5. QED BY <1>1, <1>2, <1>3, <1>4

-------------------------------------------------------------------------------
(* The collector.                                                            *)

CollectorTypes(h) ==
  /\ DOMAIN h = CollectorFields /\ DOMAIN h.check = CheckFields
  /\ DOMAIN h.programs \subseteq Programs
  /\ h.collecting \subseteq Tables

\* Both have the same segments and the same last PCR, if there was one.
SameTimeline(h) ==
  /\ h.check.segments = clock.segment
  /\ h.check.steps.valid = prevPcr.valid
  /\ prevPcr.valid => h.check.steps.pid = prevPcr.pid /\ h.check.steps.value = prevPcr.value

\* Both know the same of what has happened since.
SameMarks(h) ==
  h.pcrPidChanged = pcrPidChanged /\ h.discontinuityPending = discontinuityPending

\* The first PCR is classified as the first whatever was noted before it.  After it, a
\* PCR_PID the collector has not read yet is a mark of its own, and the only one left.
HealthInv ==
  /\ CollectorTypes(health) /\ SameTimeline(health)
  /\ prevPcr.valid =>
       IF health.lastPcrPid = pcrPid THEN SameMarks(health)
                                     ELSE pcrPidChanged = TRUE /\ discontinuityPending = FALSE

\* The collector as it is when it has read the PCR_PID of a packet.
UpToDate(h) ==
  /\ CollectorTypes(h) /\ SameTimeline(h)
  /\ h.lastPcrPid = pcrPid /\ (prevPcr.valid => SameMarks(h))

\* Reading the PCR_PID brings the collector up to date.
LEMMA FollowingIsUpToDate ==
  ASSUME HealthInv
  PROVE  /\ UpToDate(FollowPcrPid(health))
         /\ FollowPcrPid(health).programs = health.programs
         /\ FollowPcrPid(health).collecting = health.collecting
<1> DEFINE h == FollowPcrPid(health)
<1>1. CASE pcrPid = health.lastPcrPid
  <2>1. h = health
    BY <1>1 DEF FollowPcrPid
  <2> HIDE DEF h
  <2>2. QED BY <1>1, <2>1 DEF HealthInv, UpToDate, h
<1>2. CASE pcrPid # health.lastPcrPid
  <2>1. /\ DOMAIN h = CollectorFields /\ h.check = health.check
        /\ h.programs = health.programs /\ h.collecting = health.collecting
        /\ h.lastPcrPid = pcrPid /\ h.pcrPidChanged = TRUE /\ h.discontinuityPending = FALSE
    BY <1>2 DEF HealthInv, CollectorTypes, CollectorFields, FollowPcrPid
  <2> HIDE DEF h
  <2>2. CollectorTypes(h) /\ SameTimeline(h)
    BY <2>1 DEF HealthInv, CollectorTypes, SameTimeline
  <2>3. prevPcr.valid => SameMarks(h)
    BY <1>2, <2>1 DEF HealthInv, SameMarks
  <2>4. QED BY <2>1, <2>2, <2>3 DEF UpToDate, h
<1>3. QED BY <1>1, <1>2

\* It stays so when only tables, programs or what is collected change.
LEMMA UpToDateKept ==
  ASSUME NEW h, UpToDate(h), UNCHANGED pcrVars, CollectorTypes(health'),
         ClockKept(h.check, health'.check), health'.lastPcrPid = h.lastPcrPid,
         health'.pcrPidChanged = h.pcrPidChanged,
         health'.discontinuityPending = h.discontinuityPending
  PROVE  HealthInv'
<1>1. SameTimeline(health)'
  BY DEF UpToDate, SameTimeline, ClockKept, pcrVars
<1>2. QED BY <1>1 DEF UpToDate, HealthInv, SameMarks, pcrVars, CollectorTypes, Tables

\* A set of tables that is given is finite.
LEMMA TablesFinite ==
  ASSUME NEW S, S \subseteq Tables
  PROVE  IsFiniteSet(S)
<1>1. IsFiniteSet(Tables)
  BY RepetitionAssumption, FS_AddElement, FS_Singleton, FS_Union DEF Tables
<1>2. QED BY <1>1, FS_Subset

\* So does a change of the tables between two packets.
LEMMA InvKept ==
  ASSUME HealthInv, UNCHANGED pcrVars, CollectorTypes(health'),
         ClockKept(health.check, health'.check), health'.lastPcrPid = health.lastPcrPid,
         health'.pcrPidChanged = health.pcrPidChanged,
         health'.discontinuityPending = health.discontinuityPending
  PROVE  HealthInv'
<1>1. SameTimeline(health)'
  BY DEF HealthInv, SameTimeline, ClockKept, pcrVars
<1>2. QED BY <1>1 DEF HealthInv, SameMarks, pcrVars, CollectorTypes, Tables

\* Counting a problem of several tables changes only those.
LEMMA CountingKeeps ==
  ASSUME NEW h, CollectorTypes(h), NEW S, S \subseteq Tables, NEW kind
  PROVE  /\ CollectorTypes(CountProblem(h, S, kind))
         /\ ClockKept(h.check, CountProblem(h, S, kind).check)
         /\ \A f \in CollectorFields \ {"check"} : CountProblem(h, S, kind)[f] = h[f]
<1> DEFINE g == CountProblem(h, S, kind)
<1>1. /\ g.check = ObserveProblems(h.check, S, kind) /\ DOMAIN g = CollectorFields
      /\ \A f \in CollectorFields \ {"check"} : g[f] = h[f]
  BY DEF CollectorTypes, CollectorFields, CountProblem
<1>2. ClockKept(h.check, g.check)
  BY <1>1, FoldKeepsClock, TablesFinite DEF CollectorTypes
<1>3. g.programs = h.programs /\ g.collecting = h.collecting
  BY <1>1 DEF CollectorFields
<1> HIDE DEF g
<1>4. CollectorTypes(g)
  BY <1>1, <1>2, <1>3 DEF CollectorTypes, ClockKept
<1>5. QED BY <1>1, <1>2, <1>4 DEF g

\* A PCR is classified alike by both.
LEMMA PcrAlike ==
  ASSUME HealthInv, NEW move, NEW indicated, NEW at, ObservePcr(move, indicated, at),
         health' = HealthPcr(FollowPcrPid(health), prevPcr'.value, indicated, at)
  PROVE  HealthInv'
<1> DEFINE value == (prevPcr.value + move) % PCRWrapTicks
           h == FollowPcrPid(health)
           mine == [pid |-> pcrPid, value |-> value, discontinuity |-> Declared(indicated),
                    pidChanged |-> pcrPidChanged]
           its == [pid |-> pcrPid, value |-> value,
                   discontinuity |-> indicated \/ h.discontinuityPending,
                   pidChanged |-> h.pcrPidChanged]
<1>1. UpToDate(h)
  BY FollowingIsUpToDate
<1>2. /\ prevPcr' = [valid |-> TRUE, pid |-> pcrPid, value |-> value]
      /\ clock' = NextPcrAnchor(clock, value, at, Comparable(StepKind(prevPcr, mine)))
      /\ discontinuityPending' = FALSE /\ pcrPidChanged' = FALSE /\ pcrPid' = pcrPid
  BY DEF ObservePcr
<1>3. health' = [h EXCEPT !.pcrPidChanged = FALSE, !.discontinuityPending = FALSE,
                   !.check = ObserveHealthPcr(@, its, at)]
  BY <1>2 DEF HealthPcr
<1> HIDE DEF h, value
<1>4. StepKind(prevPcr, mine) = StepKind(h.check.steps, its)
  <2>1. CASE ~prevPcr.valid
    BY <1>1, <2>1 DEF UpToDate, SameTimeline, StepKind
  <2>2. CASE prevPcr.valid
    <3>1. mine = its
      BY <1>1, <2>2 DEF UpToDate, SameMarks, Declared
    <3> HIDE DEF mine, its
    <3>2. QED BY <1>1, <2>2, <3>1 DEF UpToDate, SameTimeline, StepKind
  <2>3. QED BY <2>1, <2>2
<1>5. clock'.segment = IF Comparable(StepKind(prevPcr, mine)) THEN clock.segment ELSE clock.segment + 1
  BY <1>2 DEF NextPcrAnchor
<1>6. its.pid = pcrPid /\ its.value = value
  OBVIOUS
<1> HIDE DEF its, mine
<1>7. /\ DOMAIN health' = CollectorFields /\ health'.programs = h.programs
      /\ health'.collecting = h.collecting /\ health'.lastPcrPid = h.lastPcrPid
      /\ health'.pcrPidChanged = FALSE /\ health'.discontinuityPending = FALSE
      /\ health'.check = ObserveHealthPcr(h.check, its, at)
  BY <1>1, <1>3 DEF UpToDate, CollectorTypes, CollectorFields
<1>8. /\ DOMAIN health'.check = CheckFields
      /\ health'.check.steps = [valid |-> TRUE, pid |-> pcrPid, value |-> value]
      /\ health'.check.segments = IF Comparable(StepKind(h.check.steps, its))
                                    THEN h.check.segments ELSE h.check.segments + 1
  BY <1>1, <1>6, <1>7 DEF UpToDate, CollectorTypes, CheckFields, ObserveHealthPcr
<1>9. SameTimeline(health)'
  BY <1>1, <1>2, <1>4, <1>5, <1>8 DEF UpToDate, SameTimeline
<1>10. CollectorTypes(health)'
  BY <1>1, <1>7, <1>8 DEF UpToDate, CollectorTypes, Tables
<1>11. QED BY <1>1, <1>2, <1>7, <1>9, <1>10 DEF UpToDate, HealthInv, SameMarks

\* An indicator without a PCR is noted by both.
LEMMA IndicatorAlike ==
  ASSUME HealthInv, ObserveIndicator,
         health' = [FollowPcrPid(health) EXCEPT !.discontinuityPending = TRUE]
  PROVE  HealthInv'
<1> DEFINE h == FollowPcrPid(health)
<1>1. UpToDate(h)
  BY FollowingIsUpToDate
<1> HIDE DEF h
<1>2. /\ DOMAIN health' = CollectorFields /\ health'.check = h.check
      /\ health'.programs = h.programs
      /\ health'.collecting = h.collecting /\ health'.lastPcrPid = h.lastPcrPid
      /\ health'.pcrPidChanged = h.pcrPidChanged /\ health'.discontinuityPending = TRUE
  BY <1>1 DEF UpToDate, CollectorTypes, CollectorFields, h
<1>3. UNCHANGED <<pcrPid, prevPcr, clock, pcrPidChanged>> /\ discontinuityPending' = TRUE
  BY DEF ObserveIndicator
<1>4. SameTimeline(health)' /\ CollectorTypes(health)'
  BY <1>1, <1>2, <1>3 DEF UpToDate, SameTimeline, CollectorTypes, Tables
<1>5. QED BY <1>1, <1>2, <1>3, <1>4 DEF UpToDate, HealthInv, SameMarks

\* Sections and other packets change tables only.
LEMMA SectionKeeps ==
  ASSUME HealthInv, UNCHANGED pcrVars, NEW n \in Tables, NEW pid, NEW at, NEW completes \in BOOLEAN,
         health' = Assemble(FollowPcrPid(health), n, pid, at, completes)
  PROVE  HealthInv'
<1> DEFINE h == FollowPcrPid(health)
<1>1. UpToDate(h)
  BY FollowingIsUpToDate
<1> HIDE DEF h
<1>2. /\ DOMAIN health' = CollectorFields /\ health'.programs = h.programs
      /\ health'.lastPcrPid = h.lastPcrPid /\ health'.pcrPidChanged = h.pcrPidChanged
      /\ health'.discontinuityPending = h.discontinuityPending
      /\ health'.collecting = IF completes THEN h.collecting \ {n} ELSE h.collecting \cup {n}
      /\ health'.check = IF completes THEN ObserveInstance(h.check, n, pid, at) ELSE h.check
  BY <1>1 DEF UpToDate, CollectorTypes, CollectorFields, Assemble, h
<1>3. ClockKept(h.check, health'.check)
  BY <1>1, <1>2, TablesOnly DEF UpToDate, CollectorTypes, ClockKept
<1>4. CollectorTypes(health')
  BY <1>1, <1>2, <1>3 DEF UpToDate, CollectorTypes, ClockKept
<1>5. QED BY <1>1, <1>2, <1>3, <1>4, UpToDateKept

\* So do problems.
LEMMA ProblemKeeps ==
  ASSUME HealthInv, UNCHANGED pcrVars, NEW S, S \subseteq Tables, NEW kind,
         health' = CountProblem(FollowPcrPid(health), S, kind)
  PROVE  HealthInv'
<1> DEFINE h == FollowPcrPid(health)
<1>1. UpToDate(h)
  BY FollowingIsUpToDate
<1> HIDE DEF h
<1>2. /\ CollectorTypes(health') /\ ClockKept(h.check, health'.check)
      /\ \A f \in CollectorFields \ {"check"} : health'[f] = h[f]
  BY <1>1, CountingKeeps DEF UpToDate, h
<1>3. /\ health'.lastPcrPid = h.lastPcrPid /\ health'.pcrPidChanged = h.pcrPidChanged
      /\ health'.discontinuityPending = h.discontinuityPending
  BY <1>2 DEF CollectorFields
<1>4. QED BY <1>1, <1>2, <1>3, UpToDateKept

\* A PAT withdraws and announces tables.
LEMMA PatKeeps ==
  ASSUME HealthInv, UNCHANGED pcrVars, NEW programs \in PatChoices,
         health' = PatApplied(health, programs)
  PROVE  HealthInv'
<1> DEFINE gone == DOMAIN health.programs \ DOMAIN programs
           fresh == {n \in DOMAIN programs :
                       n \notin DOMAIN health.programs \/ health.programs[n] # programs[n]}
           withdrawn == WithdrawAll(health.check, gone)
<1>1. CollectorTypes(health) /\ DOMAIN programs \subseteq Programs
  BY DEF HealthInv, PatChoices
<1>2. IsFiniteSet(gone) /\ IsFiniteSet(fresh)
  <2>1. gone \subseteq Tables /\ fresh \subseteq Tables
    BY <1>1 DEF CollectorTypes, Tables
  <2>2. QED BY <2>1, TablesFinite
<1>3. /\ DOMAIN health' = CollectorFields /\ health'.programs = programs
      /\ health'.collecting = health.collecting \ (gone \cup fresh)
      /\ health'.check = AnnounceAll(withdrawn, fresh, programs)
      /\ health'.lastPcrPid = health.lastPcrPid /\ health'.pcrPidChanged = health.pcrPidChanged
      /\ health'.discontinuityPending = health.discontinuityPending
  BY <1>1 DEF CollectorTypes, CollectorFields, PatApplied
<1> HIDE DEF gone, fresh
<1>4. ClockKept(health.check, withdrawn)
  BY <1>1, <1>2, FoldKeepsClock DEF CollectorTypes
<1> HIDE DEF withdrawn
<1>5. ClockKept(withdrawn, health'.check)
  BY <1>2, <1>3, <1>4, FoldKeepsClock DEF ClockKept
<1>6. ClockKept(health.check, health'.check)
  BY <1>4, <1>5 DEF ClockKept
<1>7. CollectorTypes(health')
  BY <1>1, <1>3, <1>6 DEF CollectorTypes, ClockKept
<1>8. QED BY <1>3, <1>6, <1>7, InvKept

\* At the end the tables never completed are counted.
LEMMA FinishKeepsClock ==
  ASSUME HealthInv, FinishHealth
  PROVE  HealthInv'
<1> DEFINE never == {n \in health.collecting : TableOf(health.check, n).instances = 0}
           h == CountProblem(health, never, "incomplete")
<1>1. CollectorTypes(health) /\ never \subseteq Tables
  BY DEF HealthInv, CollectorTypes
<1>2. health' = [h EXCEPT !.finished = TRUE] /\ UNCHANGED pcrVars
  BY DEF FinishHealth
<1> HIDE DEF never
<1>3. /\ CollectorTypes(h) /\ ClockKept(health.check, h.check)
      /\ \A f \in CollectorFields \ {"check"} : h[f] = health[f]
  BY <1>1, CountingKeeps
<1> HIDE DEF h
<1>4. /\ DOMAIN health' = CollectorFields /\ health'.check = h.check
      /\ health'.programs = h.programs /\ health'.collecting = h.collecting
      /\ health'.lastPcrPid = h.lastPcrPid /\ health'.pcrPidChanged = h.pcrPidChanged
      /\ health'.discontinuityPending = h.discontinuityPending
  BY <1>2, <1>3 DEF CollectorTypes, CollectorFields
<1>5. h.lastPcrPid = health.lastPcrPid /\ h.pcrPidChanged = health.pcrPidChanged
      /\ h.discontinuityPending = health.discontinuityPending
  BY <1>3 DEF CollectorFields
<1>6. CollectorTypes(health')
  BY <1>3, <1>4 DEF CollectorTypes
<1>7. QED BY <1>2, <1>3, <1>4, <1>5, <1>6, InvKept

-------------------------------------------------------------------------------
(* The specification.                                                        *)

\* The invariant holds before the first packet.
LEMMA HealthInvInit == HealthInit => HealthInv
<1> SUFFICES ASSUME HealthInit PROVE HealthInv
  OBVIOUS
<1>1. health = NewCollector /\ clock = NoAnchor /\ ~prevPcr.valid /\ prevPcr.valid = FALSE
  BY DEF HealthInit, PcrInit
<1>2. CollectorTypes(health)
  BY <1>1 DEF CollectorTypes, CollectorFields, CheckFields, NewCollector, NewHealthCheck
<1>3. SameTimeline(health)
  BY <1>1 DEF SameTimeline, NewCollector, NewHealthCheck, NoAnchor
<1>4. QED BY <1>1, <1>2, <1>3 DEF HealthInv

\* Every step keeps it.
LEMMA HealthInvNext == HealthInv /\ [HealthNext]_healthVars => HealthInv'
<1> SUFFICES ASSUME HealthInv, [HealthNext]_healthVars PROVE HealthInv'
  OBVIOUS
<1>1. ASSUME HealthPacket PROVE HealthInv'
  <2>1. ASSUME NEW move \in Moves, NEW indicated \in Indicators, PcrPacket(move, indicated)
        PROVE  HealthInv'
    BY <2>1, PcrAlike DEF PcrPacket
  <2>2. CASE IndicatorPacket
    BY <2>2, IndicatorAlike DEF IndicatorPacket
  <2>3. ASSUME NEW n \in Tables, NEW completes \in BOOLEAN, SectionPacket(n, completes)
        PROVE  HealthInv'
    BY <2>3, SectionKeeps DEF SectionPacket
  <2>4. ASSUME NEW pid, NEW number, NEW kind, ProblemPacket(pid, number, kind)
        PROVE  HealthInv'
    <3> DEFINE S == IF pid = PAT THEN {PAT}
                    ELSE IF kind \in {"crc", "malformed"} THEN Owners(health, pid, number)
                    ELSE ProgramsOn(health, pid)
    <3>1. S \subseteq Tables
      BY DEF HealthInv, CollectorTypes, Owners, ProgramsOn, Tables
    <3>2. health' = CountProblem(FollowPcrPid(health), S, kind) /\ UNCHANGED pcrVars
      BY <2>4 DEF ProblemPacket
    <3> HIDE DEF S
    <3>3. QED BY <3>1, <3>2, ProblemKeeps
  <2>5. CASE OtherPacket
    <3>1. UpToDate(FollowPcrPid(health)) /\ health' = FollowPcrPid(health) /\ UNCHANGED pcrVars
      BY <2>5, FollowingIsUpToDate DEF OtherPacket
    <3>2. CollectorTypes(health') /\ ClockKept(FollowPcrPid(health).check, health'.check)
      BY <3>1 DEF UpToDate, CollectorTypes, ClockKept
    <3>3. QED BY <3>1, <3>2, UpToDateKept
  <2>6. QED BY <1>1, <2>1, <2>2, <2>3, <2>4, <2>5 DEF HealthPacket
<1>2. ASSUME NEW programs \in PatChoices, ApplyPat(programs) PROVE HealthInv'
  BY <1>2, PatKeeps DEF ApplyPat
<1>3. ASSUME NEW pid \in PcrPids, MovePcrPid(pid) PROVE HealthInv'
  <2>1. /\ pcrPid' = pid /\ pid # pcrPid /\ health.lastPcrPid = pcrPid
        /\ discontinuityPending' = FALSE /\ pcrPidChanged' = TRUE
        /\ clock' = [NoAnchor EXCEPT !.segment = clock.segment]
        /\ UNCHANGED <<prevPcr, health>>
    BY <1>3 DEF MovePcrPid, SetPcrPid
  <2>2. clock'.segment = clock.segment
    BY <2>1 DEF NoAnchor
  <2>3. SameTimeline(health)' /\ CollectorTypes(health)'
    BY <2>1, <2>2 DEF HealthInv, SameTimeline, CollectorTypes, Tables
  <2>4. QED BY <2>1, <2>3 DEF HealthInv, SameMarks
<1>4. CASE FinishHealth
  BY <1>4, FinishKeepsClock
<1>5. CASE UNCHANGED healthVars
  <2>1. UNCHANGED <<health, pcrPid, prevPcr, clock, pcrPidChanged, discontinuityPending>>
    BY <1>5 DEF healthVars, pcrVars
  <2>2. QED BY <2>1 DEF HealthInv, SameTimeline, SameMarks, CollectorTypes, Tables
<1>6. QED BY <1>1, <1>2, <1>3, <1>4, <1>5 DEF HealthNext

\* The collector's segments are those of the program's analyzer: it reads the PCR_PID
\* only before each packet and keeps the marks of its own, yet neither counts a
\* segment that the other does not.
THEOREM HealthSegmentsAgree == HealthSpec => []SegmentsAgree
<1>1. HealthInv => SegmentsAgree
  BY DEF HealthInv, SameTimeline, SegmentsAgree
<1>2. QED BY <1>1, HealthInvInit, HealthInvNext, PTL DEF HealthSpec

\* The clock of the analyzer in this composition.
LEMMA HealthClockNext == pos \in Int /\ ClockInv /\ [HealthNext]_healthVars => pos' \in Int /\ ClockInv'
<1> SUFFICES ASSUME pos \in Int, ClockInv, [HealthNext]_healthVars PROVE pos' \in Int /\ ClockInv'
  OBVIOUS
<1>1. ASSUME HealthPacket PROVE pos' \in Int /\ ClockInv'
  <2>1. ASSUME NEW move \in Moves, NEW indicated \in Indicators, PcrPacket(move, indicated)
        PROVE  ClockInv'
    <3>1. indicated \in BOOLEAN /\ pos + 1 \in Int /\ ObservePcr(move, indicated, pos + 1)
      BY <2>1, MovesAssumption DEF PcrPacket
    <3>2. QED BY <3>1, PcrKeeps
  <2>2. ASSUME IndicatorPacket PROVE ClockInv'
    BY <2>2, OthersKeep DEF IndicatorPacket
  <2>3. ASSUME UNCHANGED pcrVars PROVE ClockInv'
    BY <2>3, OthersKeep
  <2>4. QED BY <1>1, <2>1, <2>2, <2>3 DEF HealthPacket, SectionPacket, ProblemPacket, OtherPacket
<1>2. ASSUME NEW pid \in PcrPids, MovePcrPid(pid) PROVE pos' \in Int /\ ClockInv'
  BY <1>2, OthersKeep DEF MovePcrPid
<1>3. CASE UNCHANGED <<pos, pcrVars>>
  <2>1. UNCHANGED pcrVars /\ UNCHANGED pos
    BY <1>3
  <2>2. ClockInv'
    BY <2>1, OthersKeep
  <2>3. QED BY <2>1, <2>2
<1>4. ASSUME NEW programs \in PatChoices, ApplyPat(programs) PROVE UNCHANGED <<pos, pcrVars>>
  BY <1>4 DEF ApplyPat
<1>5. FinishHealth \/ UNCHANGED healthVars => UNCHANGED <<pos, pcrVars>>
  BY DEF FinishHealth, healthVars
<1>6. QED BY <1>1, <1>2, <1>3, <1>4, <1>5 DEF HealthNext

\* A segment of the collector is a time base of the sender: no interval between two
\* tables is measured across a change of it, and none is given up within one.
THEOREM HealthSegmentsAreTrue == HealthSpec => [](health.check.segments = truth.bases)
<1> DEFINE Inv == pos \in Int /\ ClockInv
<1>1. HealthInit => Inv
  BY ClockInvInit DEF HealthInit, PcrInit
<1>2. Inv /\ [HealthNext]_healthVars => Inv'
  BY HealthClockNext
<1>3. Inv /\ SegmentsAgree => health.check.segments = truth.bases
  BY DEF ClockInv, ClockIsTrue, SegmentPerTimeBase, SegmentsAgree
<1>4. QED BY <1>1, <1>2, <1>3, HealthSegmentsAgree, PTL DEF HealthSpec

-------------------------------------------------------------------------------
(* Sums over a finite set.                                                   *)

\* The function that the sum of f over a set is the value of.
Sums(g, f, S) ==
  g = [s \in SUBSET S |->
         IF s = {} THEN 0 ELSE f[TakenFirst(s)] + g[s \ {TakenFirst(s)}]]

SumOf(f, S) == (CHOOSE g : Sums(g, f, S))[S]

\* Its values.
IsSum(g, f, S) ==
  \A s \in SUBSET S : g[s] = IF s = {} THEN 0 ELSE f[TakenFirst(s)] + g[s \ {TakenFirst(s)}]

\* There is only one sum.
LEMMA SumUnique ==
  ASSUME NEW S, IsFiniteSet(S), NEW f, NEW g, NEW h, IsSum(g, f, S), IsSum(h, f, S)
  PROVE  \A s \in SUBSET S : g[s] = h[s]
<1> DEFINE T == {s \in SUBSET S : g[s] = h[s]}
<1>1. {} \in T
  BY DEF IsSum
<1>2. ASSUME NEW s \in SUBSET S, s # {} /\ s \ {TakenFirst(s)} \in T PROVE s \in T
  BY <1>2 DEF IsSum
<1>3. \A s \in SUBSET S : s \in T
  <2> HIDE DEF T
  <2> QED BY <1>1, <1>2, SubsetInduction
<1>4. QED BY <1>3

\* A sum of natural numbers exists.
LEMMA SumExists ==
  ASSUME NEW S, IsFiniteSet(S), NEW f, \A x \in S : f[x] \in Nat
  PROVE  \E g \in [SUBSET S -> Nat] : IsSum(g, f, S) /\ Sums(g, f, S)
<1> DEFINE step == [x \in S |-> [v \in Nat |-> f[x] + v]]
<1>1. 0 \in Nat /\ step \in [S -> [Nat -> Nat]]
  OBVIOUS
<1>2. PICK g \in [SUBSET S -> Nat] : IsFold(g, 0, step, S)
  <2> HIDE DEF step
  <2> QED BY <1>1, FoldExists
<1>3. IsSum(g, f, S)
  <2>1. ASSUME NEW s \in SUBSET S, s # {}
        PROVE  g[s] = f[TakenFirst(s)] + g[s \ {TakenFirst(s)}]
    <3> DEFINE x == TakenFirst(s)
               t == s \ {x}
    <3>1. x \in S /\ t \in SUBSET S
      BY <2>1, TakenOut
    <3>2. g[s] = step[x][g[t]]
      BY <1>2, <2>1 DEF IsFold
    <3> HIDE DEF x, t
    <3>3. g[t] \in Nat
      BY <3>1
    <3>4. g[s] = f[x] + g[t]
      BY <3>1, <3>2, <3>3
    <3>5. QED BY <3>4 DEF x, t
  <2>2. g[{}] = 0
    BY <1>2 DEF IsFold
  <2> HIDE DEF step
  <2>3. QED BY <2>1, <2>2 DEF IsSum
<1> HIDE DEF step
<1>4. Sums(g, f, S)
  <2> DEFINE k == [s \in SUBSET S |->
                     IF s = {} THEN 0 ELSE f[TakenFirst(s)] + g[s \ {TakenFirst(s)}]]
  <2>1. \A s \in SUBSET S : g[s] = k[s]
    BY <1>3 DEF IsSum
  <2>2. DOMAIN k = SUBSET S /\ k = [s \in SUBSET S |-> k[s]] /\ g = [s \in SUBSET S |-> g[s]]
    OBVIOUS
  <2> HIDE DEF k
  <2>3. g = k
    BY <2>1, <2>2
  <2>4. QED BY <2>3 DEF Sums, k
<1>5. QED BY <1>3, <1>4

\* What sums to g is the sum.
LEMMA SumIs ==
  ASSUME NEW S, IsFiniteSet(S), NEW f, \A x \in S : f[x] \in Nat, NEW g, IsSum(g, f, S)
  PROVE  g[S] = SumOf(f, S) /\ SumOf(f, S) \in Nat
<1> DEFINE h == CHOOSE k : Sums(k, f, S)
<1>1. PICK w \in [SUBSET S -> Nat] : IsSum(w, f, S) /\ Sums(w, f, S)
  BY SumExists
<1>2. Sums(h, f, S)
  BY <1>1
<1> HIDE DEF h
<1>3. IsSum(h, f, S)
  <2> DEFINE body == [s \in SUBSET S |->
                        IF s = {} THEN 0 ELSE f[TakenFirst(s)] + h[s \ {TakenFirst(s)}]]
  <2>1. h = body
    BY <1>2 DEF Sums
  <2>2. \A s \in SUBSET S :
          body[s] = IF s = {} THEN 0 ELSE f[TakenFirst(s)] + h[s \ {TakenFirst(s)}]
    OBVIOUS
  <2> HIDE DEF body
  <2>3. QED BY <2>1, <2>2 DEF IsSum
<1>4. S \in SUBSET S
  OBVIOUS
<1>5. g[S] = h[S] /\ w[S] = h[S]
  BY <1>1, <1>3, <1>4, SumUnique
<1>6. SumOf(f, S) = h[S]
  BY DEF SumOf, h
<1>7. QED BY <1>1, <1>4, <1>5, <1>6

PartsSummed(g, f, S) ==
  /\ \A s \in SUBSET S : g[s] = SumOf(f, s)
  /\ g[{}] = 0
  /\ \A s \in SUBSET S : \A x \in s : g[s] = f[x] + g[s \ {x}]

\* The function of all sums over the parts of a set, in which the order does not matter.
LEMMA SumParts ==
  ASSUME NEW S, IsFiniteSet(S), NEW f, \A x \in S : f[x] \in Nat
  PROVE  \E g \in [SUBSET S -> Nat] : PartsSummed(g, f, S)
<1>0. PICK g \in [SUBSET S -> Nat] : IsSum(g, f, S)
  BY SumExists
<1>1. \A s \in SUBSET S : IsFiniteSet(s) /\ Cardinality(s) \in Nat /\ (Cardinality(s) = 0 <=> s = {})
  BY FS_Subset, FS_CardinalityType, FS_EmptySet
<1>2. ASSUME NEW s \in SUBSET S PROVE g[s] = SumOf(f, s)
  <2>1. \A t \in SUBSET s : t \in SUBSET S
    OBVIOUS
  <2>2. IsSum(g, f, s)
    BY <1>0, <2>1 DEF IsSum
  <2>3. \A x \in s : f[x] \in Nat
    OBVIOUS
  <2>4. QED BY <1>1, <2>2, <2>3, SumIs
<1> DEFINE Holds(s) == \A x \in s : g[s] = f[x] + g[s \ {x}]
           Q == {n \in Nat : \A s \in SUBSET S : Cardinality(s) <= n => Holds(s)}
<1>3. 0 \in Q
  <2>1. ASSUME NEW s \in SUBSET S, Cardinality(s) <= 0 PROVE Holds(s)
    BY <1>1, <2>1
  <2> HIDE DEF Holds
  <2>2. QED BY <2>1
<1>4. ASSUME NEW n \in Nat, n \in Q PROVE n + 1 \in Q
  <2>1. ASSUME NEW s \in SUBSET S, Cardinality(s) <= n + 1, NEW x \in s
        PROVE  g[s] = f[x] + g[s \ {x}]
    <3> DEFINE y == TakenFirst(s)
               sy == s \ {y}
               sx == s \ {x}
    <3>1. y \in s /\ y \in S /\ x \in S /\ s # {}
      BY TakenOut DEF TakenFirst
    <3>2. g[s] = f[y] + g[sy]
      BY <1>0, <3>1 DEF IsSum
    <3>3. CASE x = y
      BY <3>2, <3>3
    <3>4. CASE x # y
      <4>1. /\ sy \in SUBSET S /\ sx \in SUBSET S /\ x \in sy /\ y \in sx
            /\ Cardinality(sy) <= n /\ Cardinality(sx) <= n
        <5>1. Cardinality(sy) = Cardinality(s) - 1 /\ Cardinality(sx) = Cardinality(s) - 1
          BY <1>1, <3>1, FS_RemoveElement
        <5>2. Cardinality(s) \in Nat
          BY <1>1
        <5>3. sy \in SUBSET S /\ sx \in SUBSET S /\ x \in sy /\ y \in sx
          BY <3>1, <3>4
        <5> HIDE DEF sy, sx
        <5>4. QED BY <2>1, <5>1, <5>2, <5>3
      <4>2. g[sy] = f[x] + g[sy \ {x}] /\ g[sx] = f[y] + g[sx \ {y}]
        <5> HIDE DEF sy, sx, y
        <5>1. QED BY <1>4, <4>1
      <4>3. sy \ {x} = sx \ {y} /\ sy \ {x} \in SUBSET S
        BY <3>1
      <4> DEFINE a == g[sy \ {x}]
                 b == f[x]
                 c == f[y]
      <4>4. a \in Nat /\ b \in Nat /\ c \in Nat
        BY <3>1, <4>3
      <4>5. g[s] = c + (b + a) /\ g[sx] = c + a
        BY <3>2, <4>2, <4>3
      <4> HIDE DEF a, b, c, sy, sx, y
      <4>6. g[s] = b + g[sx]
        BY <4>4, <4>5
      <4>7. QED BY <4>6 DEF b, sx
    <3>5. QED BY <3>3, <3>4
  <2>2. ASSUME NEW s \in SUBSET S, Cardinality(s) <= n + 1 PROVE Holds(s)
    BY <2>1, <2>2
  <2> HIDE DEF Holds
  <2>3. QED BY <2>2
<1>5. \A n \in Nat : n \in Q
  <2> HIDE DEF Q
  <2> QED BY <1>3, <1>4, SetInduction
<1>6. ASSUME NEW s \in SUBSET S PROVE Holds(s)
  <2>1. Cardinality(s) \in Nat /\ Cardinality(s) \in Q
    BY <1>1, <1>5
  <2> HIDE DEF Holds
  <2>2. QED BY <2>1
<1>7. g[{}] = 0
  BY <1>0 DEF IsSum
<1>8. QED BY <1>2, <1>6, <1>7 DEF PartsSummed

\* One element more adds its value.
LEMMA SumAdd ==
  ASSUME NEW S, IsFiniteSet(S), NEW x, x \notin S, NEW f, \A y \in S \cup {x} : f[y] \in Nat
  PROVE  SumOf(f, S \cup {x}) = SumOf(f, S) + f[x]
<1> DEFINE T == S \cup {x}
<1>1. IsFiniteSet(T) /\ T \in SUBSET T /\ S \in SUBSET T /\ x \in T /\ T \ {x} = S
  BY FS_AddElement
<1>2. \A y \in T : f[y] \in Nat
  OBVIOUS
<1> HIDE DEF T
<1>3. PICK g \in [SUBSET T -> Nat] : PartsSummed(g, f, T)
  BY <1>1, <1>2, SumParts
<1>4. g[T] = f[x] + g[S] /\ g[S] \in Nat /\ f[x] \in Nat
  BY <1>1, <1>2, <1>3 DEF PartsSummed
<1>5. QED BY <1>1, <1>3, <1>4 DEF T, PartsSummed

\* The sum over nothing, and over one element.
LEMMA SumOne ==
  /\ \A f : SumOf(f, {}) = 0
  /\ \A f, x : f[x] \in Nat => SumOf(f, {x}) = f[x]
<1>1. ASSUME NEW f PROVE SumOf(f, {}) = 0
  <2>0. IsFiniteSet({}) /\ \A x \in {} : f[x] \in Nat
    BY FS_EmptySet
  <2>1. PICK g \in [SUBSET {} -> Nat] : PartsSummed(g, f, {})
    BY <2>0, SumParts
  <2>2. QED BY <2>1 DEF PartsSummed
<1>2. ASSUME NEW f, NEW x, f[x] \in Nat PROVE SumOf(f, {x}) = f[x]
  <2>1. SumOf(f, {} \cup {x}) = SumOf(f, {}) + f[x]
    BY <1>2, SumAdd, FS_EmptySet
  <2>2. {} \cup {x} = {x}
    OBVIOUS
  <2>3. QED BY <1>1, <1>2, <2>1, <2>2
<1>3. QED BY <1>1, <1>2

\* The sum is of the values on the set, and that of two values is that of their sums.
LEMMA SumOfSums ==
  ASSUME NEW S, IsFiniteSet(S), NEW f, NEW h, NEW k,
         \A x \in S : f[x] \in Nat /\ h[x] \in Nat /\ k[x] = f[x] + h[x]
  PROVE  SumOf(k, S) = SumOf(f, S) + SumOf(h, S)
<1> DEFINE T == {s \in SUBSET S : SumOf(k, s) = SumOf(f, s) + SumOf(h, s)}
<1>1. {} \in T
  BY SumOne
<1>2. ASSUME NEW s \in SUBSET S, s # {} /\ s \ {TakenFirst(s)} \in T PROVE s \in T
  <2> DEFINE x == TakenFirst(s)
             r == s \ {x}
  <2>1. x \in s /\ x \in S /\ r \in SUBSET S /\ x \notin r /\ s = r \cup {x} /\ IsFiniteSet(r)
    <3>1. x \in s /\ x \in S /\ r \in SUBSET S
      BY <1>2, TakenOut
    <3>2. IsFiniteSet(r)
      BY <3>1, FS_Subset
    <3>3. s = r \cup {x} /\ x \notin r
      BY <3>1
    <3>4. QED BY <3>1, <3>2, <3>3
  <2> HIDE DEF x, r
  <2>2. \A y \in r \cup {x} : f[y] \in Nat /\ h[y] \in Nat /\ k[y] = f[y] + h[y] /\ k[y] \in Nat
    BY <2>1
  <2>3. /\ SumOf(k, s) = SumOf(k, r) + k[x]
        /\ SumOf(f, s) = SumOf(f, r) + f[x]
        /\ SumOf(h, s) = SumOf(h, r) + h[x]
    BY <2>1, <2>2, SumAdd
  <2>4. SumOf(k, r) = SumOf(f, r) + SumOf(h, r)
    BY <1>2 DEF r, x
  <2>5. SumOf(f, r) \in Nat /\ SumOf(h, r) \in Nat
    <3>1. ASSUME NEW e, \A y \in r : e[y] \in Nat PROVE SumOf(e, r) \in Nat
      <4>1. PICK g \in [SUBSET r -> Nat] : IsSum(g, e, r)
        BY <2>1, <3>1, SumExists
      <4>2. QED BY <2>1, <3>1, <4>1, SumIs
    <3>2. QED BY <2>2, <3>1
  <2>6. f[x] \in Nat /\ h[x] \in Nat /\ k[x] = f[x] + h[x]
    BY <2>2
  <2>7. SumOf(k, s) = SumOf(f, s) + SumOf(h, s)
    BY <2>3, <2>4, <2>5, <2>6
  <2>8. QED BY <2>7
<1>3. \A s \in SUBSET S : s \in T
  <2> HIDE DEF T
  <2> QED BY <1>1, <1>2, SubsetInduction
<1>4. S \in T
  BY <1>3
<1>5. QED BY <1>4

\* A sum is a natural number.
LEMMA SumType ==
  ASSUME NEW S, IsFiniteSet(S), NEW f, \A x \in S : f[x] \in Nat
  PROVE  SumOf(f, S) \in Nat
<1>1. PICK g \in [SUBSET S -> Nat] : IsSum(g, f, S)
  BY SumExists
<1>2. QED BY <1>1, SumIs

\* Functions that agree on the set have the same sum.
LEMMA SumSame ==
  ASSUME NEW S, IsFiniteSet(S), NEW f, NEW h, \A x \in S : f[x] \in Nat /\ h[x] = f[x]
  PROVE  SumOf(h, S) = SumOf(f, S)
<1> DEFINE z == [x \in S |-> 0]
<1>1. \A x \in S : f[x] \in Nat /\ z[x] \in Nat /\ h[x] = f[x] + z[x] /\ f[x] = f[x] + z[x]
  OBVIOUS
<1> HIDE DEF z
<1>2. SumOf(h, S) = SumOf(f, S) + SumOf(z, S) /\ SumOf(f, S) = SumOf(f, S) + SumOf(z, S)
  BY <1>1, SumOfSums
<1>3. QED BY <1>2

\* The sum of zeros.
LEMMA SumOfZeros ==
  ASSUME NEW S, IsFiniteSet(S), NEW f, \A x \in S : f[x] = 0
  PROVE  SumOf(f, S) = 0
<1>1. \A x \in S : f[x] \in Nat /\ f[x] = f[x] + f[x]
  OBVIOUS
<1>2. SumOf(f, S) = SumOf(f, S) + SumOf(f, S) /\ SumOf(f, S) \in Nat
  BY <1>1, SumOfSums, SumType
<1>3. QED BY <1>2, SMTT(40)

-------------------------------------------------------------------------------
(* Folds over a sequence, which take the elements from the left.             *)

\* The functions a fold over the numbers 1 .. N is the value of.
IsSeqFold(g, base, step, N) ==
  \A s \in SUBSET (1 .. N) : g[s] = IF s = {} THEN base ELSE step[Max(s)][g[s \ {Max(s)}]]

-------------------------------------------------------------------------------
(* The intervals between the PCRs.                                           *)

\* The intervals between two PCRs of a list M that lie in one segment, how long they
\* are, what they hold of the packets X on the PIDs P, and the time before a PCR.
Spans(M)         == {i \in 1 .. Len(M) - 1 : M[i].segment = M[i + 1].segment}
Lengths(M)       == [i \in Spans(M) |-> M[i + 1].unwrapped - M[i].unwrapped]
HeldBetween(M, X, P, i) ==
  {k \in M[i].pos + 1 .. M[i + 1].pos : X[k].counted /\ X[k].pid \in P}
Amounts(M, X, P) == [i \in Spans(M) |-> Cardinality(HeldBetween(M, X, P, i))]
TimeBefore(M, n) == SumOf(Lengths(M), {i \in Spans(M) : i < n})
SpansOf(M, w)    == {i \in Spans(M) : TimeBefore(M, i) \div Second = w}

\* The PCRs of a list come one after another, at latest in packet at; those of one
\* segment are no further apart than a PCR interval may be.
Following(a, b) ==
  /\ a.pos < b.pos
  /\ \/ b.segment = a.segment /\ b.unwrapped >= a.unwrapped
        /\ b.unwrapped - a.unwrapped <= PCRJumpLimit
     \/ b.segment = a.segment + 1 /\ b.unwrapped = b.pcr

MarksGood(M, at) ==
  /\ M \in Seq(Anchors) /\ at \in Nat /\ Len(M) <= at
  /\ \A i \in 1 .. Len(M) : M[i].pos \in 1 .. at
  /\ \A i \in 1 .. Len(M) - 1 : Following(M[i], M[i + 1])
  /\ Len(M) > 0 => M[1].segment = 1 /\ M[1].unwrapped = M[1].pcr

\* What a list of PCRs consists of.
LEMMA MarksTyped ==
  ASSUME NEW M, NEW at, MarksGood(M, at)
  PROVE  /\ Len(M) \in Nat /\ DOMAIN M = 1 .. Len(M) /\ at \in Nat
         /\ \A i \in 1 .. Len(M) :
              /\ M[i] \in Anchors /\ M[i].pos \in Nat /\ M[i].pos >= 1 /\ M[i].pos <= at
              /\ M[i].segment \in Int /\ M[i].unwrapped \in Int /\ M[i].pcr \in Int
<1>1. M \in Seq(Anchors) /\ at \in Nat
  BY DEF MarksGood
<1>2. Len(M) \in Nat /\ DOMAIN M = 1 .. Len(M) /\ \A i \in 1 .. Len(M) : M[i] \in Anchors
  BY <1>1
<1>3. \A i \in 1 .. Len(M) : M[i].pos \in 1 .. at
  BY DEF MarksGood
<1>4. \A a \in Anchors : a.segment \in Int /\ a.unwrapped \in Int /\ a.pcr \in Int
  BY DEF Anchors
<1>5. QED BY <1>1, <1>2, <1>3, <1>4

\* Their intervals.
LEMMA SpansTyped ==
  ASSUME NEW M, NEW at, MarksGood(M, at)
  PROVE  /\ IsFiniteSet(Spans(M)) /\ \A S \in SUBSET Spans(M) : IsFiniteSet(S)
         /\ \A i \in Spans(M) :
              /\ i \in 1 .. Len(M) /\ i + 1 \in 1 .. Len(M) /\ i \in Nat
              /\ Lengths(M)[i] \in Nat /\ Lengths(M)[i] <= PCRJumpLimit
              /\ Lengths(M)[i] = M[i + 1].unwrapped - M[i].unwrapped
              /\ \A X, P : /\ Amounts(M, X, P)[i] \in Nat
                           /\ Amounts(M, X, P)[i] = Cardinality(HeldBetween(M, X, P, i))
<1>1. IsFiniteSet(1 .. Len(M) - 1) /\ Spans(M) \subseteq 1 .. Len(M) - 1
  <2>1. 1 \in Int /\ Len(M) - 1 \in Int
    BY MarksTyped
  <2>2. QED BY <2>1, FS_Interval DEF Spans
<1>2. IsFiniteSet(Spans(M)) /\ \A S \in SUBSET Spans(M) : IsFiniteSet(S)
  BY <1>1, FS_Subset
<1>3. ASSUME NEW i \in Spans(M)
      PROVE  /\ i \in 1 .. Len(M) /\ i + 1 \in 1 .. Len(M) /\ i \in Nat
             /\ Lengths(M)[i] \in Nat /\ Lengths(M)[i] <= PCRJumpLimit
             /\ Lengths(M)[i] = M[i + 1].unwrapped - M[i].unwrapped
  <2>1. i \in 1 .. Len(M) - 1 /\ M[i].segment = M[i + 1].segment
    BY DEF Spans
  <2>2. i \in 1 .. Len(M) /\ i + 1 \in 1 .. Len(M) /\ i \in Nat
    BY <2>1, MarksTyped
  <2>3. Following(M[i], M[i + 1])
    BY <2>1 DEF MarksGood
  <2>4. Lengths(M)[i] = M[i + 1].unwrapped - M[i].unwrapped
    BY DEF Lengths
  <2>5. M[i].segment \in Int /\ M[i].unwrapped \in Int /\ M[i + 1].unwrapped \in Int
    BY <2>2, MarksTyped
  <2>6. M[i + 1].unwrapped >= M[i].unwrapped /\ M[i + 1].unwrapped - M[i].unwrapped <= PCRJumpLimit
    BY <2>1, <2>3, <2>5 DEF Following
  <2>7. QED BY <2>2, <2>4, <2>5, <2>6
<1>4. ASSUME NEW i \in Spans(M), NEW X, NEW P
      PROVE  /\ Amounts(M, X, P)[i] \in Nat
             /\ Amounts(M, X, P)[i] = Cardinality(HeldBetween(M, X, P, i))
  <2>1. M[i].pos + 1 \in Int /\ M[i + 1].pos \in Int
    BY <1>3, MarksTyped
  <2>2. IsFiniteSet(HeldBetween(M, X, P, i))
    BY <2>1, FS_Interval, FS_Subset DEF HeldBetween
  <2>3. Amounts(M, X, P)[i] = Cardinality(HeldBetween(M, X, P, i))
    BY DEF Amounts
  <2>4. QED BY <2>2, <2>3, FS_CardinalityType
<1>5. QED BY <1>2, <1>3, <1>4

\* One PCR more.
LEMMA SpansAppended ==
  ASSUME NEW M, NEW at, MarksGood(M, at), NEW c, NEW to \in Nat, MarksGood(Append(M, c), to)
  PROVE  LET N    == Append(M, c)
             n    == Len(M)
             same == n > 0 /\ c.segment = M[n].segment
         IN /\ Len(N) = n + 1 /\ N[n + 1] = c /\ \A i \in 1 .. n : N[i] = M[i]
            /\ Spans(N) = IF same THEN Spans(M) \cup {n} ELSE Spans(M)
            /\ n \notin Spans(M) /\ {i \in Spans(M) : i < n} = Spans(M)
            /\ \A i \in Spans(M) : Lengths(N)[i] = Lengths(M)[i]
            /\ same => Lengths(N)[n] = c.unwrapped - M[n].unwrapped
            /\ \A X, P : \A i \in Spans(M) : HeldBetween(N, X, P, i) = HeldBetween(M, X, P, i)
            /\ same => \A X, P :
                 HeldBetween(N, X, P, n) = {k \in M[n].pos + 1 .. c.pos : X[k].counted /\ X[k].pid \in P}
<1> DEFINE N == Append(M, c)
           n == Len(M)
           same == n > 0 /\ c.segment = M[n].segment
<1>1. M \in Seq(Anchors) /\ n \in Nat /\ DOMAIN M = 1 .. n
  BY MarksTyped DEF MarksGood
<1>2. Len(N) = n + 1 /\ N[n + 1] = c /\ \A i \in 1 .. n : N[i] = M[i]
  BY <1>1
<1> HIDE DEF N
<1>3. \A i \in Spans(M) : i \in 1 .. n - 1 /\ i \in 1 .. n /\ i + 1 \in 1 .. n
  BY <1>1 DEF Spans
<1>4. \A i \in 1 .. n - 1 : i \in Spans(N) <=> i \in Spans(M)
  <2>1. ASSUME NEW i \in 1 .. n - 1 PROVE i \in Spans(N) <=> i \in Spans(M)
    <3>1. i \in 1 .. n /\ i + 1 \in 1 .. n /\ i \in 1 .. Len(N) - 1
      BY <1>1, <1>2
    <3>2. QED BY <1>2, <3>1 DEF Spans
  <2>2. QED BY <2>1
<1>5. Spans(N) = IF same THEN Spans(M) \cup {n} ELSE Spans(M)
  <2>1. \A i \in Spans(N) : i \in 1 .. n - 1 \/ (i = n /\ same)
    <3>1. ASSUME NEW i \in Spans(N), i \notin 1 .. n - 1 PROVE i = n /\ same
      <4>1. i \in 1 .. n /\ N[i].segment = N[i + 1].segment
        BY <1>1, <1>2 DEF Spans
      <4>2. i = n /\ n > 0
        <5> HIDE DEF n
        <5> QED BY <1>1, <3>1, <4>1
      <4>3. QED BY <1>2, <4>1, <4>2
    <3>2. QED BY <3>1
  <2>2. same => n \in Spans(N)
    <3>1. SUFFICES ASSUME same PROVE n \in Spans(N)
      OBVIOUS
    <3>2. n \in 1 .. n /\ n \in 1 .. Len(N) - 1
      BY <1>1, <1>2, <3>1
    <3>3. QED BY <1>2, <3>1, <3>2 DEF Spans
  <2>3. \A i \in Spans(M) : i \in Spans(N)
    BY <1>3, <1>4
  <2> HIDE DEF same
  <2>4. \A i \in Spans(N) : i \in Spans(M) \/ (i = n /\ same)
    BY <1>4, <2>1
  <2>5. QED BY <2>2, <2>3, <2>4
<1>6. n \notin Spans(M) /\ {i \in Spans(M) : i < n} = Spans(M)
  BY <1>1, <1>3
<1>7. \A i \in Spans(M) : i \in Spans(N) /\ N[i] = M[i] /\ N[i + 1] = M[i + 1]
  BY <1>2, <1>3, <1>4
<1>8. \A i \in Spans(M) : Lengths(N)[i] = Lengths(M)[i]
  BY <1>7 DEF Lengths
<1>9. \A X, P : \A i \in Spans(M) : HeldBetween(N, X, P, i) = HeldBetween(M, X, P, i)
  BY <1>7 DEF HeldBetween
<1>10. ASSUME same
       PROVE  /\ Lengths(N)[n] = c.unwrapped - M[n].unwrapped
              /\ \A X, P : HeldBetween(N, X, P, n)
                           = {k \in M[n].pos + 1 .. c.pos : X[k].counted /\ X[k].pid \in P}
  <2>1. n \in Spans(N) /\ n \in 1 .. n /\ N[n] = M[n] /\ N[n + 1] = c
    BY <1>1, <1>2, <1>5, <1>10
  <2>2. QED BY <2>1 DEF Lengths, HeldBetween
<1>11. QED BY <1>2, <1>5, <1>6, <1>8, <1>9, <1>10 DEF N

\* The time before each PCR, when one is added.
LEMMA TimeAppended ==
  ASSUME NEW M, NEW at, MarksGood(M, at), NEW c, NEW to \in Nat, MarksGood(Append(M, c), to)
  PROVE  LET N    == Append(M, c)
             n    == Len(M)
             same == n > 0 /\ c.segment = M[n].segment
         IN /\ \A k \in 0 .. n : TimeBefore(N, k) = TimeBefore(M, k) /\ TimeBefore(M, k) \in Nat
            /\ TimeBefore(N, n + 1) =
                 TimeBefore(M, n) + (IF same THEN c.unwrapped - M[n].unwrapped ELSE 0)
            /\ TimeBefore(M, n) = SumOf(Lengths(M), Spans(M))
<1> DEFINE N == Append(M, c)
           n == Len(M)
           same == n > 0 /\ c.segment = M[n].segment
<1>1. n \in Nat
  BY MarksTyped
<1>2. /\ Len(N) = n + 1 /\ Spans(N) = IF same THEN Spans(M) \cup {n} ELSE Spans(M)
      /\ n \notin Spans(M) /\ {i \in Spans(M) : i < n} = Spans(M)
      /\ \A i \in Spans(M) : Lengths(N)[i] = Lengths(M)[i]
      /\ same => Lengths(N)[n] = c.unwrapped - M[n].unwrapped
  BY SpansAppended
<1> HIDE DEF N
<1>3. /\ \A S \in SUBSET Spans(M) : IsFiniteSet(S)
      /\ \A i \in Spans(M) : Lengths(M)[i] \in Nat /\ i \in 1 .. n
  BY SpansTyped
<1>4. \A i \in Spans(N) : Lengths(N)[i] \in Nat
  BY SpansTyped DEF N
<1> HIDE DEF same
<1>5. ASSUME NEW k \in 0 .. n
      PROVE  TimeBefore(N, k) = TimeBefore(M, k) /\ TimeBefore(M, k) \in Nat
  <2> DEFINE S == {i \in Spans(M) : i < k}
  <2>1. {i \in Spans(N) : i < k} = S
    <3>1. \A i \in Spans(N) : i \in Spans(M) \/ i = n
      BY <1>2
    <3>2. Spans(M) \subseteq Spans(N)
      BY <1>2
    <3>3. ~(n < k)
      BY <1>1
    <3>4. QED BY <3>1, <3>2, <3>3
  <2>2. S \in SUBSET Spans(M) /\ IsFiniteSet(S)
    BY <1>3
  <2>3. \A i \in S : Lengths(M)[i] \in Nat /\ Lengths(N)[i] = Lengths(M)[i]
    BY <1>2, <1>3
  <2> HIDE DEF S
  <2>4. SumOf(Lengths(N), S) = SumOf(Lengths(M), S) /\ SumOf(Lengths(M), S) \in Nat
    BY <2>2, <2>3, SumSame, SumType
  <2>5. QED BY <2>1, <2>4 DEF TimeBefore, S
<1>6. TimeBefore(M, n) = SumOf(Lengths(M), Spans(M))
  BY <1>2 DEF TimeBefore
<1>7. TimeBefore(N, n + 1) = SumOf(Lengths(N), Spans(N))
  <2>1. \A i \in Spans(N) : i < n + 1
    BY <1>1, <1>2, <1>3
  <2>2. {i \in Spans(N) : i < n + 1} = Spans(N)
    BY <2>1
  <2>3. QED BY <2>2 DEF TimeBefore
<1>8. SumOf(Lengths(N), Spans(M)) = SumOf(Lengths(M), Spans(M))
  <2>1. IsFiniteSet(Spans(M)) /\ \A i \in Spans(M) : Lengths(M)[i] \in Nat /\ Lengths(N)[i] = Lengths(M)[i]
    BY <1>2, <1>3
  <2>2. QED BY <2>1, SumSame
<1>9. CASE same
  <2>1. Spans(N) = Spans(M) \cup {n} /\ Lengths(N)[n] = c.unwrapped - M[n].unwrapped
    BY <1>2, <1>9
  <2>2. SumOf(Lengths(N), Spans(M) \cup {n}) = SumOf(Lengths(N), Spans(M)) + Lengths(N)[n]
    <3>1. IsFiniteSet(Spans(M)) /\ n \notin Spans(M)
      BY <1>2, <1>3
    <3>2. \A i \in Spans(M) \cup {n} : Lengths(N)[i] \in Nat
      BY <1>4, <2>1
    <3>3. QED BY <3>1, <3>2, SumAdd
  <2>3. TimeBefore(N, n + 1) = TimeBefore(M, n) + (c.unwrapped - M[n].unwrapped)
    BY <1>6, <1>7, <1>8, <2>1, <2>2
  <2>4. QED BY <1>5, <1>6, <1>9, <2>3 DEF N, same
<1>10. CASE ~same
  <2>1. Spans(N) = Spans(M)
    BY <1>2, <1>10
  <2>2. TimeBefore(N, n + 1) = TimeBefore(M, n)
    BY <1>6, <1>7, <1>8, <2>1
  <2>3. n \in 0 .. n
    BY <1>1
  <2>4. TimeBefore(M, n) \in Nat
    BY <1>5, <2>3
  <2>5. TimeBefore(N, n + 1) = TimeBefore(M, n) + 0
    BY <2>2, <2>4
  <2>6. QED BY <1>5, <1>6, <1>10, <2>5 DEF N, same
<1>11. QED BY <1>9, <1>10

\* Packets that come later change no interval.
LEMMA AmountsLater ==
  ASSUME NEW M, NEW at, MarksGood(M, at), NEW X, NEW Y, \A k \in 1 .. at : Y[k] = X[k],
         NEW P, NEW S \in SUBSET Spans(M)
  PROVE  SumOf(Amounts(M, Y, P), S) = SumOf(Amounts(M, X, P), S)
<1>1. IsFiniteSet(S)
  BY SpansTyped
<1>2. ASSUME NEW i \in S
      PROVE  Amounts(M, X, P)[i] \in Nat /\ Amounts(M, Y, P)[i] = Amounts(M, X, P)[i]
  <2>1. i \in Spans(M) /\ i \in 1 .. Len(M) /\ i + 1 \in 1 .. Len(M)
    BY SpansTyped
  <2>2. M[i].pos \in Nat /\ M[i + 1].pos \in Nat /\ M[i + 1].pos <= at /\ at \in Nat
    BY <2>1, MarksTyped
  <2>3. \A k \in M[i].pos + 1 .. M[i + 1].pos : k \in 1 .. at
    BY <2>2
  <2>4. \A k \in M[i].pos + 1 .. M[i + 1].pos : Y[k] = X[k]
    BY <2>3
  <2>5. HeldBetween(M, Y, P, i) = HeldBetween(M, X, P, i)
    BY <2>4 DEF HeldBetween
  <2>6. /\ Amounts(M, X, P)[i] \in Nat
        /\ Amounts(M, X, P)[i] = Cardinality(HeldBetween(M, X, P, i))
        /\ Amounts(M, Y, P)[i] = Cardinality(HeldBetween(M, Y, P, i))
    BY <2>1, SpansTyped
  <2>7. QED BY <2>5, <2>6
<1>3. QED BY <1>1, <1>2, SumSame

\* Whether a PCR is in the segment of the one before it, and what the packets between
\* them add, in all and to a window.
Joined(M, c)     == Len(M) > 0 /\ c.segment = M[Len(M)].segment
Held(M, c, X, P) == Cardinality({k \in M[Len(M)].pos + 1 .. c.pos : X[k].counted /\ X[k].pid \in P})
AmountAdded(M, c, X, P) == IF Joined(M, c) THEN Held(M, c, X, P) ELSE 0
AmountAddedTo(M, c, X, P, w) ==
  IF Joined(M, c) /\ TimeBefore(M, Len(M)) \div Second = w THEN Held(M, c, X, P) ELSE 0

\* What the intervals hold in all and in a window, when a PCR is added.
LEMMA AmountsAppended ==
  ASSUME NEW M, NEW at, MarksGood(M, at), NEW c, NEW to \in Nat, MarksGood(Append(M, c), to),
         NEW X, NEW P
  PROVE  /\ SumOf(Amounts(Append(M, c), X, P), Spans(Append(M, c))) =
              SumOf(Amounts(M, X, P), Spans(M)) + AmountAdded(M, c, X, P)
         /\ \A w : SumOf(Amounts(Append(M, c), X, P), SpansOf(Append(M, c), w)) =
              SumOf(Amounts(M, X, P), SpansOf(M, w)) + AmountAddedTo(M, c, X, P, w)
<1> DEFINE N == Append(M, c)
           n == Len(M)
           same == n > 0 /\ c.segment = M[n].segment
           more == Cardinality({k \in M[n].pos + 1 .. c.pos : X[k].counted /\ X[k].pid \in P})
           A == Amounts(N, X, P)
           B == Amounts(M, X, P)
<1>1. n \in Nat
  BY MarksTyped
<1>2. /\ Spans(N) = IF same THEN Spans(M) \cup {n} ELSE Spans(M)
      /\ n \notin Spans(M)
      /\ \A i \in Spans(M) : HeldBetween(N, X, P, i) = HeldBetween(M, X, P, i)
      /\ same => HeldBetween(N, X, P, n) = {k \in M[n].pos + 1 .. c.pos : X[k].counted /\ X[k].pid \in P}
  BY SpansAppended
<1>3. \A k \in 0 .. n : TimeBefore(N, k) = TimeBefore(M, k)
  BY TimeAppended
<1> HIDE DEF N
<1>4. /\ \A S \in SUBSET Spans(M) : IsFiniteSet(S)
      /\ \A i \in Spans(M) : B[i] \in Nat /\ B[i] = Cardinality(HeldBetween(M, X, P, i)) /\ i \in 0 .. n
  BY <1>1, SpansTyped
<1>5. \A i \in Spans(N) : A[i] \in Nat /\ A[i] = Cardinality(HeldBetween(N, X, P, i))
  BY SpansTyped DEF N
<1> HIDE DEF same, more, A, B
<1>6. \A i \in Spans(M) : A[i] = B[i] /\ B[i] \in Nat
  BY <1>2, <1>4, <1>5
<1>7. same => A[n] = more /\ more \in Nat
  BY <1>2, <1>5 DEF more
<1>8. ASSUME NEW S \in SUBSET Spans(M)
      PROVE  /\ SumOf(A, S) = SumOf(B, S) /\ SumOf(B, S) \in Nat
             /\ same => SumOf(A, S \cup {n}) = SumOf(B, S) + more
  <2>1. IsFiniteSet(S) /\ n \notin S
    BY <1>2, <1>4
  <2>2. \A i \in S : B[i] \in Nat /\ A[i] = B[i]
    BY <1>6
  <2>3. SumOf(A, S) = SumOf(B, S) /\ SumOf(B, S) \in Nat
    BY <2>1, <2>2, SumSame, SumType
  <2>4. ASSUME same PROVE SumOf(A, S \cup {n}) = SumOf(A, S) + A[n]
    <3>1. \A i \in S \cup {n} : A[i] \in Nat
      BY <1>7, <2>2, <2>4
    <3>2. QED BY <2>1, <3>1, SumAdd
  <2>5. ASSUME same PROVE SumOf(A, S \cup {n}) = SumOf(B, S) + more
    <3>1. SumOf(A, S \cup {n}) = SumOf(A, S) + A[n] /\ A[n] = more
      BY <1>7, <2>4, <2>5
    <3>2. QED BY <2>3, <3>1
  <2>6. QED BY <2>3, <2>5, Zenon
<1>9. SumOf(A, Spans(N)) = SumOf(B, Spans(M)) + (IF same THEN more ELSE 0)
  <2> DEFINE S == Spans(M)
  <2>1. S \in SUBSET Spans(M)
    OBVIOUS
  <2>2. SumOf(A, S) = SumOf(B, S) /\ SumOf(B, S) \in Nat
        /\ (same => SumOf(A, S \cup {n}) = SumOf(B, S) + more)
    BY <1>8, <2>1
  <2>3. CASE same
    <3>1. Spans(N) = S \cup {n}
      BY <1>2, <2>3
    <3> HIDE DEF S
    <3>2. SumOf(A, Spans(N)) = SumOf(B, S) + more
      BY <2>2, <2>3, <3>1
    <3>3. QED BY <2>3, <3>2 DEF S
  <2>4. CASE ~same
    <3>1. Spans(N) = S
      BY <1>2, <2>4
    <3> HIDE DEF S
    <3>2. SumOf(A, Spans(N)) = SumOf(B, S) + 0
      BY <2>2, <3>1
    <3>3. QED BY <2>4, <3>2 DEF S
  <2>5. QED BY <2>3, <2>4
<1>10. ASSUME NEW w
       PROVE  SumOf(A, SpansOf(N, w)) =
                SumOf(B, SpansOf(M, w)) + (IF same /\ TimeBefore(M, n) \div Second = w THEN more ELSE 0)
  <2>1. \A i \in Spans(M) : TimeBefore(N, i) = TimeBefore(M, i)
    BY <1>3, <1>4
  <2>2. TimeBefore(N, n) = TimeBefore(M, n)
    <3>1. n \in 0 .. n
      BY <1>1
    <3>2. QED BY <1>3, <3>1
  <2>3. SpansOf(M, w) \in SUBSET Spans(M)
    BY DEF SpansOf
  <2>4. CASE same /\ TimeBefore(M, n) \div Second = w
    <3>1. SpansOf(N, w) = SpansOf(M, w) \cup {n}
      BY <1>2, <2>1, <2>2, <2>4 DEF SpansOf
    <3>2. QED BY <1>8, <2>3, <2>4, <3>1
  <2>5. CASE ~(same /\ TimeBefore(M, n) \div Second = w)
    <3>1. SpansOf(N, w) = SpansOf(M, w)
      BY <1>2, <2>1, <2>2, <2>5 DEF SpansOf
    <3>2. SumOf(A, SpansOf(N, w)) = SumOf(B, SpansOf(M, w)) /\ SumOf(B, SpansOf(M, w)) \in Nat
      BY <1>8, <2>3, <3>1
    <3>3. (IF same /\ TimeBefore(M, n) \div Second = w THEN more ELSE 0) = 0
      BY <2>5, Zenon
    <3>4. QED BY <3>2, <3>3
  <2>6. QED BY <2>4, <2>5
<1>11. /\ AmountAdded(M, c, X, P) = IF same THEN more ELSE 0
       /\ \A w : AmountAddedTo(M, c, X, P, w) =
                  IF same /\ TimeBefore(M, n) \div Second = w THEN more ELSE 0
  BY Zenon DEF AmountAdded, AmountAddedTo, Held, Joined, same, more
<1>12. /\ SumOf(A, Spans(N)) = SumOf(B, Spans(M)) + AmountAdded(M, c, X, P)
       /\ \A w : SumOf(A, SpansOf(N, w)) = SumOf(B, SpansOf(M, w)) + AmountAddedTo(M, c, X, P, w)
  <2> HIDE DEF n
  <2> QED BY <1>9, <1>10, <1>11
<1>13. QED BY <1>12 DEF N, A, B

-------------------------------------------------------------------------------
(* The bitrate.                                                              *)

BitrateType ==
  [started : BOOLEAN, elapsed : Nat, segments : Int, pending : [MuxPids -> Nat],
   total : [MuxPids -> Nat], buckets : [MuxPids -> [Windows -> Nat]],
   counted : SUBSET MuxPids, programPids : SUBSET MuxPids]

\* The packets on the PIDs P since the last PCR.
Waiting(M, X, P, at) == {k \in M[Len(M)].pos + 1 .. at : X[k].counted /\ X[k].pid \in P}

\* The bitrate b has counted the packets X up to at, with the PCRs M.
Measured(b, M, X, at) ==
  /\ b.started <=> Len(M) > 0
  /\ b.segments = IF Len(M) > 0 THEN M[Len(M)].segment ELSE 0
  /\ b.elapsed = TimeBefore(M, Len(M)) /\ b.elapsed <= PCRJumpLimit * Len(M)
PendingGood(b, M, X, at) ==
  Len(M) > 0 => \A P \in SUBSET MuxPids : SumOf(b.pending, P) = Cardinality(Waiting(M, X, P, at))
TotalGood(b, M, X) ==
  \A p \in MuxPids : b.total[p] = SumOf(Amounts(M, X, {p}), Spans(M))
BucketsGood(b, M, X) ==
  \A P \in SUBSET MuxPids, w \in Windows :
    SumOf(InWindow(b, w), P) = SumOf(Amounts(M, X, P), SpansOf(M, w))

BitrateGood(b, M, X, at) ==
  /\ b \in BitrateType /\ Measured(b, M, X, at) /\ PendingGood(b, M, X, at)
  /\ TotalGood(b, M, X) /\ BucketsGood(b, M, X)

\* The PIDs are finitely many.
LEMMA PidsFinite == IsFiniteSet(MuxPids) /\ \A P \in SUBSET MuxPids : IsFiniteSet(P)
<1>1. IsFiniteSet(((UNION StatStreams) \cup PcrPids) \cup {NullPid})
  <2>1. IsFiniteSet((UNION StatStreams) \cup PcrPids)
    BY StatsAssumption
  <2>2. QED BY <2>1, FS_AddElement
<1>2. IsFiniteSet(MuxPids)
  BY <1>1 DEF MuxPids
<1>3. QED BY <1>2, FS_Subset

\* No list of PCRs, no intervals.
LEMMA NoMarks ==
  ASSUME NEW at \in Nat
  PROVE  /\ MarksGood(<<>>, at) /\ Len(<<>>) = 0 /\ Spans(<<>>) = {} /\ TimeBefore(<<>>, 0) = 0
         /\ \A w : SpansOf(<<>>, w) = {}
<1>1. Len(<<>>) = 0 /\ <<>> \in Seq(Anchors)
  OBVIOUS
<1>2. Spans(<<>>) = {}
  BY <1>1 DEF Spans
<1>3. TimeBefore(<<>>, 0) = 0
  <2>1. {i \in Spans(<<>>) : i < 0} = {}
    BY <1>2
  <2>2. QED BY <2>1, SumOne DEF TimeBefore
<1>4. \A w : SpansOf(<<>>, w) = {}
  BY <1>2 DEF SpansOf
<1>5. MarksGood(<<>>, at)
  BY <1>1 DEF MarksGood
<1>6. QED BY <1>1, <1>2, <1>3, <1>4, <1>5

\* A layout changes what is counted, and nothing that was.
LEMMA PidsCounted ==
  ASSUME NEW b \in BitrateType, NEW pids \in StatStreams, NEW pcr \in PcrPids
  PROVE  LET c == CountPids(b, pids, pcr)
         IN /\ c \in BitrateType
            /\ c.started = b.started /\ c.segments = b.segments /\ c.elapsed = b.elapsed
            /\ c.pending = b.pending /\ c.total = b.total /\ c.buckets = b.buckets
<1> DEFINE c == CountPids(b, pids, pcr)
<1>0. pids \cup {pcr, NullPid} \in SUBSET MuxPids /\ pids \cup {pcr} \in SUBSET MuxPids
  BY DEF MuxPids
<1>2. c = [b EXCEPT !.counted = pids \cup {pcr, NullPid}, !.programPids = @ \cup pids \cup {pcr}]
  BY DEF CountPids
<1> HIDE DEF c
<1>3. b.programPids \cup pids \cup {pcr} \in SUBSET MuxPids
  BY <1>0 DEF BitrateType
<1>4. /\ c \in BitrateType
      /\ c.started = b.started /\ c.segments = b.segments /\ c.elapsed = b.elapsed
      /\ c.pending = b.pending /\ c.total = b.total /\ c.buckets = b.buckets
  BY <1>0, <1>2, <1>3 DEF BitrateType
<1>5. QED BY <1>4 DEF c

\* Nothing is counted yet.
LEMMA BitrateStarts ==
  ASSUME NEW pids \in StatStreams, NEW pcr \in PcrPids, NEW X
  PROVE  BitrateGood(NewBitrateStats(pids, pcr), <<>>, X, 0)
<1> DEFINE none == [p \in MuxPids |-> [w \in Windows |-> 0]]
           e == [started |-> FALSE, elapsed |-> 0, segments |-> 0, pending |-> NoBytes,
                 total |-> NoBytes, buckets |-> none, counted |-> {}, programPids |-> {}]
           b == NewBitrateStats(pids, pcr)
<1>1. b = CountPids(e, pids, pcr)
  BY DEF NewBitrateStats
<1> HIDE DEF b
<1>2. e \in BitrateType
  <2>1. NoBytes \in [MuxPids -> Nat]
    BY DEF NoBytes
  <2>2. none \in [MuxPids -> [Windows -> Nat]]
    OBVIOUS
  <2> HIDE DEF none
  <2>3. QED BY <2>1, <2>2 DEF BitrateType
<1>3. /\ e.started = FALSE /\ e.segments = 0 /\ e.elapsed = 0 /\ e.total = NoBytes /\ e.buckets = none
  OBVIOUS
<1> HIDE DEF e
<1>10. /\ b \in BitrateType
       /\ b.started = FALSE /\ b.segments = 0 /\ b.elapsed = 0 /\ b.total = NoBytes
       /\ b.buckets = none
  BY <1>1, <1>2, <1>3, PidsCounted
<1>4. Len(<<>>) = 0 /\ Spans(<<>>) = {} /\ TimeBefore(<<>>, 0) = 0 /\ \A w : SpansOf(<<>>, w) = {}
  BY NoMarks
<1>5. Measured(b, <<>>, X, 0) /\ PendingGood(b, <<>>, X, 0)
  <2>1. PCRJumpLimit * 0 = 0
    BY TimelineAssumption
  <2>2. QED BY <1>10, <1>4, <2>1 DEF Measured, PendingGood
<1>6. TotalGood(b, <<>>, X)
  BY <1>10, <1>4, SumOne DEF TotalGood, NoBytes
<1>7. BucketsGood(b, <<>>, X)
  <2>1. ASSUME NEW P \in SUBSET MuxPids, NEW w \in Windows
        PROVE  SumOf(InWindow(b, w), P) = SumOf(Amounts(<<>>, X, P), SpansOf(<<>>, w))
    <3>1. \A p \in P : InWindow(b, w)[p] = 0
      BY <1>10 DEF InWindow
    <3>2. SumOf(InWindow(b, w), P) = 0
      BY <3>1, PidsFinite, SumOfZeros
    <3>3. QED BY <1>4, <3>2, SumOne
  <2>2. QED BY <2>1 DEF BucketsGood
<1>8. QED BY <1>10, <1>5, <1>6, <1>7 DEF BitrateGood, b

\* A layout changes nothing that was counted.
LEMMA BitrateLayout ==
  ASSUME NEW b, NEW M, NEW X, NEW at, BitrateGood(b, M, X, at),
         NEW pids \in StatStreams, NEW pcr \in PcrPids
  PROVE  BitrateGood(CountPids(b, pids, pcr), M, X, at)
<1> DEFINE c == CountPids(b, pids, pcr)
<1>1. b \in BitrateType
  BY DEF BitrateGood
<1>2. /\ c \in BitrateType
      /\ c.started = b.started /\ c.segments = b.segments /\ c.elapsed = b.elapsed
      /\ c.pending = b.pending /\ c.total = b.total /\ c.buckets = b.buckets
  BY <1>1, PidsCounted
<1> HIDE DEF c
<1>3. QED BY <1>2 DEF BitrateGood, Measured, PendingGood, TotalGood, BucketsGood, InWindow, c

\* What waits on some PIDs, as a sum.
LEMMA PendingAdds ==
  ASSUME NEW f \in [MuxPids -> Nat], NEW p \in MuxPids, NEW P \in SUBSET MuxPids
  PROVE  /\ SumOf([f EXCEPT ![p] = @ + 1], P) = SumOf(f, P) + (IF p \in P THEN 1 ELSE 0)
         /\ SumOf(f, P) \in Nat
<1> DEFINE g == [f EXCEPT ![p] = @ + 1]
           Q == P \ {p}
<1>1. IsFiniteSet(P) /\ IsFiniteSet(Q) /\ Q \in SUBSET MuxPids
  BY PidsFinite
<1>2. g \in [MuxPids -> Nat] /\ g[p] = f[p] + 1 /\ f[p] \in Nat /\ \A q \in MuxPids : q # p => g[q] = f[q]
  OBVIOUS
<1> HIDE DEF g
<1>3. SumOf(f, P) \in Nat /\ SumOf(f, Q) \in Nat
  BY <1>1, SumType
<1>4. SumOf(g, Q) = SumOf(f, Q)
  <2>1. \A q \in Q : f[q] \in Nat /\ g[q] = f[q]
    BY <1>2
  <2> HIDE DEF Q
  <2>2. QED BY <1>1, <2>1, SumSame
<1>5. CASE p \in P
  <2>1. P = Q \cup {p} /\ p \notin Q
    BY <1>5
  <2>2. \A q \in Q \cup {p} : f[q] \in Nat /\ g[q] \in Nat
    BY <1>2
  <2> HIDE DEF Q
  <2>3. SumOf(f, Q \cup {p}) = SumOf(f, Q) + f[p] /\ SumOf(g, Q \cup {p}) = SumOf(g, Q) + g[p]
    BY <1>1, <2>1, <2>2, SumAdd
  <2>4. QED BY <1>2, <1>3, <1>4, <1>5, <2>1, <2>3 DEF g
<1>6. CASE p \notin P
  <2>1. Q = P
    BY <1>6
  <2>2. QED BY <1>3, <1>4, <1>6, <2>1 DEF g
<1>7. QED BY <1>5, <1>6

\* A packet is counted if its PID is.
LEMMA BitratePacket ==
  ASSUME NEW M, NEW at, MarksGood(M, at), NEW b, NEW X, BitrateGood(b, M, X, at),
         NEW p \in MuxPids, NEW Y, \A k \in 1 .. at : Y[k] = X[k],
         Y[at + 1].pid = p, Y[at + 1].counted <=> p \in b.counted
  PROVE  BitrateGood(CountPacket(b, p), M, Y, at + 1)
<1> DEFINE c == CountPacket(b, p)
           n == Len(M)
<1>0. b \in BitrateType /\ at \in Nat /\ n \in Nat
  BY MarksTyped DEF BitrateGood
<1>1. /\ c \in BitrateType
      /\ c.started = b.started /\ c.segments = b.segments /\ c.elapsed = b.elapsed
      /\ c.total = b.total /\ c.buckets = b.buckets
      /\ c.pending = IF p \in b.counted THEN [b.pending EXCEPT ![p] = @ + 1] ELSE b.pending
  <2>1. [b.pending EXCEPT ![p] = @ + 1] \in [MuxPids -> Nat]
    BY <1>0 DEF BitrateType
  <2>2. QED BY <1>0, <2>1 DEF CountPacket, BitrateType
<1> HIDE DEF c
<1>2. Measured(c, M, Y, at + 1)
  BY <1>1 DEF BitrateGood, Measured
<1>3. PendingGood(c, M, Y, at + 1)
  <2>1. SUFFICES ASSUME n > 0, NEW P \in SUBSET MuxPids
                 PROVE  SumOf(c.pending, P) = Cardinality(Waiting(M, Y, P, at + 1))
    BY DEF PendingGood
  <2> DEFINE W == Waiting(M, X, P, at)
             new == p \in b.counted /\ p \in P
  <2>2. SumOf(b.pending, P) = Cardinality(W)
    BY <2>1 DEF BitrateGood, PendingGood
  <2>3. M[n].pos \in Nat /\ M[n].pos <= at
    BY <1>0, <2>1, MarksTyped
  <2>4. Waiting(M, Y, P, at + 1) = IF new THEN W \cup {at + 1} ELSE W
    <3>1. \A k \in M[n].pos + 1 .. at + 1 : k = at + 1 \/ (k \in M[n].pos + 1 .. at /\ Y[k] = X[k])
      BY <1>0, <2>3
    <3>2. at + 1 \in M[n].pos + 1 .. at + 1 /\ M[n].pos + 1 .. at \subseteq M[n].pos + 1 .. at + 1
      BY <1>0, <2>3
    <3>3. \A k \in M[n].pos + 1 .. at : Y[k] = X[k] /\ k # at + 1
      BY <1>0, <2>3
    <3>4. (Y[at + 1].counted /\ Y[at + 1].pid \in P) <=> new
      OBVIOUS
    <3> HIDE DEF new
    <3>5. QED BY <3>1, <3>2, <3>3, <3>4 DEF Waiting
  <2>5. IsFiniteSet(W) /\ at + 1 \notin W
    <3>1. M[n].pos + 1 \in Int /\ at \in Int
      BY <1>0, <2>3
    <3>2. W \subseteq M[n].pos + 1 .. at
      BY DEF Waiting
    <3>3. IsFiniteSet(M[n].pos + 1 .. at)
      BY <3>1, FS_Interval
    <3>4. QED BY <3>1, <3>2, <3>3, FS_Subset
  <2>6. Cardinality(W \cup {at + 1}) = Cardinality(W) + 1 /\ Cardinality(W) \in Nat
    <3> HIDE DEF W
    <3> QED BY <2>5, FS_AddElement, FS_CardinalityType
  <2>7. b.pending \in [MuxPids -> Nat]
    BY <1>0 DEF BitrateType
  <2>8. /\ SumOf([b.pending EXCEPT ![p] = @ + 1], P) = SumOf(b.pending, P) + (IF p \in P THEN 1 ELSE 0)
        /\ SumOf(b.pending, P) \in Nat
    BY <2>7, PendingAdds
  <2> HIDE DEF W
  <2>9. CASE p \in b.counted /\ p \in P
    BY <1>1, <2>2, <2>4, <2>6, <2>8, <2>9
  <2>10. CASE p \in b.counted /\ p \notin P
    BY <1>1, <2>2, <2>4, <2>6, <2>8, <2>10
  <2>11. CASE p \notin b.counted
    BY <1>1, <2>2, <2>4, <2>6, <2>8, <2>11
  <2>12. QED BY <2>9, <2>10, <2>11
<1>4. TotalGood(c, M, Y)
  <2>1. ASSUME NEW q \in MuxPids PROVE c.total[q] = SumOf(Amounts(M, Y, {q}), Spans(M))
    <3>1. SumOf(Amounts(M, Y, {q}), Spans(M)) = SumOf(Amounts(M, X, {q}), Spans(M))
      BY AmountsLater
    <3>2. QED BY <1>1, <3>1 DEF BitrateGood, TotalGood
  <2>2. QED BY <2>1 DEF TotalGood
<1>5. BucketsGood(c, M, Y)
  <2>1. ASSUME NEW P \in SUBSET MuxPids, NEW w \in Windows
        PROVE  SumOf(InWindow(c, w), P) = SumOf(Amounts(M, Y, P), SpansOf(M, w))
    <3>1. SpansOf(M, w) \in SUBSET Spans(M)
      BY DEF SpansOf
    <3>2. SumOf(Amounts(M, Y, P), SpansOf(M, w)) = SumOf(Amounts(M, X, P), SpansOf(M, w))
      BY <3>1, AmountsLater
    <3>3. QED BY <1>1, <3>2 DEF BitrateGood, BucketsGood, InWindow
  <2>2. QED BY <2>1 DEF BucketsGood
<1>6. QED BY <1>1, <1>2, <1>3, <1>4, <1>5 DEF BitrateGood, c

\* The window of a time that the PCRs can measure exists.
LEMMA WindowExists ==
  ASSUME NEW n \in Nat, n <= MaxPackets, NEW t \in Nat, t <= PCRJumpLimit * n
  PROVE  t \div Second \in Windows
<1> DEFINE L == PCRJumpLimit
           a == MaxPackets * L
<1>1. L \in Nat /\ MaxPackets \in Nat /\ Second \in Nat /\ Second > 0
  BY TimelineAssumption, StatsAssumption
<1> HIDE DEF L
<1>2. L * n <= MaxPackets * L
  BY <1>1
<1>3. a \in Nat /\ t <= a
  BY <1>1, <1>2 DEF L
<1> HIDE DEF a
<1>4. /\ t \div Second \in Nat /\ a \div Second \in Nat
      /\ t = (Second * (t \div Second)) + (t % Second) /\ t % Second \in 0 .. Second - 1
      /\ a = (Second * (a \div Second)) + (a % Second) /\ a % Second \in 0 .. Second - 1
  BY <1>1, <1>3
<1>5. t \div Second <= a \div Second
  <2> DEFINE x == t \div Second
             y == a \div Second
             r == t % Second
             q == a % Second
  <2>1. SUFFICES ASSUME x > y PROVE FALSE
    BY <1>4
  <2>2. x \in Nat /\ y \in Nat /\ r \in Nat /\ q \in Nat /\ q < Second
        /\ t = (Second * x) + r /\ a = (Second * y) + q
    BY <1>1, <1>4
  <2> HIDE DEF x, y, r, q
  <2>3. Second * (y + 1) <= Second * x
    BY <1>1, <2>1, <2>2
  <2>4. Second * (y + 1) = Second * y + Second
    BY <1>1, <2>2
  <2>5. Second * x \in Nat /\ Second * y \in Nat
    BY <1>1, <2>2
  <2>6. QED BY <1>1, <1>3, <2>2, <2>3, <2>4, <2>5
<1>6. QED BY <1>4, <1>5 DEF Windows, a, L

\* A PCR ends the interval before it: it is measured if both lie in one segment of the
\* timeline, and dropped with what it holds if not.
LEMMA BitratePcr ==
  ASSUME NEW M, NEW before, MarksGood(M, before), NEW c, NEW at \in Nat, at <= MaxPackets,
         MarksGood(Append(M, c), at), c.pos = at, NEW b, NEW X, BitrateGood(b, M, X, at),
         NEW kind, NEW ticks,
         LET same == Len(M) > 0 /\ c.segment = M[Len(M)].segment
         IN /\ (Len(M) > 0 /\ Comparable(kind)) <=> same
            /\ same => ticks = c.unwrapped - M[Len(M)].unwrapped
  PROVE  BitrateGood(MarkPcrStep(b, kind, ticks), Append(M, c), X, at)
<1> DEFINE N == Append(M, c)
           n == Len(M)
           same == n > 0 /\ c.segment = M[n].segment
           d == MarkPcrStep(b, kind, ticks)
           win == b.elapsed \div Second
           adds == TotalWith(b)
           fills == BucketsWith(b)
<1>0. b \in BitrateType /\ n \in Nat /\ n <= at
  <2>1. Len(N) <= at /\ Len(N) = n + 1 /\ n \in Nat
    <3>1. Len(N) <= at
      BY DEF MarksGood
    <3>2. QED BY <3>1, MarksTyped, SpansAppended
  <2>2. QED BY <2>1 DEF BitrateGood
<1>1. /\ (n > 0 /\ Comparable(kind)) <=> same
      /\ same => ticks = c.unwrapped - M[n].unwrapped
  OBVIOUS
<1>2. /\ Len(N) = n + 1 /\ N[n + 1] = c /\ \A i \in 1 .. n : N[i] = M[i]
      /\ Spans(N) = IF same THEN Spans(M) \cup {n} ELSE Spans(M)
  BY SpansAppended
<1>3. /\ TimeBefore(N, n + 1) = TimeBefore(M, n) + (IF same THEN c.unwrapped - M[n].unwrapped ELSE 0)
      /\ TimeBefore(M, n) \in Nat
  <2>1. n \in 0 .. n
    BY <1>0
  <2>2. QED BY <2>1, TimeAppended
<1>30. ASSUME NEW P
      PROVE  LET more == Held(M, c, X, P)
             IN /\ SumOf(Amounts(N, X, P), Spans(N)) =
                     SumOf(Amounts(M, X, P), Spans(M)) + AmountAdded(M, c, X, P)
                /\ \A w : SumOf(Amounts(N, X, P), SpansOf(N, w)) =
                     SumOf(Amounts(M, X, P), SpansOf(M, w)) + AmountAddedTo(M, c, X, P, w)
                /\ AmountAdded(M, c, X, P) = IF same THEN more ELSE 0
                /\ \A w : AmountAddedTo(M, c, X, P, w) =
                             IF same /\ TimeBefore(M, n) \div Second = w THEN more ELSE 0
  <2>1. /\ SumOf(Amounts(N, X, P), Spans(N)) =
             SumOf(Amounts(M, X, P), Spans(M)) + AmountAdded(M, c, X, P)
        /\ \A w : SumOf(Amounts(N, X, P), SpansOf(N, w)) =
             SumOf(Amounts(M, X, P), SpansOf(M, w)) + AmountAddedTo(M, c, X, P, w)
    BY AmountsAppended
  <2>2. /\ AmountAdded(M, c, X, P) = IF same THEN Held(M, c, X, P) ELSE 0
        /\ \A w : AmountAddedTo(M, c, X, P, w) =
                    IF same /\ TimeBefore(M, n) \div Second = w THEN Held(M, c, X, P) ELSE 0
    BY Zenon DEF AmountAdded, AmountAddedTo, Joined
  <2>3. QED BY <2>1, <2>2
<1>4. /\ b.started <=> n > 0
      /\ b.segments = IF n > 0 THEN M[n].segment ELSE 0
      /\ b.elapsed = TimeBefore(M, n) /\ b.elapsed <= PCRJumpLimit * n
  BY DEF BitrateGood, Measured
<1>5. win \in Windows
  <2>1. b.elapsed \in Nat /\ n <= MaxPackets
    BY <1>0, StatsAssumption DEF BitrateType
  <2>2. QED BY <1>0, <1>4, <2>1, WindowExists DEF win
<1>20. /\ adds = [p \in MuxPids |-> b.total[p] + b.pending[p]]
       /\ fills = [p \in MuxPids |-> [b.buckets[p] EXCEPT ![win] = @ + b.pending[p]]]
  BY DEF TotalWith, BucketsWith
<1> HIDE DEF adds, fills, win
<1>6. adds \in [MuxPids -> Nat] /\ fills \in [MuxPids -> [Windows -> Nat]] /\ NoBytes \in [MuxPids -> Nat]
  <2>1. \A p \in MuxPids : b.total[p] \in Nat /\ b.pending[p] \in Nat /\ b.buckets[p] \in [Windows -> Nat]
    BY <1>0 DEF BitrateType
  <2>2. adds \in [MuxPids -> Nat] /\ NoBytes \in [MuxPids -> Nat]
    BY <1>20, <2>1 DEF NoBytes
  <2>3. ASSUME NEW p \in MuxPids
        PROVE  [b.buckets[p] EXCEPT ![win] = @ + b.pending[p]] \in [Windows -> Nat]
    BY <1>5, <2>1
  <2>4. QED BY <1>20, <2>2, <2>3
<1>7. /\ Following(M[n], c) \/ n = 0
      /\ n = 0 => c.segment = 1
  <2>1. n > 0 => n \in 1 .. Len(N) - 1 /\ n \in 1 .. n
    BY <1>0, <1>2
  <2>2. n > 0 => Following(N[n], N[n + 1])
    BY <2>1 DEF MarksGood
  <2>3. n = 0 => N[1].segment = 1
    BY <1>2 DEF MarksGood
  <2>4. QED BY <1>0, <1>2, <2>1, <2>2, <2>3
<1> DEFINE first == [b EXCEPT !.started = TRUE, !.segments = 1, !.pending = NoBytes]
           ends  == [b EXCEPT !.segments = @ + 1, !.pending = NoBytes]
           goes  == [b EXCEPT !.total = adds, !.buckets = fills, !.elapsed = @ + ticks, !.pending = NoBytes]
<1>8. d = IF n = 0 THEN first ELSE IF ~same THEN ends ELSE goes
  <2>1. d = IF ~b.started THEN first ELSE IF ~Comparable(kind) THEN ends ELSE goes
    BY DEF MarkPcrStep, adds, fills
  <2> HIDE DEF d, first, ends, goes, same
  <2>2. QED BY <1>0, <1>1, <1>4, <2>1 DEF same
<1>9. same => /\ ticks \in Nat /\ ticks <= PCRJumpLimit
  <2>1. SUFFICES ASSUME same PROVE ticks \in Nat /\ ticks <= PCRJumpLimit
    OBVIOUS
  <2>2. n \in Spans(N) /\ n \in 1 .. n
    BY <1>0, <1>2, <2>1
  <2>3. Lengths(N)[n] \in Nat /\ Lengths(N)[n] <= PCRJumpLimit /\ Lengths(N)[n] = c.unwrapped - M[n].unwrapped
    BY <1>2, <2>2, SpansTyped
  <2>4. QED BY <1>1, <2>1, <2>3
<1> HIDE DEF N, d
<1>10. /\ d \in BitrateType /\ d.started = TRUE /\ d.pending = NoBytes
       /\ d.segments = IF n = 0 THEN 1 ELSE IF same THEN b.segments ELSE b.segments + 1
       /\ d.elapsed = IF same THEN b.elapsed + ticks ELSE b.elapsed
       /\ d.total = IF same THEN adds ELSE b.total
       /\ d.buckets = IF same THEN fills ELSE b.buckets
  <2>1. CASE n = 0
    <3>1. d = first /\ ~same
      BY <1>8, <2>1
    <3>2. first \in BitrateType
      <4>1. TRUE \in BOOLEAN /\ 1 \in Int
        OBVIOUS
      <4>2. QED BY <1>0, <1>6, <4>1 DEF BitrateType
    <3>5. first.started = TRUE /\ first.pending = NoBytes
      BY <1>0 DEF BitrateType
    <3>3. first.segments = 1 /\ first.elapsed = b.elapsed /\ first.total = b.total /\ first.buckets = b.buckets
      BY <1>0 DEF BitrateType
    <3> HIDE DEF first, same
    <3>4. QED BY <2>1, <3>1, <3>2, <3>3, <3>5
  <2>2. CASE n # 0 /\ ~same
    <3>1. d = ends /\ b.segments + 1 \in Int /\ b.started = TRUE
      BY <1>0, <1>4, <1>8, <2>2 DEF BitrateType
    <3>2. ends \in BitrateType /\ ends.started = b.started /\ ends.pending = NoBytes
      BY <1>0, <1>6, <3>1 DEF BitrateType
    <3>3. ends.segments = b.segments + 1 /\ ends.elapsed = b.elapsed /\ ends.total = b.total /\ ends.buckets = b.buckets
      BY <1>0 DEF BitrateType
    <3> HIDE DEF ends, same
    <3>4. QED BY <2>2, <3>1, <3>2, <3>3
  <2>3. CASE n # 0 /\ same
    <3>1. d = goes /\ b.elapsed + ticks \in Nat /\ b.started = TRUE
      BY <1>0, <1>4, <1>8, <1>9, <2>3 DEF BitrateType
    <3>2. goes \in BitrateType /\ goes.started = b.started /\ goes.pending = NoBytes
      BY <1>0, <1>6, <3>1 DEF BitrateType
    <3>3. goes.segments = b.segments /\ goes.elapsed = b.elapsed + ticks /\ goes.total = adds /\ goes.buckets = fills
      BY <1>0 DEF BitrateType
    <3> HIDE DEF goes, same
    <3>4. QED BY <2>3, <3>1, <3>2, <3>3
  <2>4. QED BY <1>0, <2>1, <2>2, <2>3
<1> HIDE DEF first, ends, goes
<1>11. Measured(d, N, X, at)
  <2>1. d.segments = c.segment
    <3>1. (M[n].segment \in Int /\ c.segment \in Int) \/ n = 0
      <4>1. n > 0 => n \in 1 .. n /\ n + 1 \in 1 .. Len(N) /\ n \in 1 .. Len(N)
        BY <1>0, <1>2
      <4>2. n > 0 => N[n + 1].segment \in Int /\ N[n].segment \in Int
        BY <4>1, MarksTyped DEF N
      <4>3. QED BY <1>0, <1>2, <4>1, <4>2
    <3>2. QED BY <1>0, <1>4, <1>7, <1>10, <3>1 DEF Following
  <2>2. d.elapsed = TimeBefore(N, n + 1)
    BY <1>1, <1>3, <1>4, <1>10
  <2>3. d.elapsed <= PCRJumpLimit * (n + 1)
    <3>1. PCRJumpLimit * (n + 1) = PCRJumpLimit * n + PCRJumpLimit /\ PCRJumpLimit \in Nat
          /\ PCRJumpLimit * n \in Nat
      BY <1>0, TimelineAssumption
    <3>2. b.elapsed \in Nat
      BY <1>0 DEF BitrateType
    <3>3. QED BY <1>4, <1>9, <1>10, <3>1, <3>2
  <2>4. QED BY <1>0, <1>2, <1>10, <2>1, <2>2, <2>3 DEF Measured
<1>12. PendingGood(d, N, X, at)
  <2>1. ASSUME NEW P \in SUBSET MuxPids
        PROVE  SumOf(d.pending, P) = Cardinality(Waiting(N, X, P, at))
    <3>1. N[Len(N)].pos + 1 .. at = {}
      BY <1>2
    <3>2. Waiting(N, X, P, at) = {}
      BY <3>1 DEF Waiting
    <3>3. \A p \in P : NoBytes[p] = 0
      BY DEF NoBytes
    <3>4. QED BY <1>10, <3>2, <3>3, PidsFinite, SumOfZeros, FS_EmptySet
  <2>2. QED BY <2>1 DEF PendingGood
<1>13. ASSUME NEW P \in SUBSET MuxPids
       PROVE  /\ same => SumOf(b.pending, P) = Held(M, c, X, P)
              /\ SumOf(b.pending, P) \in Nat
  <2>1. \A p \in P : b.pending[p] \in Nat
    BY <1>0 DEF BitrateType
  <2>2. SumOf(b.pending, P) \in Nat
    BY <2>1, PidsFinite, SumType
  <2>3. same => SumOf(b.pending, P) = Cardinality(Waiting(M, X, P, at))
    BY DEF BitrateGood, PendingGood
  <2>4. QED BY <2>2, <2>3 DEF Waiting, Held
<1>14. TotalGood(d, N, X)
  <2>1. ASSUME NEW p \in MuxPids PROVE d.total[p] = SumOf(Amounts(N, X, {p}), Spans(N))
    <3> DEFINE more == Held(M, c, X, {p})
    <3>1. /\ SumOf(Amounts(N, X, {p}), Spans(N)) =
               SumOf(Amounts(M, X, {p}), Spans(M)) + AmountAdded(M, c, X, {p})
          /\ AmountAdded(M, c, X, {p}) = IF same THEN more ELSE 0
      BY <1>30
    <3>2. b.total[p] = SumOf(Amounts(M, X, {p}), Spans(M)) /\ b.total[p] \in Nat /\ b.pending[p] \in Nat
      BY <1>0 DEF BitrateGood, TotalGood, BitrateType
    <3>3. {p} \in SUBSET MuxPids /\ SumOf(b.pending, {p}) = b.pending[p]
      BY <3>2, SumOne
    <3>4. same => b.pending[p] = more
      BY <1>13, <3>3
    <3> HIDE DEF more, same
    <3>5. CASE same
      BY <1>10, <1>20, <3>1, <3>2, <3>4, <3>5
    <3>6. CASE ~same
      BY <1>10, <3>1, <3>2, <3>6
    <3>7. QED BY <3>5, <3>6
  <2>2. QED BY <2>1 DEF TotalGood
<1>15. BucketsGood(d, N, X)
  <2>1. ASSUME NEW P \in SUBSET MuxPids, NEW w \in Windows
        PROVE  SumOf(InWindow(d, w), P) = SumOf(Amounts(N, X, P), SpansOf(N, w))
    <3> DEFINE more == Held(M, c, X, P)
               f == InWindow(b, w)
               g == InWindow(d, w)
    <3>1. /\ SumOf(Amounts(N, X, P), SpansOf(N, w)) =
               SumOf(Amounts(M, X, P), SpansOf(M, w)) + AmountAddedTo(M, c, X, P, w)
          /\ AmountAddedTo(M, c, X, P, w) =
               IF same /\ TimeBefore(M, n) \div Second = w THEN more ELSE 0
      BY <1>30
    <3>2. SumOf(f, P) = SumOf(Amounts(M, X, P), SpansOf(M, w))
      BY DEF BitrateGood, BucketsGood
    <3>3. \A p \in P : /\ b.buckets[p] \in [Windows -> Nat] /\ b.pending[p] \in Nat
                       /\ f[p] = b.buckets[p][w] /\ g[p] = d.buckets[p][w]
      BY <1>0 DEF BitrateType, InWindow
    <3>4. \A p \in P : f[p] \in Nat
      BY <3>3
    <3>5. IsFiniteSet(P)
      BY PidsFinite
    <3> HIDE DEF f, g
    <3>6. SumOf(f, P) \in Nat
      BY <3>4, <3>5, SumType
    <3>7. same => SumOf(b.pending, P) = more
      BY <1>13
    <3> HIDE DEF more, same
    <3>8. CASE same /\ win = w
      <4>1. \A p \in P : b.pending[p] \in Nat /\ g[p] = f[p] + b.pending[p]
        <5>1. ASSUME NEW p \in P PROVE g[p] = f[p] + b.pending[p]
          <6>1. d.buckets[p] = [b.buckets[p] EXCEPT ![win] = @ + b.pending[p]]
            BY <1>10, <1>20, <3>8
          <6>2. d.buckets[p][w] = b.buckets[p][w] + b.pending[p]
            BY <3>3, <3>8, <6>1
          <6>3. QED BY <3>3, <6>2
        <5>2. QED BY <3>3, <5>1
      <4>2. SumOf(g, P) = SumOf(f, P) + SumOf(b.pending, P)
        BY <3>4, <3>5, <4>1, SumOfSums
      <4>3. TimeBefore(M, n) \div Second = w
        BY <1>4, <3>8 DEF win
      <4>4. SumOf(Amounts(N, X, P), SpansOf(N, w)) = SumOf(Amounts(M, X, P), SpansOf(M, w)) + more
        BY <3>1, <3>8, <4>3
      <4>5. QED BY <3>2, <3>7, <3>8, <4>2, <4>4 DEF g
    <3>9. CASE ~(same /\ win = w)
      <4>1. \A p \in P : f[p] \in Nat /\ g[p] = f[p]
        <5>1. ASSUME NEW p \in P PROVE d.buckets[p][w] = b.buckets[p][w]
          <6>1. CASE ~same
            BY <1>10, <6>1
          <6>2. CASE same
            <7>1. d.buckets[p] = [b.buckets[p] EXCEPT ![win] = @ + b.pending[p]]
              BY <1>10, <1>20, <6>2
            <7>2. QED BY <3>3, <3>9, <6>2, <7>1
          <6>3. QED BY <6>1, <6>2
        <5>2. QED BY <3>3, <3>4, <5>1
      <4>2. SumOf(g, P) = SumOf(f, P)
        BY <3>5, <4>1, SumSame
      <4>3. AmountAddedTo(M, c, X, P, w) = 0
        <5>1. ~(same /\ TimeBefore(M, n) \div Second = w)
          BY <1>4, <3>9 DEF win
        <5>2. QED BY <3>1, <5>1, Zenon
      <4>4. QED BY <3>1, <3>2, <3>6, <4>2, <4>3 DEF g
    <3>10. QED BY <3>8, <3>9
  <2>2. QED BY <2>1 DEF BucketsGood
<1>16. QED BY <1>10, <1>11, <1>12, <1>14, <1>15 DEF BitrateGood, N, d

\* The sum of the model.
LEMMA SumOverIs ==
  ASSUME NEW f, NEW S
  PROVE  SumOver(f, S) = SumOf(f, S)
BY DEF SumOver, MapThenSumSet, MapThenFoldSet, SumOf, Sums, TakenFirst

\* The time series holds the time before each PCR.
SeriesGood(points, M) ==
  /\ Len(points) = Len(M) /\ points \in Seq([pos : Int, kind : PCRStepKinds, elapsed : Nat])
  /\ \A n \in 1 .. Len(M) : points[n].elapsed = TimeBefore(M, n)

\* The packets that were read.
MuxGood(X, at) == X \in Seq([pid : MuxPids, counted : BOOLEAN]) /\ Len(X) = at

\* The properties speak of the same intervals.
LEMMA SpansAreMeasured ==
  /\ MeasuredSpans = Spans(marks) /\ SpanTicks = Lengths(marks)
  /\ \A P : Counted(P) = Amounts(marks, mux, P)
  /\ \A n : TicksBefore(n) = TimeBefore(marks, n)
  /\ \A P, w : CountedInWindow(w, P) = SumOf(Amounts(marks, mux, P), SpansOf(marks, w))
<1>1. MeasuredSpans = Spans(marks)
  BY DEF MeasuredSpans, Spans
<1>2. SpanTicks = Lengths(marks)
  BY <1>1 DEF SpanTicks, Lengths
<1>3. ASSUME NEW P PROVE Counted(P) = Amounts(marks, mux, P)
  <2>1. \A i : CountedIn(i, P) = Cardinality(HeldBetween(marks, mux, P, i))
    BY DEF CountedIn, HeldBetween
  <2>2. QED BY <1>1, <2>1 DEF Counted, Amounts
<1>4. ASSUME NEW n PROVE TicksBefore(n) = TimeBefore(marks, n)
  BY <1>1, <1>2, SumOverIs DEF TicksBefore, TimeBefore
<1>5. ASSUME NEW P, NEW w
      PROVE  CountedInWindow(w, P) = SumOf(Amounts(marks, mux, P), SpansOf(marks, w))
  <2>1. {i \in MeasuredSpans : TicksBefore(i) \div Second = w} = SpansOf(marks, w)
    BY <1>1, <1>4 DEF SpansOf
  <2>2. CountedInWindow(w, P) = SumOver(Counted(P), SpansOf(marks, w))
    BY <2>1 DEF CountedInWindow
  <2>3. QED BY <1>3, <2>2, SumOverIs
<1>6. QED BY <1>1, <1>2, <1>3, <1>4, <1>5

\* Packets on PIDs that never occur change no interval.
LEMMA AmountsOfOccurring ==
  ASSUME NEW M, NEW at, MarksGood(M, at), NEW X, MuxGood(X, at), NEW P, NEW S \in SUBSET Spans(M)
  PROVE  SumOf(Amounts(M, X, {X[k].pid : k \in DOMAIN X} \cap P), S) = SumOf(Amounts(M, X, P), S)
<1> DEFINE Q == {X[k].pid : k \in DOMAIN X} \cap P
<1>1. IsFiniteSet(S)
  BY SpansTyped
<1>2. DOMAIN X = 1 .. at
  BY DEF MuxGood
<1>3. ASSUME NEW i \in S
      PROVE  Amounts(M, X, P)[i] \in Nat /\ Amounts(M, X, Q)[i] = Amounts(M, X, P)[i]
  <2>1. i \in Spans(M) /\ i \in 1 .. Len(M) /\ i + 1 \in 1 .. Len(M)
    BY SpansTyped
  <2>2. M[i].pos \in Nat /\ M[i + 1].pos \in Nat /\ M[i + 1].pos <= at /\ at \in Nat
    BY <2>1, MarksTyped
  <2>3. \A k \in M[i].pos + 1 .. M[i + 1].pos : k \in DOMAIN X
    BY <1>2, <2>2
  <2>4. \A k \in M[i].pos + 1 .. M[i + 1].pos : X[k].pid \in Q <=> X[k].pid \in P
    BY <2>3
  <2>5. HeldBetween(M, X, Q, i) = HeldBetween(M, X, P, i)
    <3> HIDE DEF Q
    <3> QED BY <2>4 DEF HeldBetween
  <2>6. /\ Amounts(M, X, P)[i] \in Nat
        /\ Amounts(M, X, P)[i] = Cardinality(HeldBetween(M, X, P, i))
        /\ Amounts(M, X, Q)[i] = Cardinality(HeldBetween(M, X, Q, i))
    BY <2>1, SpansTyped
  <2>7. QED BY <2>5, <2>6
<1> HIDE DEF Q
<1>4. SumOf(Amounts(M, X, Q), S) = SumOf(Amounts(M, X, P), S)
  BY <1>1, <1>3, SumSame
<1>5. QED BY <1>4 DEF Q

\* A bitrate that counted the packets with these PCRs is as it is defined.
LEMMA BitrateIsDefined ==
  ASSUME pos \in Nat, pos <= MaxPackets, MarksGood(marks, pos), MuxGood(mux, pos),
         BitrateGood(bitrate, marks, mux, pos), SeriesGood(series, marks)
  PROVE  BitrateAsDefined
<1> DEFINE M == marks
           n == Len(marks)
           program == {mux[k].pid : k \in DOMAIN mux} \cap bitrate.programPids
<1>1. SUFFICES ASSUME marks # <<>>
               PROVE  /\ bitrate.elapsed = TicksBefore(n)
                      /\ bitrate.segments = Last(M).segment
                      /\ \A p \in MuxPids :
                           /\ bitrate.total[p] = SumOver(Counted({p}), MeasuredSpans)
                           /\ Peak(bitrate, {p}) =
                                Max({0} \cup {CountedInWindow(w, {p}) : w \in FullWindows(bitrate)})
                      /\ Peak(bitrate, bitrate.programPids) =
                           Max({0} \cup {CountedInWindow(w, program) : w \in FullWindows(bitrate)})
                      /\ \A i \in DOMAIN M : series[i].elapsed = TicksBefore(i)
  BY DEF BitrateAsDefined
<1>2. n \in Nat /\ DOMAIN M = 1 .. n /\ n > 0 /\ n <= pos /\ M \in Seq(Anchors)
  BY <1>1, MarksTyped DEF MarksGood
<1>3. bitrate \in BitrateType /\ Measured(bitrate, M, mux, pos)
  BY DEF BitrateGood
<1>4. bitrate.elapsed = TicksBefore(n)
  BY <1>3, SpansAreMeasured DEF Measured
<1>5. bitrate.segments = Last(M).segment
  BY <1>2, <1>3 DEF Measured, Last
<1>6. ASSUME NEW p \in MuxPids PROVE bitrate.total[p] = SumOver(Counted({p}), MeasuredSpans)
  <2>1. bitrate.total[p] = SumOf(Amounts(M, mux, {p}), Spans(M))
    BY DEF BitrateGood, TotalGood
  <2>2. QED BY <2>1, SpansAreMeasured, SumOverIs
<1>7. FullWindows(bitrate) \subseteq Windows
  <2>1. bitrate.elapsed \in Nat /\ bitrate.elapsed <= PCRJumpLimit * n /\ n <= MaxPackets
    BY <1>2, <1>3, StatsAssumption DEF BitrateType, Measured
  <2>2. bitrate.elapsed \div Second \in Windows
    BY <1>2, <2>1, WindowExists
  <2> DEFINE x == bitrate.elapsed \div Second
             y == (MaxPackets * PCRJumpLimit) \div Second
  <2>3. x \in 0 .. y /\ FullWindows(bitrate) = 0 .. x - 1 /\ Windows = 0 .. y
    BY <2>2 DEF FullWindows, FullBuckets, Windows
  <2>4. y \in Int
    <3>1. MaxPackets * PCRJumpLimit \in Nat /\ Second \in Nat \ {0}
      BY TimelineAssumption, StatsAssumption
    <3> HIDE DEF Windows
    <3>2. QED BY <3>1
  <2> HIDE DEF x, y
  <2>5. x \in Int /\ x <= y
    BY <2>3, <2>4
  <2>6. \A w \in 0 .. x - 1 : w \in 0 .. y
    BY <2>4, <2>5
  <2>7. QED BY <2>3, <2>6
<1>8. ASSUME NEW P \in SUBSET MuxPids
      PROVE  Peak(bitrate, P) = Max({0} \cup {CountedInWindow(w, P) : w \in FullWindows(bitrate)})
  <2>1. \A w \in FullWindows(bitrate) : SumOver(InWindow(bitrate, w), P) = CountedInWindow(w, P)
    BY <1>7, SumOverIs, SpansAreMeasured DEF BitrateGood, BucketsGood
  <2>2. {SumOver(InWindow(bitrate, w), P) : w \in FullWindows(bitrate)}
          = {CountedInWindow(w, P) : w \in FullWindows(bitrate)}
    BY <2>1
  <2>3. QED BY <2>2 DEF Peak
<1>9. \A w : CountedInWindow(w, program) = CountedInWindow(w, bitrate.programPids)
  <2>1. ASSUME NEW w PROVE CountedInWindow(w, program) = CountedInWindow(w, bitrate.programPids)
    <3>1. SpansOf(M, w) \in SUBSET Spans(M)
      BY DEF SpansOf
    <3>2. SumOf(Amounts(M, mux, program), SpansOf(M, w))
            = SumOf(Amounts(M, mux, bitrate.programPids), SpansOf(M, w))
      BY <3>1, AmountsOfOccurring
    <3>3. QED BY <3>2, SpansAreMeasured
  <2>2. QED BY <2>1
<1>10. Peak(bitrate, bitrate.programPids) =
         Max({0} \cup {CountedInWindow(w, program) : w \in FullWindows(bitrate)})
  <2>1. bitrate.programPids \in SUBSET MuxPids
    BY <1>3 DEF BitrateType
  <2>2. {CountedInWindow(w, program) : w \in FullWindows(bitrate)}
          = {CountedInWindow(w, bitrate.programPids) : w \in FullWindows(bitrate)}
    <3> HIDE DEF program
    <3> QED BY <1>9
  <2>3. QED BY <1>8, <2>1, <2>2
<1>11. \A i \in DOMAIN M : series[i].elapsed = TicksBefore(i)
  BY <1>2, SpansAreMeasured DEF SeriesGood
<1>12. \A p \in MuxPids : Peak(bitrate, {p}) =
                            Max({0} \cup {CountedInWindow(w, {p}) : w \in FullWindows(bitrate)})
  BY <1>8
<1>13. QED BY <1>4, <1>5, <1>6, <1>10, <1>11, <1>12

\* The code's last PCR is the last of the list.
ClockLinked ==
  LET n == Len(marks) IN
  /\ n > 0 <=> prevPcr.valid
  /\ n = 0 => clock.segment = 0
  /\ clock.valid => n > 0 /\ clock = marks[n]
  /\ n > 0 => /\ marks[n].pcr = prevPcr.value /\ marks[n].segment = clock.segment
              /\ prevPcr = [valid |-> TRUE, pid |-> samples[n].pid, value |-> samples[n].value]

StoredPcrs == [pos : Nat, pid : PcrPids, value : Values, discontinuity : BOOLEAN, pidChanged : BOOLEAN]

\* The stored samples are the PCRs of the list, and tell the segments and times again.
SamplesGood(s, M) ==
  /\ s \in Seq(StoredPcrs) /\ Len(s) = Len(M)
  /\ \A i \in 1 .. Len(M) : s[i].pos = M[i].pos /\ s[i].value = M[i].pcr
  /\ \A i \in 1 .. Len(M) - 1 :
       /\ Comparable(StoredKind(s, i + 1)) <=> M[i].segment = M[i + 1].segment
       /\ M[i].segment = M[i + 1].segment =>
            StepTicks(s[i], s[i + 1]) = M[i + 1].unwrapped - M[i].unwrapped

\* A stored sample by its fields.
LEMMA SampleByFields ==
  ASSUME NEW at \in Nat, NEW p \in PcrPids, NEW v \in Values, NEW d \in BOOLEAN, NEW c \in BOOLEAN
  PROVE  [pos |-> at, pid |-> p, value |-> v, discontinuity |-> d, pidChanged |-> c] \in StoredPcrs
BY Zenon DEF StoredPcrs

\* A list of PCRs stays one when a packet without a PCR comes.
LEMMA MarksLater ==
  ASSUME NEW M, NEW at, MarksGood(M, at)
  PROVE  MarksGood(M, at + 1)
BY DEF MarksGood

\* And with a PCR that follows the last one.
LEMMA MarksAppended ==
  ASSUME NEW M, NEW at, MarksGood(M, at), NEW c \in Anchors, c.pos = at + 1,
         Len(M) > 0 => Following(M[Len(M)], c),
         Len(M) = 0 => c.segment = 1 /\ c.unwrapped = c.pcr
  PROVE  MarksGood(Append(M, c), at + 1)
<1> DEFINE N == Append(M, c)
           n == Len(M)
<1>1. M \in Seq(Anchors) /\ at \in Nat /\ n \in Nat /\ n <= at
  BY DEF MarksGood
<1>2. N \in Seq(Anchors) /\ Len(N) = n + 1 /\ N[n + 1] = c /\ \A i \in 1 .. n : N[i] = M[i]
  BY <1>1
<1>3. ASSUME NEW i \in 1 .. n + 1 PROVE N[i].pos \in 1 .. at + 1
  <2>1. CASE i = n + 1
    BY <1>1, <1>2, <2>1
  <2>2. CASE i # n + 1
    <3>1. i \in 1 .. n
      BY <1>1, <2>2
    <3>2. M[i].pos \in 1 .. at
      BY <3>1 DEF MarksGood
    <3>3. QED BY <1>1, <1>2, <3>1, <3>2
  <2>3. QED BY <2>1, <2>2
<1>4. ASSUME NEW i \in 1 .. n PROVE Following(N[i], N[i + 1])
  <2>1. CASE i = n
    BY <1>1, <1>2, <2>1
  <2>2. CASE i # n
    <3>1. i \in 1 .. n - 1 /\ i + 1 \in 1 .. n
      BY <1>1, <2>2
    <3>2. Following(M[i], M[i + 1])
      BY <3>1 DEF MarksGood
    <3>3. QED BY <1>2, <3>1, <3>2
  <2>3. QED BY <2>1, <2>2
<1>5. N[1].segment = 1 /\ N[1].unwrapped = N[1].pcr
  <2>1. CASE n = 0
    BY <1>2, <2>1
  <2>2. CASE n > 0
    <3>1. M[1].segment = 1 /\ M[1].unwrapped = M[1].pcr /\ 1 \in 1 .. n
      BY <1>1, <2>2 DEF MarksGood
    <3>2. QED BY <1>2, <3>1
  <2>3. QED BY <1>1, <2>1, <2>2
<1> HIDE DEF N, n
<1>6. MarksGood(N, at + 1)
  <2>1. at + 1 \in Nat /\ Len(N) <= at + 1 /\ Len(N) - 1 = n
    BY <1>1, <1>2
  <2>2. \A i \in 1 .. Len(N) : N[i].pos \in 1 .. at + 1
    BY <1>2, <1>3
  <2>3. \A i \in 1 .. Len(N) - 1 : Following(N[i], N[i + 1])
    BY <1>4, <2>1
  <2>4. QED BY <1>2, <1>5, <2>1, <2>2, <2>3 DEF MarksGood
<1>7. QED BY <1>6 DEF N

\* A PCR is the next of the list, in the segment of the last exactly if the step to it is
\* measured, and then as long after it as the step says.
LEMMA PcrMarked ==
  ASSUME ClockInv, ClockLinked, MarksGood(marks, pos), pos \in Nat, NEW move \in Moves,
         NEW indicated \in BOOLEAN, NEW sample,
         sample = [pos |-> pos + 1, pid |-> pcrPid, value |-> (prevPcr.value + move) % PCRWrapTicks,
                   discontinuity |-> Declared(indicated), pidChanged |-> pcrPidChanged],
         ObservePcr(move, indicated, pos + 1)
  PROVE  LET n     == Len(marks)
             kind  == StepKind(prevPcr, sample)
             same  == n > 0 /\ clock'.segment = marks[n].segment
             ticks == StepTicks(prevPcr, sample)
         IN /\ ClockInv' /\ clock'.pos = pos + 1 /\ clock'.pcr = sample.value
            /\ MarksGood(Append(marks, clock'), pos + 1)
            /\ (n > 0 /\ Comparable(kind)) <=> same
            /\ Comparable(kind) <=> same
            /\ same => ticks = clock'.unwrapped - marks[n].unwrapped
            /\ clock'.valid /\ sample \in StoredPcrs
            /\ prevPcr' = [valid |-> TRUE, pid |-> sample.pid, value |-> sample.value]
<1> DEFINE n == Len(marks)
           v == (prevPcr.value + move) % PCRWrapTicks
           pcr == [pid |-> pcrPid, value |-> v, discontinuity |-> Declared(indicated),
                   pidChanged |-> pcrPidChanged]
           kind == StepKind(prevPcr, sample)
           measured == Comparable(kind)
           ticks == StepTicks(prevPcr, sample)
           kept == ~truth.marked /\ ~indicated /\ 0 <= move /\ move <= PCRJumpLimit
           c == clock'
<1>0. kind = StepKind(prevPcr, pcr) /\ sample.value = v /\ sample.pid = pcrPid
  BY DEF StepKind
<1>1. prevPcr' = [valid |-> TRUE, pid |-> pcrPid, value |-> v] /\ c = NextPcrAnchor(clock, v, pos + 1, measured)
  <2>1. c = NextPcrAnchor(clock, v, pos + 1, Comparable(StepKind(prevPcr, pcr)))
        /\ prevPcr' = [valid |-> TRUE, pid |-> pcrPid, value |-> v]
    BY DEF ObservePcr
  <2>2. QED BY <1>0, <2>1
<1>2. measured <=> kept
  BY <1>0, MeasuredIsTrue
<1>3. /\ prevPcr.value \in Values /\ move \in Int /\ v \in Values /\ v \in Int
      /\ v = IF prevPcr.value + move < 0 THEN prevPcr.value + move + PCRWrapTicks
             ELSE IF prevPcr.value + move >= PCRWrapTicks THEN prevPcr.value + move - PCRWrapTicks
             ELSE prevPcr.value + move
  BY ValueAfter, MovesAssumption DEF ClockInv, ClockTypes, Values
<1>4. /\ c.valid = TRUE /\ c.pcr = v /\ c.pos = pos + 1
      /\ c.segment = IF measured THEN clock.segment ELSE clock.segment + 1
      /\ c.unwrapped = IF measured
           THEN clock.unwrapped + ((v + PCRWrapTicks - clock.pcr) % PCRWrapTicks) ELSE v
  BY <1>1 DEF NextPcrAnchor
<1>5. ClockInv' /\ c \in Anchors /\ pos + 1 \in Int
  BY PcrKeeps DEF ClockInv, ClockTypes
<1>6. clock.segment \in Int /\ clock.unwrapped \in Int
  BY DEF ClockInv, ClockTypes, Anchors
<1>7. n \in Nat /\ (n > 0 => n \in 1 .. n /\ marks[n].pos \in Nat /\ marks[n].pos <= pos)
  BY MarksTyped
<1>8. ticks = IF v >= prevPcr.value THEN v - prevPcr.value ELSE v + PCRWrapTicks - prevPcr.value
  BY <1>0 DEF StepTicks
<1>9. sample \in StoredPcrs
  <2>1. Declared(indicated) \in BOOLEAN /\ pcrPidChanged \in BOOLEAN /\ pcrPid \in PcrPids
    BY DEF Declared, ClockInv, ClockTypes
  <2>2. pos + 1 \in Nat
    OBVIOUS
  <2>3. sample = [pos |-> pos + 1, pid |-> pcrPid, value |-> v, discontinuity |-> Declared(indicated),
                  pidChanged |-> pcrPidChanged]
    OBVIOUS
  <2>4. v \in Values
    BY <1>3
  <2> HIDE DEF v
  <2>5. QED BY <2>1, <2>2, <2>3, <2>4, SampleByFields
<1> HIDE DEF v, pcr, kind, measured, ticks
<1>10. CASE kept
  <2>1. clock.valid /\ clock.pcr = prevPcr.value
    BY <1>10 DEF ClockInv, MarksNoticed, ClockIsTrue, SegmentTimeIsTrue
  <2>2. n > 0 /\ clock = marks[n]
    BY <2>1 DEF ClockLinked
  <2>3. (v + PCRWrapTicks - clock.pcr) % PCRWrapTicks = move
    BY <1>3, <1>10, <2>1, CountedInterval DEF v
  <2>4. c.unwrapped = clock.unwrapped + move /\ c.segment = clock.segment
    BY <1>2, <1>4, <1>10, <2>3
  <2>5. ticks = move
    <3> DEFINE p == prevPcr.value
    <3>1. p \in Int /\ 0 <= p /\ p < PCRWrapTicks /\ PCRWrapTicks \in Nat /\ PCRJumpLimit < PCRWrapTicks
          /\ PCRJumpLimit \in Nat
      BY <1>3, TimelineAssumption DEF Values
    <3> HIDE DEF p
    <3>2. v = IF p + move < 0 THEN p + move + PCRWrapTicks
              ELSE IF p + move >= PCRWrapTicks THEN p + move - PCRWrapTicks ELSE p + move
      BY <1>3 DEF p
    <3>3. ticks = IF v >= p THEN v - p ELSE v + PCRWrapTicks - p
      BY <1>8 DEF p
    <3>4. QED BY <1>3, <1>10, <3>1, <3>2, <3>3
  <2>6. Following(marks[n], c)
    <3>1. c.unwrapped >= clock.unwrapped /\ c.unwrapped - clock.unwrapped <= PCRJumpLimit
      BY <1>3, <1>6, <1>10, <2>4, TimelineAssumption
    <3>2. QED BY <1>4, <1>7, <2>2, <2>4, <3>1 DEF Following
  <2>7. MarksGood(Append(marks, c), pos + 1)
    BY <1>4, <1>5, <1>7, <2>2, <2>6, MarksAppended
  <2>8. ticks = c.unwrapped - marks[n].unwrapped /\ c.segment = marks[n].segment
    BY <1>3, <1>6, <2>2, <2>4, <2>5
  <2>9. QED BY <1>0, <1>1, <1>2, <1>4, <1>5, <1>9, <1>10, <2>2, <2>7, <2>8 DEF kind, measured, ticks
<1>11. CASE ~kept
  <2>1. c.segment = clock.segment + 1 /\ c.unwrapped = v /\ ~measured
    BY <1>2, <1>4, <1>11
  <2>2. n > 0 => c.segment = marks[n].segment + 1 /\ marks[n].segment \in Int
    BY <1>6, <2>1 DEF ClockLinked
  <2>3. n > 0 => Following(marks[n], c)
    BY <1>4, <1>7, <2>1, <2>2 DEF Following
  <2>4. n = 0 => c.segment = 1 /\ c.unwrapped = c.pcr
    BY <1>4, <2>1 DEF ClockLinked
  <2>5. MarksGood(Append(marks, c), pos + 1)
    BY <1>4, <1>5, <2>3, <2>4, MarksAppended
  <2>6. ~(n > 0 /\ c.segment = marks[n].segment)
    BY <2>2
  <2>7. QED BY <1>0, <1>1, <1>4, <1>5, <1>9, <2>1, <2>5, <2>6 DEF kind, measured, ticks
<1>12. QED BY <1>10, <1>11

\* The next PCR is stored as the next sample.
LEMMA SamplesAppended ==
  ASSUME NEW M \in Seq(Anchors), NEW s, SamplesGood(s, M), NEW c, NEW sample \in StoredPcrs, NEW prev,
         sample.pos = c.pos, sample.value = c.pcr,
         LET n == Len(M) IN
           n > 0 => /\ prev = [valid |-> TRUE, pid |-> s[n].pid, value |-> s[n].value]
                    /\ Comparable(StepKind(prev, sample)) <=> c.segment = M[n].segment
                    /\ c.segment = M[n].segment =>
                         StepTicks(prev, sample) = c.unwrapped - M[n].unwrapped
  PROVE  SamplesGood(Append(s, sample), Append(M, c))
<1> DEFINE N == Append(M, c)
           t == Append(s, sample)
           n == Len(M)
<1>1. n \in Nat /\ s \in Seq(StoredPcrs) /\ Len(s) = n
  BY DEF SamplesGood
<1>2. Len(N) = n + 1 /\ N[n + 1] = c /\ \A i \in 1 .. n : N[i] = M[i]
  OBVIOUS
<1>3. t \in Seq(StoredPcrs) /\ Len(t) = n + 1 /\ t[n + 1] = sample /\ \A i \in 1 .. n : t[i] = s[i]
  BY <1>1
<1>4. n > 0 => /\ prev = [valid |-> TRUE, pid |-> s[n].pid, value |-> s[n].value]
               /\ Comparable(StepKind(prev, sample)) <=> c.segment = M[n].segment
               /\ c.segment = M[n].segment => StepTicks(prev, sample) = c.unwrapped - M[n].unwrapped
  OBVIOUS
<1> HIDE DEF N, t, n
<1>5. ASSUME NEW i \in 1 .. n + 1 PROVE t[i].pos = N[i].pos /\ t[i].value = N[i].pcr
  <2>1. CASE i = n + 1
    BY <1>2, <1>3, <2>1
  <2>2. CASE i # n + 1
    <3>1. i \in 1 .. n
      BY <1>1, <2>2
    <3>2. QED BY <1>2, <1>3, <3>1 DEF SamplesGood, n
  <2>3. QED BY <2>1, <2>2
<1>6. ASSUME NEW i \in 1 .. n
      PROVE  /\ Comparable(StoredKind(t, i + 1)) <=> N[i].segment = N[i + 1].segment
             /\ N[i].segment = N[i + 1].segment =>
                  StepTicks(t[i], t[i + 1]) = N[i + 1].unwrapped - N[i].unwrapped
  <2>0. (i + 1) - 1 = i
    OBVIOUS
  <2>1. CASE i = n
    <3>1. n > 0 /\ N[i] = M[n] /\ N[i + 1] = c /\ t[i] = s[n] /\ t[i + 1] = sample
      BY <1>1, <1>2, <1>3, <2>1
    <3>2. StoredKind(t, i + 1) = StepKind(prev, sample)
      BY <1>4, <2>0, <3>1 DEF StoredKind
    <3>3. StepTicks(t[i], t[i + 1]) = StepTicks(prev, sample)
      BY <1>4, <3>1 DEF StepTicks
    <3>4. QED BY <1>4, <3>1, <3>2, <3>3
  <2>2. CASE i # n
    <3>1. i \in 1 .. n - 1 /\ i + 1 \in 1 .. n
      BY <1>1, <2>2
    <3>2. N[i] = M[i] /\ N[i + 1] = M[i + 1] /\ t[i] = s[i] /\ t[i + 1] = s[i + 1]
      BY <1>2, <1>3, <3>1
    <3>3. StoredKind(t, i + 1) = StoredKind(s, i + 1)
      BY <2>0, <3>2 DEF StoredKind
    <3>4. QED BY <3>1, <3>2, <3>3 DEF SamplesGood, n
  <2>3. QED BY <2>1, <2>2
<1>7. SamplesGood(t, N)
  <2>1. Len(N) - 1 = n
    BY <1>1, <1>2
  <2>2. QED BY <1>2, <1>3, <1>5, <1>6, <2>1 DEF SamplesGood
<1>8. QED BY <1>7 DEF t, N

\* And enters the time series.
LEMMA SeriesAppended ==
  ASSUME NEW M, NEW at, MarksGood(M, at), NEW c, NEW to \in Nat, MarksGood(Append(M, c), to),
         NEW points, SeriesGood(points, M), NEW kind \in PCRStepKinds, NEW ticks,
         Comparable(kind) <=> Len(M) > 0 /\ c.segment = M[Len(M)].segment,
         Comparable(kind) => ticks = c.unwrapped - M[Len(M)].unwrapped
  PROVE  SeriesGood(AddPcr(points, to, kind, ticks), Append(M, c))
<1> DEFINE N == Append(M, c)
           n == Len(M)
           new == AddPcr(points, to, kind, ticks)
           same == n > 0 /\ c.segment = M[n].segment
<1>1. n \in Nat /\ Len(points) = n
  BY MarksTyped DEF SeriesGood
<1>2. /\ \A k \in 0 .. n : TimeBefore(N, k) = TimeBefore(M, k) /\ TimeBefore(M, k) \in Nat
      /\ TimeBefore(N, n + 1) = TimeBefore(M, n) + (IF same THEN c.unwrapped - M[n].unwrapped ELSE 0)
  BY TimeAppended
<1>3. Len(N) = n + 1 /\ TimeBefore(N, n + 1) \in Nat
  <2>1. Len(N) = n + 1
    BY SpansAppended
  <2>2. MarksGood(N, to)
    OBVIOUS
  <2> HIDE DEF N
  <2>3. \A S \in SUBSET Spans(N) : IsFiniteSet(S) /\ \A i \in S : Lengths(N)[i] \in Nat
    BY <2>2, SpansTyped
  <2>4. TimeBefore(N, n + 1) \in Nat
    <3>1. {i \in Spans(N) : i < n + 1} \in SUBSET Spans(N)
      OBVIOUS
    <3>2. QED BY <2>3, <3>1, SumType DEF TimeBefore
  <2>5. QED BY <2>1, <2>4 DEF N
<1>4. (IF points = <<>> THEN 0 ELSE Last(points).elapsed) = TimeBefore(M, n)
  <2>1. CASE n = 0
    <3>1. points = <<>>
      BY <1>1, <2>1 DEF SeriesGood
    <3>2. {i \in Spans(M) : i < 0} = {}
      <4>1. \A i \in Spans(M) : i \in Nat
        BY SpansTyped
      <4>2. QED BY <4>1
    <3>3. TimeBefore(M, 0) = 0
      BY <3>2, SumOne DEF TimeBefore
    <3>4. QED BY <2>1, <3>1, <3>3
  <2>2. CASE n > 0
    <3>1. points # <<>> /\ n \in 1 .. n
      BY <1>1, <2>2 DEF SeriesGood
    <3>2. Last(points) = points[n]
      BY <1>1 DEF Last
    <3>3. QED BY <3>1, <3>2 DEF SeriesGood
  <2>3. QED BY <1>1, <2>1, <2>2
<1> DEFINE elapsed == IF Comparable(kind) THEN TimeBefore(M, n) + ticks ELSE TimeBefore(M, n)
<1>5. new = Append(points, [pos |-> to, kind |-> kind, elapsed |-> elapsed])
  BY <1>4 DEF AddPcr
<1>6. elapsed = TimeBefore(N, n + 1)
  <2>1. TimeBefore(M, n) \in Nat
    <3>1. n \in 0 .. n
      BY <1>1
    <3>2. QED BY <1>2, <3>1
  <2>2. CASE same
    BY <1>2, <2>2
  <2>3. CASE ~same
    BY <1>2, <2>1, <2>3
  <2>4. QED BY <2>2, <2>3
<1> HIDE DEF new, N, elapsed
<1>7. points \in Seq([pos : Int, kind : PCRStepKinds, elapsed : Nat])
      /\ [pos |-> to, kind |-> kind, elapsed |-> elapsed] \in [pos : Int, kind : PCRStepKinds, elapsed : Nat]
  BY <1>3, <1>6 DEF SeriesGood
<1>8. /\ new \in Seq([pos : Int, kind : PCRStepKinds, elapsed : Nat]) /\ Len(new) = n + 1
      /\ new[n + 1].elapsed = elapsed /\ \A i \in 1 .. n : new[i] = points[i]
  BY <1>1, <1>5, <1>7
<1>9. ASSUME NEW i \in 1 .. n + 1 PROVE new[i].elapsed = TimeBefore(N, i)
  <2>1. CASE i = n + 1
    BY <1>6, <1>8, <2>1
  <2>2. CASE i # n + 1
    <3>1. i \in 1 .. n /\ i \in 0 .. n
      BY <1>1, <2>2
    <3>2. points[i].elapsed = TimeBefore(M, i)
      BY <3>1 DEF SeriesGood
    <3>3. QED BY <1>2, <1>8, <3>1, <3>2
  <2>3. QED BY <2>1, <2>2
<1>10. SeriesGood(new, N)
  BY <1>3, <1>8, <1>9 DEF SeriesGood
<1>11. QED BY <1>10 DEF new, N

\* One packet more was read.
LEMMA MuxAppended ==
  ASSUME NEW X, NEW at \in Nat, MuxGood(X, at), NEW p \in MuxPids, NEW C
  PROVE  LET Y == Append(X, [pid |-> p, counted |-> p \in C])
         IN /\ MuxGood(Y, at + 1) /\ \A k \in 1 .. at : Y[k] = X[k]
            /\ Y[at + 1].pid = p /\ (Y[at + 1].counted <=> p \in C)
<1> DEFINE e == [pid |-> p, counted |-> p \in C]
<1>1. X \in Seq([pid : MuxPids, counted : BOOLEAN]) /\ Len(X) = at
  BY DEF MuxGood
<1>2. e \in [pid : MuxPids, counted : BOOLEAN] /\ e.pid = p /\ (e.counted <=> p \in C)
  <2>1. CASE p \in C
    <3>1. e = [pid |-> p, counted |-> TRUE]
      BY <2>1, Zenon
    <3>2. QED BY <2>1, <3>1
  <2>2. CASE p \notin C
    <3>0. (p \in C) = FALSE
      BY <2>2
    <3>1. e = [pid |-> p, counted |-> FALSE]
      BY <3>0, Zenon
    <3>2. QED BY <2>2, <3>1
  <2>3. QED BY <2>1, <2>2
<1> HIDE DEF e
<1>3. LET Y == Append(X, e)
      IN /\ MuxGood(Y, at + 1) /\ \A k \in 1 .. at : Y[k] = X[k]
         /\ Y[at + 1].pid = p /\ (Y[at + 1].counted <=> p \in C)
  BY <1>1, <1>2 DEF MuxGood
<1>4. QED BY <1>3 DEF e

-------------------------------------------------------------------------------
(* The invariant of the statistics.                                          *)

StatsInv ==
  /\ pos \in Nat /\ pos <= MaxPackets
  /\ MarksGood(marks, pos) /\ ClockLinked
  /\ SamplesGood(samples, marks) /\ SeriesGood(series, marks)
  /\ MuxGood(mux, pos) /\ BitrateGood(bitrate, marks, mux, pos)

\* It holds before the first packet.
LEMMA StatsInvInit == PcrInit /\ StatsInit => ClockInv /\ StatsInv
<1> SUFFICES ASSUME PcrInit, StatsInit PROVE StatsInv
  BY ClockInvInit
<1>1. pos \in Nat /\ pos <= MaxPackets /\ pos = 0
  BY StatsAssumption DEF PcrInit
<1>2. MarksGood(marks, pos) /\ Len(marks) = 0 /\ marks = <<>> /\ samples = <<>> /\ series = <<>> /\ mux = <<>>
  BY <1>1, NoMarks DEF StatsInit
<1>3. ClockLinked
  BY <1>2 DEF ClockLinked, PcrInit, NoAnchor
<1>4. SamplesGood(samples, marks) /\ SeriesGood(series, marks) /\ MuxGood(mux, pos)
  BY <1>1, <1>2 DEF SamplesGood, SeriesGood, MuxGood
<1>5. BitrateGood(bitrate, marks, mux, pos)
  <2>1. PICK pids \in StatStreams : bitrate = NewBitrateStats(pids, pcrPid)
    BY DEF StatsInit
  <2>2. pcrPid \in PcrPids
    BY DEF PcrInit
  <2>3. QED BY <1>1, <1>2, <2>1, <2>2, BitrateStarts
<1>6. QED BY <1>1, <1>2, <1>3, <1>4, <1>5 DEF StatsInv

\* Every packet keeps it.
LEMMA StatsPacketKeeps ==
  ASSUME ClockInv, StatsInv, NEW p \in MuxPids, StatsPacket(p)
  PROVE  ClockInv' /\ StatsInv'
<1> DEFINE b == CountPacket(bitrate, p)
           n == Len(marks)
<1>1. /\ pos \in Nat /\ pos < MaxPackets /\ pos' = pos + 1 /\ pos' \in Nat /\ pos' <= MaxPackets
      /\ mux' = Append(mux, [pid |-> p, counted |-> p \in bitrate.counted])
  BY StatsAssumption DEF StatsPacket, StatsInv
<1>2. MarksGood(marks, pos) /\ MarksGood(marks, pos') /\ MuxGood(mux, pos) /\ BitrateGood(bitrate, marks, mux, pos)
  BY <1>1, MarksLater DEF StatsInv
<1>3. /\ MuxGood(mux', pos') /\ \A k \in 1 .. pos : mux'[k] = mux[k]
      /\ mux'[pos + 1].pid = p /\ (mux'[pos + 1].counted <=> p \in bitrate.counted)
  <2>1. MuxGood(mux, pos) /\ pos \in Nat
    BY <1>1, <1>2
  <2> DEFINE Y == Append(mux, [pid |-> p, counted |-> p \in bitrate.counted])
  <2>2. /\ MuxGood(Y, pos + 1) /\ \A k \in 1 .. pos : Y[k] = mux[k]
        /\ Y[pos + 1].pid = p /\ (Y[pos + 1].counted <=> p \in bitrate.counted)
    BY <2>1, MuxAppended, Zenon
  <2>3. mux' = Y
    BY <1>1, Zenon
  <2> HIDE DEF Y
  <2>4. QED BY <1>1, <2>2, <2>3
<1>4. BitrateGood(b, marks, mux', pos')
  BY <1>1, <1>2, <1>3, BitratePacket
<1> HIDE DEF b
<1>5. ASSUME CountOnly(p) PROVE ClockInv' /\ StatsInv'
  <2>1. /\ UNCHANGED pcrVars \/ ObserveIndicator
        /\ bitrate' = b /\ samples' = samples /\ series' = series /\ marks' = marks
    BY <1>5 DEF CountOnly, b
  <2>2. ClockInv' /\ clock' = clock /\ prevPcr' = prevPcr
    BY <2>1, OthersKeep DEF pcrVars, ObserveIndicator
  <2>3. ClockLinked'
    BY <2>1, <2>2 DEF StatsInv, ClockLinked
  <2>4. QED BY <1>1, <1>2, <1>3, <1>4, <2>1, <2>2, <2>3 DEF StatsInv
<1>6. ASSUME CountWithPcr(p) PROVE ClockInv' /\ StatsInv'
  <2>1. PICK move \in Moves, indicated \in Indicators :
          LET sample == [pos |-> pos + 1, pid |-> pcrPid, value |-> (prevPcr.value + move) % PCRWrapTicks,
                         discontinuity |-> Declared(indicated), pidChanged |-> pcrPidChanged]
              kind   == StepKind(prevPcr, sample)
              ticks  == StepTicks(prevPcr, sample)
          IN /\ ObservePcr(move, indicated, pos + 1)
             /\ bitrate' = MarkPcrStep(CountPacket(bitrate, p), kind, ticks)
             /\ samples' = Append(samples, sample)
             /\ series' = AddPcr(series, pos + 1, kind, ticks)
    BY <1>6 DEF CountWithPcr
  <2> DEFINE sample == [pos |-> pos + 1, pid |-> pcrPid, value |-> (prevPcr.value + move) % PCRWrapTicks,
                        discontinuity |-> Declared(indicated), pidChanged |-> pcrPidChanged]
             kind   == StepKind(prevPcr, sample)
             ticks  == StepTicks(prevPcr, sample)
             c == clock'
             same == n > 0 /\ c.segment = marks[n].segment
  <2>2. /\ ObservePcr(move, indicated, pos + 1)
        /\ bitrate' = MarkPcrStep(b, kind, ticks)
        /\ samples' = Append(samples, sample)
        /\ series' = AddPcr(series, pos', kind, ticks)
        /\ marks' = Append(marks, c)
    BY <1>1, <1>6, <2>1 DEF CountWithPcr, b
  <2>3. sample.pos = pos' /\ sample.pid = pcrPid
    BY <1>1
  <2>4. indicated \in BOOLEAN
    BY MovesAssumption
  <2>5. /\ ClockInv' /\ c.pos = pos' /\ c.pcr = sample.value
        /\ MarksGood(Append(marks, c), pos')
        /\ (n > 0 /\ Comparable(kind)) <=> same
        /\ Comparable(kind) <=> same
        /\ same => ticks = c.unwrapped - marks[n].unwrapped
        /\ c.valid /\ sample \in StoredPcrs
        /\ prevPcr' = [valid |-> TRUE, pid |-> sample.pid, value |-> sample.value]
    BY <1>1, <2>2, <2>4, PcrMarked DEF StatsInv
  <2>6. kind \in PCRStepKinds
    BY DEF StepKind, PCRStepKinds
  <2> HIDE DEF sample, kind, ticks, c
  <2>7. BitrateGood(bitrate', marks', mux', pos')
    BY <1>1, <1>2, <1>4, <2>2, <2>5, BitratePcr
  <2>8. SamplesGood(samples', marks')
    <3>1. marks \in Seq(Anchors)
      BY <1>2 DEF MarksGood
    <3>2. n > 0 => /\ prevPcr = [valid |-> TRUE, pid |-> samples[n].pid, value |-> samples[n].value]
                   /\ Comparable(StepKind(prevPcr, sample)) <=> c.segment = marks[n].segment
                   /\ c.segment = marks[n].segment => StepTicks(prevPcr, sample) = c.unwrapped - marks[n].unwrapped
      BY <2>5 DEF StatsInv, ClockLinked, kind, ticks
    <3>3. sample.pos = c.pos /\ sample.value = c.pcr
      BY <2>3, <2>5
    <3>4. QED BY <2>2, <2>5, <3>1, <3>2, <3>3, SamplesAppended DEF StatsInv
  <2>9. SeriesGood(series', marks')
    BY <1>1, <1>2, <2>2, <2>5, <2>6, SeriesAppended DEF StatsInv
  <2>10. ClockLinked'
    <3>1. /\ n \in Nat /\ Len(marks') = n + 1 /\ marks'[n + 1] = c
          /\ Len(samples) = n /\ samples'[n + 1] = sample
      BY <1>2, <2>2 DEF MarksGood, StatsInv, SamplesGood
    <3>2. prevPcr'.valid = TRUE /\ prevPcr'.value = sample.value
      BY <2>5
    <3>3. QED BY <2>5, <3>1, <3>2 DEF ClockLinked, c
  <2>11. QED BY <1>1, <1>3, <2>2, <2>5, <2>7, <2>8, <2>9, <2>10 DEF StatsInv
<1>7. QED BY <1>5, <1>6 DEF StatsPacket

\* So does a layout.
LEMMA StatsLayoutKeeps ==
  ASSUME ClockInv, StatsInv, NEW pids \in StatStreams, NEW pid \in PcrPids, StatsLayout(pids, pid)
  PROVE  ClockInv' /\ StatsInv'
<1>1. /\ SetPcrPid(pid) /\ bitrate' = CountPids(bitrate, pids, pid)
      /\ pos' = pos /\ samples' = samples /\ series' = series /\ mux' = mux /\ marks' = marks
  BY DEF StatsLayout
<1>2. ClockInv'
  BY <1>1, OthersKeep
<1>3. BitrateGood(bitrate', marks', mux', pos')
  BY <1>1, BitrateLayout DEF StatsInv
<1>4. prevPcr' = prevPcr /\ clock'.segment = clock.segment /\ (clock'.valid => clock' = clock)
  <2>1. CASE pid = pcrPid
    BY <1>1, <2>1 DEF SetPcrPid, pcrVars
  <2>2. CASE pid # pcrPid
    <3>1. prevPcr' = prevPcr /\ clock' = [NoAnchor EXCEPT !.segment = clock.segment]
      BY <1>1, <2>2 DEF SetPcrPid
    <3>2. clock.segment \in Int
      BY DEF ClockInv, ClockTypes, Anchors
    <3>3. QED BY <3>1, <3>2, NoAnchorIn
  <2>3. QED BY <2>1, <2>2
<1>5. ClockLinked'
  BY <1>1, <1>4 DEF StatsInv, ClockLinked
<1>6. QED BY <1>1, <1>2, <1>3, <1>5 DEF StatsInv

\* And a step that changes nothing.
LEMMA StatsInvNext ==
  ClockInv /\ StatsInv /\ [StatsNext]_<<pos, pcrVars, statVars>> => ClockInv' /\ StatsInv'
<1> SUFFICES ASSUME ClockInv, StatsInv, [StatsNext]_<<pos, pcrVars, statVars>>
             PROVE  ClockInv' /\ StatsInv'
  OBVIOUS
<1>1. CASE UNCHANGED <<pos, pcrVars, statVars>>
  <2>1. pos' = pos /\ UNCHANGED pcrVars /\ UNCHANGED statVars
    BY <1>1
  <2>2. ClockInv'
    BY <2>1, OthersKeep
  <2>3. StatsInv'
    BY <2>1 DEF StatsInv, ClockLinked, pcrVars, statVars
  <2>4. QED BY <2>2, <2>3
<1>2. CASE StatsNext
  BY <1>2, StatsPacketKeeps, StatsLayoutKeeps DEF StatsNext
<1>3. QED BY <1>1, <1>2

-------------------------------------------------------------------------------
(* What the jitter is computed from at the end: folds over the samples.      *)

\* One more sample, for the segments or for the delivery windows.
Take(s, timed, v, i) == IF timed THEN AddTimed(s, v, i) ELSE AddInterval(s, v, i)
Begun(s, timed)      == IF timed THEN <<<<Timed(s[1], s[1].value)>>>> ELSE NoWindows

\* The functions that a fold over the samples from the second on is the value of.
FoldsSamples(h, s, timed, D) ==
  h = [t \in SUBSET D |-> IF t = {} THEN Begun(s, timed)
                          ELSE Take(s, timed, h[t \ {Max(t)}], Later(s)[Max(t)])]
FoldsTimed(h, s, D) ==
  h = [t \in SUBSET D |-> IF t = {} THEN <<<<Timed(s[1], s[1].value)>>>>
                          ELSE AddTimed(s, h[t \ {Max(t)}], Later(s)[Max(t)])]
FoldsWindows(h, s, D) ==
  h = [t \in SUBSET D |-> IF t = {} THEN NoWindows
                          ELSE AddInterval(s, h[t \ {Max(t)}], Later(s)[Max(t)])]

\* There is such a function.
LEMMA SamplesFold ==
  ASSUME NEW s, NEW timed \in BOOLEAN, NEW N \in Nat
  PROVE  \E h : FoldsSamples(h, s, timed, 1 .. N)
<1> DEFINE Q == {n \in Nat : \E h : FoldsSamples(h, s, timed, 1 .. n)}
           S == Later(s)
           base == Begun(s, timed)
<1>1. 0 \in Q
  <2> DEFINE h == [t \in SUBSET (1 .. 0) |-> base]
  <2>1. \A t \in SUBSET (1 .. 0) : t = {}
    OBVIOUS
  <2>2. h = [t \in SUBSET (1 .. 0) |-> IF t = {} THEN base ELSE Take(s, timed, h[t \ {Max(t)}], S[Max(t)])]
    BY <2>1
  <2> HIDE DEF h
  <2>3. FoldsSamples(h, s, timed, 1 .. 0)
    BY <2>2 DEF FoldsSamples
  <2>4. QED BY <2>3
<1>2. ASSUME NEW n \in Nat, n \in Q PROVE n + 1 \in Q
  <2>1. PICK h : FoldsSamples(h, s, timed, 1 .. n)
    BY <1>2
  <2> DEFINE g == [t \in SUBSET (1 .. n + 1) |->
                     IF n + 1 \in t THEN Take(s, timed, h[t \ {n + 1}], S[n + 1]) ELSE h[t]]
             k == [t \in SUBSET (1 .. n + 1) |->
                     IF t = {} THEN base ELSE Take(s, timed, g[t \ {Max(t)}], S[Max(t)])]
  <2>2. \A t \in SUBSET (1 .. n) : g[t] = h[t] /\ t \in SUBSET (1 .. n + 1)
    OBVIOUS
  <2>3. ASSUME NEW t \in SUBSET (1 .. n + 1) PROVE g[t] = k[t]
    <3>1. CASE n + 1 \in t
      <4>1. Max(t) = n + 1
        <5>1. t \in SUBSET Int /\ \A x \in t : x <= n + 1
          OBVIOUS
        <5>2. QED BY <3>1, <5>1, MaxIs
      <4>2. t \ {n + 1} \in SUBSET (1 .. n)
        OBVIOUS
      <4>3. g[t] = Take(s, timed, h[t \ {n + 1}], S[n + 1])
        BY <3>1
      <4>4. k[t] = Take(s, timed, g[t \ {Max(t)}], S[Max(t)])
        BY <3>1
      <4> HIDE DEF g, k
      <4>5. QED BY <2>2, <4>1, <4>2, <4>3, <4>4
    <3>2. CASE n + 1 \notin t
      <4>1. t \in SUBSET (1 .. n) /\ t \ {Max(t)} \in SUBSET (1 .. n)
        <5>1. \A x \in t : x \in 1 .. n + 1 /\ x # n + 1
          BY <3>2
        <5>2. \A x \in t : x \in 1 .. n
          BY <5>1
        <5>3. QED BY <5>2
      <4>2. h[t] = IF t = {} THEN base ELSE Take(s, timed, h[t \ {Max(t)}], S[Max(t)])
        BY <2>1, <4>1 DEF FoldsSamples
      <4>3. k[t] = IF t = {} THEN base ELSE Take(s, timed, g[t \ {Max(t)}], S[Max(t)])
        OBVIOUS
      <4> HIDE DEF g, k
      <4>4. g[t] = h[t] /\ g[t \ {Max(t)}] = h[t \ {Max(t)}]
        BY <2>2, <4>1
      <4>5. QED BY <4>2, <4>3, <4>4
    <3>3. QED BY <3>1, <3>2
  <2>4. g = k
    <3>1. DOMAIN g = SUBSET (1 .. n + 1) /\ DOMAIN k = SUBSET (1 .. n + 1)
      OBVIOUS
    <3>2. g = [t \in DOMAIN g |-> g[t]] /\ k = [t \in DOMAIN k |-> k[t]]
      OBVIOUS
    <3> HIDE DEF g, k
    <3>3. QED BY <2>3, <3>1, <3>2
  <2> HIDE DEF g
  <2>5. FoldsSamples(g, s, timed, 1 .. n + 1)
    BY <2>4 DEF FoldsSamples
  <2>6. QED BY <2>5
<1>3. \A n \in Nat : n \in Q
  <2> HIDE DEF Q
  <2> QED BY <1>1, <1>2, SetInduction
<1>4. QED BY <1>3

\* Its values over the first of them, one after the other.
LEMMA SampleFoldSteps ==
  ASSUME NEW s, NEW timed \in BOOLEAN, NEW N \in Nat, Len(s) = N + 1, NEW g,
         FoldsSamples(g, s, timed, 1 .. N)
  PROVE  /\ g[1 .. 0] = Begun(s, timed)
         /\ \A n \in 1 .. N : g[1 .. n] = Take(s, timed, g[1 .. n - 1], n + 1)
<1>1. g[1 .. 0] = Begun(s, timed)
  <2>1. 1 .. 0 = {}
    OBVIOUS
  <2>2. QED BY <2>1 DEF FoldsSamples
<1>2. ASSUME NEW n \in 1 .. N PROVE g[1 .. n] = Take(s, timed, g[1 .. n - 1], n + 1)
  <2>1. 1 .. n \in SUBSET (1 .. N) /\ 1 .. n # {} /\ (1 .. n) \ {n} = 1 .. n - 1
    <3>1. n \in Nat /\ n <= N /\ n \in 1 .. n
      OBVIOUS
    <3>2. \A i \in 1 .. n : i \in 1 .. N /\ (i # n => i \in 1 .. n - 1)
      BY <3>1
    <3>3. \A i \in 1 .. n - 1 : i \in 1 .. n /\ i # n
      BY <3>1
    <3>4. QED BY <3>1, <3>2, <3>3
  <2>2. Max(1 .. n) = n
    <3>1. 1 .. n \in SUBSET Int /\ n \in 1 .. n /\ \A x \in 1 .. n : x <= n
      OBVIOUS
    <3>2. QED BY <3>1, MaxIs
  <2>3. g[1 .. n] = Take(s, timed, g[(1 .. n) \ {Max(1 .. n)}], Later(s)[Max(1 .. n)])
    BY <2>1 DEF FoldsSamples
  <2>4. Later(s)[n] = n + 1
    BY DEF Later
  <2>5. QED BY <2>1, <2>2, <2>3, <2>4
<1>3. QED BY <1>1, <1>2

\* The segments of the samples, after each of them.
LEMMA TimedFolded ==
  ASSUME NEW s, NEW N \in Nat, Len(s) = N + 1
  PROVE  \E h : /\ JitterSegments(s) = h[N + 1] /\ h[1] = <<<<Timed(s[1], s[1].value)>>>>
                /\ \A n \in 1 .. N : h[n + 1] = AddTimed(s, h[n], n + 1)
<1> DEFINE g == CHOOSE h : FoldsTimed(h, s, DOMAIN Later(s))
           f == [n \in 1 .. N + 1 |-> g[1 .. n - 1]]
<1>1. JitterSegments(s) = g[DOMAIN Later(s)]
  BY DEF JitterSegments, FoldLeft, MapThenFoldSet, FoldsTimed
<1>2. DOMAIN Later(s) = 1 .. N
  BY DEF Later
<1>3. \A h, D : FoldsSamples(h, s, TRUE, D) <=> FoldsTimed(h, s, D)
  BY DEF FoldsSamples, FoldsTimed, Take, Begun
<1>4. FoldsTimed(g, s, 1 .. N)
  BY <1>2, <1>3, SamplesFold
<1> HIDE DEF g
<1>5. /\ g[1 .. 0] = <<<<Timed(s[1], s[1].value)>>>>
      /\ \A n \in 1 .. N : g[1 .. n] = AddTimed(s, g[1 .. n - 1], n + 1)
  <2>1. FoldsSamples(g, s, TRUE, 1 .. N)
    BY <1>3, <1>4
  <2>2. /\ g[1 .. 0] = Begun(s, TRUE)
        /\ \A n \in 1 .. N : g[1 .. n] = Take(s, TRUE, g[1 .. n - 1], n + 1)
    BY <2>1, SampleFoldSteps, ZenonT(60)
  <2>3. QED BY <2>2 DEF Take, Begun
<1>6. /\ f[1] = g[1 .. 0] /\ f[N + 1] = g[1 .. N]
      /\ \A n \in 1 .. N : f[n + 1] = g[1 .. n] /\ f[n] = g[1 .. n - 1]
  OBVIOUS
<1> HIDE DEF f
<1>7. QED BY <1>1, <1>2, <1>5, <1>6

\* The delivery windows, after each of them.
LEMMA WindowsFolded ==
  ASSUME NEW s, NEW N \in Nat, Len(s) = N + 1
  PROVE  \E h : /\ DeliveryWindows(s) = h[N + 1].windows /\ h[1] = NoWindows
                /\ \A n \in 1 .. N : h[n + 1] = AddInterval(s, h[n], n + 1)
<1> DEFINE g == CHOOSE h : FoldsWindows(h, s, DOMAIN Later(s))
           f == [n \in 1 .. N + 1 |-> g[1 .. n - 1]]
<1>1. DeliveryWindows(s) = g[DOMAIN Later(s)].windows
  BY DEF DeliveryWindows, FoldLeft, MapThenFoldSet, FoldsWindows
<1>2. DOMAIN Later(s) = 1 .. N
  BY DEF Later
<1>3. \A h, D : FoldsSamples(h, s, FALSE, D) <=> FoldsWindows(h, s, D)
  BY DEF FoldsSamples, FoldsWindows, Take, Begun
<1>4. FoldsWindows(g, s, 1 .. N)
  BY <1>2, <1>3, SamplesFold
<1> HIDE DEF g
<1>5. /\ g[1 .. 0] = NoWindows
      /\ \A n \in 1 .. N : g[1 .. n] = AddInterval(s, g[1 .. n - 1], n + 1)
  <2>1. FoldsSamples(g, s, FALSE, 1 .. N)
    BY <1>3, <1>4
  <2>2. /\ g[1 .. 0] = Begun(s, FALSE)
        /\ \A n \in 1 .. N : g[1 .. n] = Take(s, FALSE, g[1 .. n - 1], n + 1)
    BY <2>1, SampleFoldSteps, ZenonT(60)
  <2>3. QED BY <2>2 DEF Take, Begun
<1>6. /\ f[1] = g[1 .. 0] /\ f[N + 1] = g[1 .. N]
      /\ \A n \in 1 .. N : f[n + 1] = g[1 .. n] /\ f[n] = g[1 .. n - 1]
  OBVIOUS
<1> HIDE DEF f
<1>7. QED BY <1>1, <1>2, <1>5, <1>6

-------------------------------------------------------------------------------
(* The segments of the jitter are those of the timeline.                     *)

TimedPcrs == [pos : Int, clock : Int]
OnTime(m) == [pos |-> m.pos, clock |-> m.unwrapped]

\* The segments G hold the first k PCRs of the list M, each where f says.
PcrsPlaced(G, f, M, k) ==
  /\ G \in Seq(Seq(TimedPcrs)) /\ Len(G) = M[k].segment /\ Len(G) > 0
  /\ f \in [1 .. Len(G) -> Nat]
  /\ \A j \in 1 .. Len(G) : \A i \in 1 .. Len(G[j]) :
       f[j] + i \in 1 .. k /\ M[f[j] + i].segment = j /\ G[j][i] = OnTime(M[f[j] + i])
  /\ \A a \in 1 .. k : M[a].segment \in 1 .. Len(G)
                       /\ a - f[M[a].segment] \in 1 .. Len(G[M[a].segment])
  /\ Len(G[Len(G)]) > 0 /\ f[Len(G)] + Len(G[Len(G)]) = k

\* The first PCR is in the first segment.
LEMMA FirstPlaced ==
  ASSUME NEW M, NEW at, MarksGood(M, at), Len(M) > 0, NEW s, SamplesGood(s, M)
  PROVE  \E f : PcrsPlaced(<<<<Timed(s[1], s[1].value)>>>>, f, M, 1)
<1> DEFINE e == OnTime(M[1])
           G == <<<<e>>>>
           f == [j \in 1 .. 1 |-> 0]
<1>1. 1 \in 1 .. Len(M) /\ M[1].segment = 1 /\ M[1].unwrapped = M[1].pcr
      /\ M[1].pos \in Int /\ M[1].unwrapped \in Int
  BY MarksTyped DEF MarksGood
<1>2. Timed(s[1], s[1].value) = e
  BY <1>1 DEF SamplesGood, Timed, OnTime
<1>3. e \in TimedPcrs
  BY <1>1 DEF OnTime, TimedPcrs
<1> HIDE DEF e
<1>4. G \in Seq(Seq(TimedPcrs)) /\ Len(G) = 1 /\ Len(G[1]) = 1 /\ G[1][1] = e
  BY <1>3
<1>5. f \in [1 .. 1 -> Nat] /\ f[1] = 0
  OBVIOUS
<1> HIDE DEF G, f
<1>6. ASSUME NEW j \in 1 .. Len(G), NEW i \in 1 .. Len(G[j])
      PROVE  f[j] + i \in 1 .. 1 /\ M[f[j] + i].segment = j /\ G[j][i] = OnTime(M[f[j] + i])
  <2>1. j = 1
    BY <1>4
  <2>5. i \in 1 .. 1
    BY <1>4, <2>1
  <2>2. i = 1
    BY <2>5
  <2>3. f[j] + i = 1
    BY <1>5, <2>1, <2>2
  <2>4. G[j][i] = e
    BY <1>4, <2>1, <2>2
  <2>6. QED BY <1>1, <2>1, <2>3, <2>4 DEF e
<1>7. \A a \in 1 .. 1 : M[a].segment \in 1 .. Len(G)
                        /\ a - f[M[a].segment] \in 1 .. Len(G[M[a].segment])
  <2>1. M[1].segment \in 1 .. Len(G) /\ 1 - f[M[1].segment] \in 1 .. Len(G[M[1].segment])
    BY <1>1, <1>4, <1>5
  <2>2. QED BY <2>1
<1>8. PcrsPlaced(G, f, M, 1)
  BY <1>1, <1>4, <1>5, <1>6, <1>7 DEF PcrsPlaced
<1>9. QED BY <1>2, <1>8 DEF G

\* A sequence whose last element is replaced.
LEMMA LastReplaced ==
  ASSUME NEW S, NEW G \in Seq(S), Len(G) > 0, NEW e \in S
  PROVE  LET H == Append(Front(G), e)
         IN /\ H \in Seq(S) /\ Len(H) = Len(G) /\ H[Len(G)] = e
            /\ \A j \in 1 .. Len(G) : j # Len(G) => H[j] = G[j]
<1> DEFINE n == Len(G)
           F == Front(G)
<1>1. n \in Nat /\ n > 0
  OBVIOUS
<1>2. F \in Seq(S) /\ Len(F) = n - 1 /\ \A j \in 1 .. n - 1 : F[j] = G[j]
  BY <1>1 DEF Front
<1> HIDE DEF F
<1>3. LET H == Append(F, e)
      IN H \in Seq(S) /\ Len(H) = n /\ H[n] = e /\ \A j \in 1 .. n - 1 : H[j] = G[j]
  BY <1>1, <1>2
<1>4. \A j \in 1 .. n : j # n => j \in 1 .. n - 1
  BY <1>1
<1>5. QED BY <1>3, <1>4 DEF F

\* The next PCR continues the last segment, or begins one.
LEMMA NextPlaced ==
  ASSUME NEW M, NEW at, MarksGood(M, at), NEW s, SamplesGood(s, M), NEW k \in 1 .. Len(M) - 1,
         NEW G, NEW f, PcrsPlaced(G, f, M, k)
  PROVE  \E h : PcrsPlaced(AddTimed(s, G, k + 1), h, M, k + 1)
<1> DEFINE L == Len(G)
           e == OnTime(M[k + 1])
           H == AddTimed(s, G, k + 1)
<1>1. /\ k \in Nat /\ k >= 1 /\ k \in 1 .. Len(M) /\ k + 1 \in 1 .. Len(M) /\ (k + 1) - 1 = k
      /\ k \in 1 .. k /\ k + 1 \in 1 .. k + 1
  BY MarksTyped
<1>2. M[k].segment \in Int /\ M[k].unwrapped \in Int /\ M[k + 1].segment \in Int /\ M[k + 1].unwrapped \in Int
      /\ M[k + 1].pos \in Int /\ Following(M[k], M[k + 1])
  BY <1>1, MarksTyped DEF MarksGood
<1>3. /\ G \in Seq(Seq(TimedPcrs)) /\ Len(G) = L /\ L = M[k].segment /\ L \in Nat /\ L > 0 /\ L \in 1 .. L
      /\ G[L] \in Seq(TimedPcrs) /\ Len(G[L]) \in Nat /\ Len(G[L]) > 0 /\ f[L] + Len(G[L]) = k
      /\ f \in [1 .. L -> Nat]
  BY DEF PcrsPlaced
<1>4. e \in TimedPcrs
  BY <1>2 DEF OnTime, TimedPcrs
<1>5. /\ Comparable(StoredKind(s, k + 1)) <=> M[k].segment = M[k + 1].segment
      /\ M[k].segment = M[k + 1].segment => StepTicks(s[k], s[k + 1]) = M[k + 1].unwrapped - M[k].unwrapped
      /\ s[k + 1].pos = M[k + 1].pos /\ s[k + 1].value = M[k + 1].pcr
  BY <1>1 DEF SamplesGood
<1>6. \A j \in 1 .. L : \A i \in 1 .. Len(G[j]) :
        f[j] + i \in 1 .. k /\ M[f[j] + i].segment = j /\ G[j][i] = OnTime(M[f[j] + i])
  BY DEF PcrsPlaced
<1>7. \A a \in 1 .. k : M[a].segment \in 1 .. L /\ a - f[M[a].segment] \in 1 .. Len(G[M[a].segment])
  BY DEF PcrsPlaced
<1>8. \A a \in 1 .. k + 1 : a = k + 1 \/ a \in 1 .. k
  BY <1>1
<1>9. \A a \in 1 .. k : a \in 1 .. k + 1
  BY <1>1
<1>20. \A j \in 1 .. L : G[j] \in Seq(TimedPcrs) /\ Len(G[j]) \in Nat /\ f[j] \in Nat
  <2> HIDE DEF L
  <2>0. G \in Seq(Seq(TimedPcrs)) /\ Len(G) = L /\ f \in [1 .. L -> Nat]
    BY <1>3
  <2>1. ASSUME NEW j \in 1 .. L PROVE G[j] \in Seq(TimedPcrs) /\ f[j] \in Nat
    <3> DEFINE S == Seq(TimedPcrs)
    <3>1. G \in Seq(S) /\ j \in 1 .. Len(G)
      BY <2>0
    <3> HIDE DEF S
    <3>2. G[j] \in S
      BY <3>1
    <3>3. QED BY <2>0, <3>2 DEF S
  <2>2. \A j \in 1 .. L : Len(G[j]) \in Nat
    BY <2>1
  <2>3. QED BY <2>1, <2>2
<1> HIDE DEF H, L
<1>10. CASE M[k].segment = M[k + 1].segment
  <2> DEFINE g == Append(G[L], e)
             m == Len(G[L])
  <2>0. m \in Nat /\ m > 0 /\ f[L] + m = k /\ f[L] \in Nat
    BY <1>3, <1>20
  <2>1. H = Append(Front(G), g)
    <3>1. Last(G) = G[L] /\ Last(Last(G)) = G[L][m] /\ m \in 1 .. m
      BY <1>3 DEF Last
    <3>2. G[L][m] = OnTime(M[k])
      BY <1>3, <1>6, <3>1
    <3>3. Last(Last(G)).clock = M[k].unwrapped
      BY <3>1, <3>2 DEF OnTime
    <3>4. Timed(s[k + 1], Last(Last(G)).clock + StepTicks(s[k], s[k + 1])) = e
      BY <1>2, <1>5, <1>10, <3>3 DEF Timed, OnTime
    <3>5. H = Append(Front(G), Append(Last(G), Timed(s[k + 1], Last(Last(G)).clock + StepTicks(s[k], s[k + 1]))))
      BY <1>1, <1>5, <1>10 DEF H, AddTimed
    <3>6. QED BY <3>1, <3>4, <3>5
  <2>2. g \in Seq(TimedPcrs) /\ Len(g) = m + 1 /\ g[m + 1] = e /\ \A i \in 1 .. m : g[i] = G[L][i]
    BY <1>3, <1>4
  <2> HIDE DEF e, g, m
  <2>3. /\ H \in Seq(Seq(TimedPcrs)) /\ Len(H) = L /\ H[L] = g
        /\ \A j \in 1 .. L : j # L => H[j] = G[j]
    <3>1. Len(G) > 0 /\ g \in Seq(TimedPcrs)
      BY <1>3, <2>2
    <3>2. LET F == Append(Front(G), g)
          IN /\ F \in Seq(Seq(TimedPcrs)) /\ Len(F) = Len(G) /\ F[Len(G)] = g
             /\ \A j \in 1 .. Len(G) : j # Len(G) => F[j] = G[j]
      BY <1>3, <3>1, LastReplaced, ZenonT(60)
    <3>3. QED BY <1>3, <2>1, <3>2
  <2>4. ASSUME NEW j \in 1 .. L, NEW i \in 1 .. Len(H[j])
        PROVE  f[j] + i \in 1 .. k + 1 /\ M[f[j] + i].segment = j /\ H[j][i] = OnTime(M[f[j] + i])
    <3>1. CASE j = L /\ i = m + 1
      <4>1. f[j] + i = k + 1
        BY <1>1, <2>0, <3>1
      <4>2. H[j][i] = e
        BY <2>2, <2>3, <3>1
      <4>3. QED BY <1>1, <1>3, <1>10, <3>1, <4>1, <4>2 DEF e
    <3>2. CASE ~(j = L /\ i = m + 1)
      <4>1. i \in 1 .. Len(G[j]) /\ H[j][i] = G[j][i]
        <5>1. CASE j = L
          <6>1. i \in 1 .. m
            BY <2>0, <2>2, <2>3, <3>2, <5>1
          <6>2. QED BY <2>2, <2>3, <5>1, <6>1 DEF m
        <5>2. CASE j # L
          BY <2>3, <5>2
        <5>3. QED BY <5>1, <5>2
      <4>2. QED BY <1>6, <1>9, <4>1
    <3>3. QED BY <3>1, <3>2
  <2>5. ASSUME NEW a \in 1 .. k + 1
        PROVE  M[a].segment \in 1 .. L /\ a - f[M[a].segment] \in 1 .. Len(H[M[a].segment])
    <3>1. CASE a = k + 1
      <4>1. M[a].segment = L /\ Len(H[L]) = m + 1
        BY <1>3, <1>10, <2>2, <2>3, <3>1
      <4>4. a - f[L] = m + 1
        BY <1>1, <2>0, <3>1
      <4>2. m + 1 \in 1 .. m + 1
        BY <2>0
      <4>3. QED BY <1>3, <4>1, <4>2, <4>4
    <3>2. CASE a \in 1 .. k
      <4> DEFINE j == M[a].segment
      <4>1. j \in 1 .. L /\ a - f[j] \in 1 .. Len(G[j])
        BY <1>7, <3>2
      <4>2. Len(G[j]) <= Len(H[j]) /\ Len(G[j]) \in Nat /\ Len(H[j]) \in Nat
        <5>1. CASE j = L
          <6>1. Len(G[j]) = m /\ Len(H[j]) = m + 1
            BY <2>2, <2>3, <5>1 DEF m
          <6>2. QED BY <2>0, <6>1
        <5>2. CASE j # L
          <6>1. H[j] = G[j] /\ Len(G[j]) \in Nat
            BY <1>20, <2>3, <4>1, <5>2
          <6>2. QED BY <6>1
        <5>3. QED BY <5>1, <5>2
      <4> HIDE DEF j
      <4>3. a - f[j] \in 1 .. Len(H[j])
        BY <4>1, <4>2
      <4>4. QED BY <4>1, <4>3 DEF j
    <3>3. QED BY <1>8, <3>1, <3>2
  <2>6. Len(H[Len(H)]) > 0 /\ f[Len(H)] + Len(H[Len(H)]) = k + 1
    BY <1>1, <2>0, <2>2, <2>3
  <2>7. PcrsPlaced(H, f, M, k + 1)
    BY <1>3, <1>10, <2>3, <2>4, <2>5, <2>6 DEF PcrsPlaced
  <2>8. QED BY <2>7 DEF H
<1>11. CASE M[k].segment # M[k + 1].segment
  <2> DEFINE h == [j \in 1 .. L + 1 |-> IF j = L + 1 THEN k ELSE f[j]]
             one == <<e>>
  <2>1. M[k + 1].segment = L + 1 /\ M[k + 1].unwrapped = M[k + 1].pcr
    BY <1>2, <1>3, <1>11 DEF Following
  <2>2. H = Append(G, one)
    <3>1. Timed(s[k + 1], s[k + 1].value) = e
      BY <1>5, <2>1 DEF Timed, OnTime
    <3>2. QED BY <1>5, <1>11, <3>1 DEF H, AddTimed
  <2>3. one \in Seq(TimedPcrs) /\ Len(one) = 1 /\ one[1] = e
    BY <1>4
  <2> HIDE DEF e, one
  <2>4. /\ H \in Seq(Seq(TimedPcrs)) /\ Len(H) = L + 1 /\ H[L + 1] = one
        /\ \A j \in 1 .. L : H[j] = G[j]
    BY <1>3, <2>2, <2>3
  <2>5. /\ h \in [1 .. L + 1 -> Nat] /\ h[L + 1] = k /\ \A j \in 1 .. L : h[j] = f[j]
    <3>0. L \in Nat
      BY <1>3
    <3>1. L + 1 \in 1 .. L + 1 /\ \A j \in 1 .. L + 1 : j = L + 1 \/ j \in 1 .. L
      BY <3>0
    <3>2. \A j \in 1 .. L : j \in 1 .. L + 1 /\ j # L + 1
      BY <1>3
    <3>3. QED BY <1>1, <1>3, <3>1, <3>2
  <2> HIDE DEF h
  <2>6. \A j \in 1 .. L + 1 : j = L + 1 \/ j \in 1 .. L
    BY <1>3
  <2>7. ASSUME NEW j \in 1 .. L + 1, NEW i \in 1 .. Len(H[j])
        PROVE  h[j] + i \in 1 .. k + 1 /\ M[h[j] + i].segment = j /\ H[j][i] = OnTime(M[h[j] + i])
    <3>1. CASE j = L + 1
      <4>0. i \in 1 .. 1
        BY <2>3, <2>4, <3>1
      <4>1. i = 1
        BY <4>0
      <4>2. h[j] + i = k + 1 /\ H[j][i] = e
        BY <2>3, <2>4, <2>5, <3>1, <4>1
      <4>3. QED BY <1>1, <2>1, <3>1, <4>2 DEF e
    <3>2. CASE j \in 1 .. L
      <4>1. h[j] = f[j] /\ H[j] = G[j]
        BY <2>4, <2>5, <3>2
      <4>2. QED BY <1>6, <1>9, <3>2, <4>1
    <3>3. QED BY <2>6, <3>1, <3>2
  <2>8. ASSUME NEW a \in 1 .. k + 1
        PROVE  M[a].segment \in 1 .. L + 1 /\ a - h[M[a].segment] \in 1 .. Len(H[M[a].segment])
    <3>1. CASE a = k + 1
      <4>1. M[a].segment = L + 1 /\ Len(H[L + 1]) = 1 /\ a - h[L + 1] = 1
        BY <1>1, <2>1, <2>3, <2>4, <2>5, <3>1
      <4>2. QED BY <1>3, <4>1
    <3>2. CASE a \in 1 .. k
      <4>1. M[a].segment \in 1 .. L /\ a - f[M[a].segment] \in 1 .. Len(G[M[a].segment])
        BY <1>7, <3>2
      <4>2. M[a].segment \in 1 .. L + 1
        BY <1>3, <4>1
      <4>3. QED BY <2>4, <2>5, <4>1, <4>2
    <3>3. QED BY <1>8, <3>1, <3>2
  <2>9. Len(H[Len(H)]) > 0 /\ h[Len(H)] + Len(H[Len(H)]) = k + 1 /\ Len(H) > 0
    <3>1. Len(H) = L + 1 /\ H[Len(H)] = one /\ h[Len(H)] = k
      BY <2>4, <2>5
    <3>2. Len(H[Len(H)]) = 1
      BY <2>3, <3>1
    <3>3. QED BY <1>1, <1>3, <3>1, <3>2
  <2>10. PcrsPlaced(H, h, M, k + 1)
    BY <2>1, <2>4, <2>5, <2>7, <2>8, <2>9 DEF PcrsPlaced
  <2>11. QED BY <2>10 DEF H
<1>12. QED BY <1>10, <1>11

\* All PCRs are placed in the segments of the jitter.
LEMMA SegmentsPlaced ==
  ASSUME NEW M, NEW at, MarksGood(M, at), Len(M) > 0, NEW s, SamplesGood(s, M)
  PROVE  \E f : PcrsPlaced(JitterSegments(s), f, M, Len(M))
<1> DEFINE N == Len(M) - 1
<1>1. Len(M) \in Nat /\ N \in Nat /\ Len(M) = N + 1 /\ Len(s) = N + 1
  BY MarksTyped DEF SamplesGood
<1> HIDE DEF N
<1>2. PICK h : /\ JitterSegments(s) = h[N + 1] /\ h[1] = <<<<Timed(s[1], s[1].value)>>>>
               /\ \A n \in 1 .. N : h[n + 1] = AddTimed(s, h[n], n + 1)
  BY <1>1, TimedFolded
<1> DEFINE Q == {n \in Nat : n <= N => \E f : PcrsPlaced(h[n + 1], f, M, n + 1)}
<1>3. 0 \in Q
  <2>1. \E f : PcrsPlaced(h[1], f, M, 1)
    BY <1>2, FirstPlaced
  <2>2. QED BY <2>1
<1>4. ASSUME NEW n \in Nat, n \in Q PROVE n + 1 \in Q
  <2>1. SUFFICES ASSUME n + 1 <= N PROVE \E f : PcrsPlaced(h[(n + 1) + 1], f, M, (n + 1) + 1)
    OBVIOUS
  <2>2. PICK f : PcrsPlaced(h[n + 1], f, M, n + 1)
    BY <1>1, <1>4, <2>1
  <2>3. n + 1 \in 1 .. N /\ n + 1 \in 1 .. Len(M) - 1
    BY <1>1, <2>1
  <2>4. h[(n + 1) + 1] = AddTimed(s, h[n + 1], (n + 1) + 1)
    BY <1>2, <2>3
  <2>5. QED BY <2>2, <2>3, <2>4, NextPlaced
<1>5. \A n \in Nat : n \in Q
  <2> HIDE DEF Q
  <2> QED BY <1>3, <1>4, SetInduction
<1>6. QED BY <1>1, <1>2, <1>5

-------------------------------------------------------------------------------
(* The jitter points are those of the timeline.                              *)

\* The PCRs between two others of their segment, and the jitter of each.
Inner(M) == {i \in 1 .. Len(M) : /\ i - 1 \in 1 .. Len(M) /\ i + 1 \in 1 .. Len(M)
                                 /\ M[i - 1].segment = M[i].segment
                                 /\ M[i + 1].segment = M[i].segment}
PointAt(M, i) == JitterAt(OnTime(M[i - 1]), OnTime(M[i]), OnTime(M[i + 1]))
PointsIn(seg) == {JitterAt(seg[i - 1], seg[i], seg[i + 1]) : i \in 2 .. Len(seg) - 1}

\* A point of a segment is the jitter of a PCR of the list.
LEMMA PointOnTimeline ==
  ASSUME NEW M, NEW at, MarksGood(M, at), NEW G, NEW f, PcrsPlaced(G, f, M, Len(M)),
         NEW j \in 1 .. Len(G), NEW i \in 2 .. Len(G[j]) - 1
  PROVE  \E k \in Inner(M) : JitterAt(G[j][i - 1], G[j][i], G[j][i + 1]) = PointAt(M, k)
<1> DEFINE k == f[j] + i
           N == Len(G[j])
<1>1. f[j] \in Nat /\ N \in Nat /\ Len(M) \in Nat
  <2> DEFINE S == Seq(TimedPcrs)
  <2>1. G \in Seq(S) /\ f \in [1 .. Len(G) -> Nat]
    BY DEF PcrsPlaced
  <2> HIDE DEF S
  <2>2. G[j] \in S
    BY <2>1
  <2>3. QED BY <2>1, <2>2, MarksTyped DEF S
<1>2. \A x \in 1 .. N : f[j] + x \in 1 .. Len(M) /\ M[f[j] + x].segment = j /\ G[j][x] = OnTime(M[f[j] + x])
  BY DEF PcrsPlaced
<1> HIDE DEF N
<1>3. i \in 1 .. N /\ i - 1 \in 1 .. N /\ i + 1 \in 1 .. N /\ i \in Int
  <2>1. i \in 2 .. N - 1
    BY DEF N
  <2>2. QED BY <1>1, <2>1
<1>4. f[j] + (i - 1) = k - 1 /\ f[j] + (i + 1) = k + 1 /\ f[j] + i = k
  BY <1>1, <1>3
<1> HIDE DEF k
<1>5. /\ k \in 1 .. Len(M) /\ M[k].segment = j /\ G[j][i] = OnTime(M[k])
      /\ k - 1 \in 1 .. Len(M) /\ M[k - 1].segment = j /\ G[j][i - 1] = OnTime(M[k - 1])
      /\ k + 1 \in 1 .. Len(M) /\ M[k + 1].segment = j /\ G[j][i + 1] = OnTime(M[k + 1])
  BY <1>2, <1>3, <1>4
<1>6. k \in Inner(M)
  BY <1>5 DEF Inner
<1>7. QED BY <1>5, <1>6 DEF PointAt

\* And the jitter of a PCR between two others of its segment is such a point.
LEMMA PointInSegment ==
  ASSUME NEW M, NEW at, MarksGood(M, at), NEW G, NEW f, PcrsPlaced(G, f, M, Len(M)), NEW k \in Inner(M)
  PROVE  \E j \in 1 .. Len(G) : \E i \in 2 .. Len(G[j]) - 1 :
           JitterAt(G[j][i - 1], G[j][i], G[j][i + 1]) = PointAt(M, k)
<1> DEFINE j == M[k].segment
           i == k - f[j]
           N == Len(G[j])
<1>1. /\ k \in 1 .. Len(M) /\ k - 1 \in 1 .. Len(M) /\ k + 1 \in 1 .. Len(M)
      /\ M[k - 1].segment = j /\ M[k + 1].segment = j
  BY DEF Inner
<1>2. j \in 1 .. Len(G) /\ k - f[j] \in 1 .. N /\ (k - 1) - f[j] \in 1 .. N /\ (k + 1) - f[j] \in 1 .. N
  BY <1>1 DEF PcrsPlaced
<1>3. f[j] \in Nat /\ N \in Nat /\ k \in Nat
  <2> DEFINE S == Seq(TimedPcrs)
  <2>1. G \in Seq(S) /\ f \in [1 .. Len(G) -> Nat]
    BY DEF PcrsPlaced
  <2> HIDE DEF S, j
  <2>2. G[j] \in S /\ f[j] \in Nat
    BY <1>2, <2>1
  <2>3. QED BY <1>1, <2>2 DEF S
<1>4. \A x \in 1 .. N : G[j][x] = OnTime(M[f[j] + x])
  BY <1>2 DEF PcrsPlaced
<1> HIDE DEF N, j
<1>5. /\ i \in 2 .. N - 1 /\ i \in 1 .. N /\ i - 1 \in 1 .. N /\ i + 1 \in 1 .. N
      /\ f[j] + i = k /\ f[j] + (i - 1) = k - 1 /\ f[j] + (i + 1) = k + 1
  <2> DEFINE F == f[j]
  <2>1. F \in Int /\ N \in Int /\ k \in Int /\ i = k - F
    BY <1>3
  <2>2. k - F \in 1 .. N /\ (k - 1) - F \in 1 .. N /\ (k + 1) - F \in 1 .. N
    BY <1>2 DEF N
  <2> HIDE DEF F, i
  <2>3. i \in Int /\ 1 <= i - 1 /\ i + 1 <= N
    BY <2>1, <2>2
  <2>4. F + i = k /\ F + (i - 1) = k - 1 /\ F + (i + 1) = k + 1
    BY <2>1
  <2>5. i \in 2 .. N - 1 /\ i \in 1 .. N /\ i - 1 \in 1 .. N /\ i + 1 \in 1 .. N
    BY <2>1, <2>3
  <2>6. QED BY <2>4, <2>5 DEF F
<1> HIDE DEF i
<1>6. G[j][i] = OnTime(M[k]) /\ G[j][i - 1] = OnTime(M[k - 1]) /\ G[j][i + 1] = OnTime(M[k + 1])
  BY <1>4, <1>5
<1>7. JitterAt(G[j][i - 1], G[j][i], G[j][i + 1]) = PointAt(M, k)
  BY <1>6 DEF PointAt
<1>8. QED BY <1>2, <1>5, <1>7 DEF N

\* So the points are the same.
LEMMA PointsAreJitter ==
  ASSUME NEW M, NEW at, MarksGood(M, at), Len(M) > 0, NEW s, SamplesGood(s, M)
  PROVE  /\ JitterPoints(s) = {PointAt(M, i) : i \in Inner(M)}
         /\ Len(JitterSegments(s)) = M[Len(M)].segment
<1> DEFINE G == JitterSegments(s)
<1>1. PICK f : PcrsPlaced(G, f, M, Len(M))
  BY SegmentsPlaced
<1> HIDE DEF G
<1>2. Range(G) = {G[j] : j \in 1 .. Len(G)}
  <2>1. G \in Seq(Seq(TimedPcrs))
    BY <1>1 DEF PcrsPlaced
  <2>2. DOMAIN G = 1 .. Len(G)
    BY <2>1
  <2>3. QED BY <2>2 DEF Range
<1>3. JitterPoints(s) = UNION {PointsIn(seg) : seg \in Range(G)}
  BY DEF JitterPoints, PointsIn, G
<1>4. ASSUME NEW q \in JitterPoints(s) PROVE q \in {PointAt(M, i) : i \in Inner(M)}
  <2>1. PICK j \in 1 .. Len(G) : q \in PointsIn(G[j])
    BY <1>2, <1>3
  <2>2. PICK i \in 2 .. Len(G[j]) - 1 : q = JitterAt(G[j][i - 1], G[j][i], G[j][i + 1])
    BY <2>1 DEF PointsIn
  <2>3. PICK k \in Inner(M) : q = PointAt(M, k)
    BY <1>1, <2>2, PointOnTimeline
  <2>4. QED BY <2>3
<1>5. ASSUME NEW k \in Inner(M) PROVE PointAt(M, k) \in JitterPoints(s)
  <2>1. PICK j \in 1 .. Len(G) : \E i \in 2 .. Len(G[j]) - 1 :
               JitterAt(G[j][i - 1], G[j][i], G[j][i + 1]) = PointAt(M, k)
    BY <1>1, PointInSegment
  <2>2. PointAt(M, k) \in PointsIn(G[j])
    BY <2>1 DEF PointsIn
  <2>3. QED BY <1>2, <1>3, <2>2
<1>6. Len(G) = M[Len(M)].segment
  BY <1>1 DEF PcrsPlaced
<1>7. QED BY <1>4, <1>5, <1>6 DEF G

-------------------------------------------------------------------------------
(* The delivery windows lie in segments, and an even stream fills them evenly. *)

\* A window that a and b of the list bound, and one filled at the rate of the list.
Bounded(M, w, a, b) ==
  /\ M[a].segment = M[b].segment
  /\ w.units = M[b].pos - M[a].pos /\ w.ticks = M[b].unwrapped - M[a].unwrapped
AtRate(M, units, ticks) ==
  \A r \in Spans(M) : units * Lengths(M)[r] = (M[r + 1].pos - M[r].pos) * ticks
EvenList(M) ==
  \A i \in Spans(M) : Lengths(M)[i] > 0 /\ AtRate(M, M[i + 1].pos - M[i].pos, Lengths(M)[i])

WindowType == [units : Nat, ticks : Nat]

WindowGood(M, k, w) ==
  /\ w.ticks >= Second /\ \E a, b \in 1 .. k : Bounded(M, w, a, b)
  /\ EvenList(M) => AtRate(M, w.units, w.ticks)

\* The windows of the first k PCRs, and the one in progress.
Delivered(d, M, k) ==
  /\ d \in [units : Nat, ticks : Nat, windows : Seq(WindowType)]
  /\ \E a \in 1 .. k : Bounded(M, d, a, k)
  /\ EvenList(M) => AtRate(M, d.units, d.ticks)
  /\ \A n \in 1 .. Len(d.windows) : WindowGood(M, k, d.windows[n])

\* Rates add up.
LEMMA RatesAdd ==
  ASSUME NEW M, NEW at, MarksGood(M, at), NEW u \in Int, NEW t \in Int, NEW v \in Int, NEW x \in Int,
         AtRate(M, u, t), AtRate(M, v, x)
  PROVE  AtRate(M, u + v, t + x)
<1>1. ASSUME NEW r \in Spans(M)
      PROVE  (u + v) * Lengths(M)[r] = (M[r + 1].pos - M[r].pos) * (t + x)
  <2> DEFINE l == Lengths(M)[r]
             p == M[r + 1].pos - M[r].pos
  <2>1. l \in Int /\ p \in Int
    BY SpansTyped, MarksTyped
  <2>2. u * l = p * t /\ v * l = p * x
    BY DEF AtRate
  <2> HIDE DEF l, p
  <2>3. (u + v) * l = u * l + v * l /\ p * (t + x) = p * t + p * x
    BY <2>1
  <2>4. QED BY <2>2, <2>3 DEF l, p
<1>2. QED BY <1>1 DEF AtRate

\* Nothing is at every rate.
LEMMA NothingAtRate ==
  ASSUME NEW M, NEW at, MarksGood(M, at)
  PROVE  AtRate(M, 0, 0)
<1>1. ASSUME NEW r \in Spans(M) PROVE 0 * Lengths(M)[r] = (M[r + 1].pos - M[r].pos) * 0
  <2>1. Lengths(M)[r] \in Int /\ M[r + 1].pos - M[r].pos \in Int
    BY SpansTyped, MarksTyped
  <2>2. QED BY <2>1
<1>2. QED BY <1>1 DEF AtRate

\* The first PCR begins the first window.
LEMMA FirstDelivered ==
  ASSUME NEW M, NEW at, MarksGood(M, at), Len(M) > 0
  PROVE  Delivered(NoWindows, M, 1)
<1>1. 1 \in 1 .. 1 /\ 1 \in 1 .. Len(M)
  BY MarksTyped
<1>2. M[1].pos \in Int /\ M[1].unwrapped \in Int
  BY <1>1, MarksTyped
<1>3. Bounded(M, NoWindows, 1, 1)
  BY <1>2 DEF Bounded, NoWindows
<1>4. NoWindows \in [units : Nat, ticks : Nat, windows : Seq(WindowType)] /\ Len(NoWindows.windows) = 0
  BY DEF NoWindows
<1>5. AtRate(M, NoWindows.units, NoWindows.ticks)
  BY NothingAtRate DEF NoWindows
<1>6. QED BY <1>1, <1>3, <1>4, <1>5 DEF Delivered

\* A window of the first k PCRs is one of more of them.
LEMMA WindowLater ==
  ASSUME NEW M, NEW k \in Nat, NEW w, WindowGood(M, k, w)
  PROVE  WindowGood(M, k + 1, w)
<1>1. \A a \in 1 .. k : a \in 1 .. k + 1
  OBVIOUS
<1>2. QED BY <1>1 DEF WindowGood

\* The next PCR adds to the window in progress, ends it, or gives it up.
LEMMA NextDelivered ==
  ASSUME NEW M, NEW at, MarksGood(M, at), NEW s, SamplesGood(s, M), NEW k \in 1 .. Len(M) - 1,
         NEW d, Delivered(d, M, k)
  PROVE  Delivered(AddInterval(s, d, k + 1), M, k + 1)
<1> DEFINE e == AddInterval(s, d, k + 1)
           W == d.windows
           D == M[k + 1].pos - M[k].pos
           T == M[k + 1].unwrapped - M[k].unwrapped
           units == d.units + D
           ticks == d.ticks + T
           none == [d EXCEPT !.units = 0, !.ticks = 0]
           w == [units |-> units, ticks |-> ticks]
<1>1. k \in Nat /\ k \in 1 .. k /\ k \in 1 .. Len(M) /\ k + 1 \in 1 .. Len(M) /\ (k + 1) - 1 = k
      /\ k + 1 \in 1 .. k + 1 /\ \A a \in 1 .. k : a \in 1 .. k + 1 /\ a \in 1 .. Len(M)
  BY MarksTyped
<1>2. /\ M[k].pos \in Int /\ M[k].unwrapped \in Int /\ M[k + 1].pos \in Int /\ M[k + 1].unwrapped \in Int
      /\ M[k].segment \in Int /\ M[k + 1].segment \in Int /\ Following(M[k], M[k + 1])
  BY <1>1, MarksTyped DEF MarksGood
<1>3. /\ Comparable(StoredKind(s, k + 1)) <=> M[k].segment = M[k + 1].segment
      /\ M[k].segment = M[k + 1].segment => StepTicks(s[k], s[k + 1]) = T
      /\ s[k + 1].pos = M[k + 1].pos /\ s[k].pos = M[k].pos
  BY <1>1 DEF SamplesGood
<1>4. /\ d \in [units : Nat, ticks : Nat, windows : Seq(WindowType)]
      /\ d.units \in Nat /\ d.ticks \in Nat /\ W \in Seq(WindowType) /\ Len(W) \in Nat
      /\ d = [units |-> d.units, ticks |-> d.ticks, windows |-> W]
  BY DEF Delivered
<1>5. \A n \in 1 .. Len(W) : WindowGood(M, k + 1, W[n])
  <2>1. \A n \in 1 .. Len(W) : WindowGood(M, k, W[n])
    BY DEF Delivered
  <2>2. QED BY <1>1, <2>1, WindowLater
\* A window that begins with this PCR.
<1>6. ASSUME NEW x, x \in [units : Nat, ticks : Nat, windows : Seq(WindowType)], x.units = 0, x.ticks = 0,
             \A n \in 1 .. Len(x.windows) : WindowGood(M, k + 1, x.windows[n])
      PROVE  Delivered(x, M, k + 1)
  <2>1. Bounded(M, x, k + 1, k + 1)
    BY <1>2, <1>6 DEF Bounded
  <2>2. AtRate(M, x.units, x.ticks)
    BY <1>6, NothingAtRate
  <2>3. QED BY <1>1, <1>6, <2>1, <2>2 DEF Delivered
<1>7. CASE M[k].segment # M[k + 1].segment
  <2>1. e = none
    BY <1>3, <1>7 DEF AddInterval
  <2>2. none \in [units : Nat, ticks : Nat, windows : Seq(WindowType)] /\ none.units = 0 /\ none.ticks = 0
        /\ none.windows = W
    BY <1>4
  <2> HIDE DEF e, none
  <2>3. Delivered(e, M, k + 1)
    BY <1>5, <1>6, <2>1, <2>2
  <2>4. QED BY <2>3 DEF e
<1>8. CASE M[k].segment = M[k + 1].segment
  <2>1. D \in Nat /\ T \in Nat /\ units \in Nat /\ ticks \in Nat
    <3>1. D >= 0 /\ T >= 0 /\ D \in Int /\ T \in Int
      BY <1>2, <1>8 DEF Following
    <3> HIDE DEF D, T
    <3>2. QED BY <1>4, <3>1
  <2>2. d.units + s[k + 1].pos - s[k].pos = units /\ d.ticks + StepTicks(s[k], s[k + 1]) = ticks
    BY <1>2, <1>3, <1>4, <1>8
  <2>3. e = IF ticks >= Second
              THEN [units |-> 0, ticks |-> 0, windows |-> Append(W, w)]
              ELSE [d EXCEPT !.units = units, !.ticks = ticks]
    <3> HIDE DEF units, ticks
    <3> QED BY <1>1, <1>3, <1>8, <2>2 DEF AddInterval
  <2>4. PICK a \in 1 .. k : Bounded(M, d, a, k)
    BY DEF Delivered
  <2>5. M[a].segment = M[k + 1].segment /\ units = M[k + 1].pos - M[a].pos
        /\ ticks = M[k + 1].unwrapped - M[a].unwrapped
    <3>1. M[a].pos \in Int /\ M[a].unwrapped \in Int
      BY <1>1, MarksTyped
    <3>2. M[a].segment = M[k].segment /\ d.units = M[k].pos - M[a].pos
          /\ d.ticks = M[k].unwrapped - M[a].unwrapped
      BY <2>4 DEF Bounded
    <3>3. QED BY <1>2, <1>8, <3>1, <3>2
  <2>6. EvenList(M) => AtRate(M, units, ticks)
    <3>1. SUFFICES ASSUME EvenList(M) PROVE AtRate(M, units, ticks)
      OBVIOUS
    <3>2. k \in Spans(M)
      BY <1>8 DEF Spans
    <3>3. AtRate(M, D, T)
      BY <3>1, <3>2, SpansTyped DEF EvenList
    <3>4. AtRate(M, d.units, d.ticks)
      BY <3>1 DEF Delivered
    <3> HIDE DEF D, T
    <3>5. QED BY <1>4, <2>1, <3>3, <3>4, RatesAdd
  <2> HIDE DEF units, ticks
  <2>7. CASE ticks >= Second
    <3>1. w \in WindowType /\ w.units = units /\ w.ticks = ticks
      BY <2>1 DEF WindowType
    <3>2. WindowGood(M, k + 1, w)
      <4>1. Bounded(M, w, a, k + 1)
        BY <2>5, <3>1 DEF Bounded
      <4>2. QED BY <1>1, <2>6, <2>7, <3>1, <4>1 DEF WindowGood
    <3> HIDE DEF w
    <3> DEFINE V == Append(W, w)
    <3>3. V \in Seq(WindowType) /\ Len(V) = Len(W) + 1 /\ V[Len(W) + 1] = w
          /\ \A n \in 1 .. Len(W) : V[n] = W[n]
      BY <1>4, <3>1
    <3>4. \A n \in 1 .. Len(W) + 1 : n = Len(W) + 1 \/ n \in 1 .. Len(W)
      BY <1>4
    <3>5. e = [units |-> 0, ticks |-> 0, windows |-> V]
      BY <2>3, <2>7
    <3> HIDE DEF V, e, W
    <3>6. \A n \in 1 .. Len(V) : WindowGood(M, k + 1, V[n])
      BY <1>5, <3>2, <3>3, <3>4
    <3>7. e \in [units : Nat, ticks : Nat, windows : Seq(WindowType)] /\ e.units = 0 /\ e.ticks = 0
          /\ e.windows = V
      BY <3>3, <3>5
    <3>8. Delivered(e, M, k + 1)
      BY <1>6, <3>6, <3>7
    <3>9. QED BY <3>8 DEF e
  <2>8. CASE ~(ticks >= Second)
    <3>1. e = [d EXCEPT !.units = units, !.ticks = ticks]
      BY <2>3, <2>8
    <3>2. e \in [units : Nat, ticks : Nat, windows : Seq(WindowType)] /\ e.units = units /\ e.ticks = ticks
          /\ e.windows = W
      <4> HIDE DEF e
      <4> QED BY <1>4, <2>1, <3>1
    <3> HIDE DEF e, W
    <3>3. Bounded(M, e, a, k + 1)
      BY <2>5, <3>2 DEF Bounded
    <3>4. Delivered(e, M, k + 1)
      BY <1>1, <1>5, <2>6, <3>2, <3>3 DEF Delivered
    <3>5. QED BY <3>4 DEF e
  <2>9. QED BY <2>7, <2>8
<1>9. QED BY <1>7, <1>8

\* So all windows are.
LEMMA WindowsDelivered ==
  ASSUME NEW M, NEW at, MarksGood(M, at), Len(M) > 0, NEW s, SamplesGood(s, M)
  PROVE  \E d : DeliveryWindows(s) = d.windows /\ Delivered(d, M, Len(M))
<1> DEFINE N == Len(M) - 1
<1>1. Len(M) \in Nat /\ N \in Nat /\ Len(M) = N + 1 /\ Len(s) = N + 1
  BY MarksTyped DEF SamplesGood
<1> HIDE DEF N
<1>2. PICK h : /\ DeliveryWindows(s) = h[N + 1].windows /\ h[1] = NoWindows
               /\ \A n \in 1 .. N : h[n + 1] = AddInterval(s, h[n], n + 1)
  BY <1>1, WindowsFolded
<1> DEFINE Q == {n \in Nat : n <= N => Delivered(h[n + 1], M, n + 1)}
<1>3. 0 \in Q
  <2>1. Delivered(h[1], M, 1)
    BY <1>2, FirstDelivered
  <2>2. QED BY <2>1
<1>4. ASSUME NEW n \in Nat, n \in Q PROVE n + 1 \in Q
  <2>1. SUFFICES ASSUME n + 1 <= N PROVE Delivered(h[(n + 1) + 1], M, (n + 1) + 1)
    OBVIOUS
  <2>2. Delivered(h[n + 1], M, n + 1)
    BY <1>1, <1>4, <2>1
  <2>3. n + 1 \in 1 .. N /\ n + 1 \in 1 .. Len(M) - 1
    BY <1>1, <2>1
  <2>4. h[(n + 1) + 1] = AddInterval(s, h[n + 1], (n + 1) + 1)
    BY <1>2, <2>3
  <2>5. QED BY <2>2, <2>3, <2>4, NextDelivered
<1>5. \A n \in Nat : n \in Q
  <2> HIDE DEF Q
  <2> QED BY <1>3, <1>4, SetInduction
<1>6. QED BY <1>1, <1>2, <1>5

\* Windows at one rate are at that rate together.
LEMMA WindowsAtRate ==
  ASSUME NEW M, NEW at, MarksGood(M, at), NEW W \in Seq(WindowType),
         \A n \in 1 .. Len(W) : AtRate(M, W[n].units, W[n].ticks)
  PROVE  LET u == SumOf([i \in DOMAIN W |-> W[i].units], DOMAIN W)
             t == SumOf([i \in DOMAIN W |-> W[i].ticks], DOMAIN W)
         IN u \in Nat /\ t \in Nat /\ AtRate(M, u, t)
<1> DEFINE f == [i \in DOMAIN W |-> W[i].units]
           g == [i \in DOMAIN W |-> W[i].ticks]
           N == Len(W)
<1>1. DOMAIN W = 1 .. N /\ N \in Nat
  OBVIOUS
<1>2. ASSUME NEW i \in 1 .. N
      PROVE  f[i] = W[i].units /\ g[i] = W[i].ticks /\ f[i] \in Nat /\ g[i] \in Nat
  <2>1. W[i] \in WindowType
    OBVIOUS
  <2>2. W[i].units \in Nat /\ W[i].ticks \in Nat
    BY <2>1 DEF WindowType
  <2>3. QED BY <1>1, <2>2
<1> HIDE DEF f, g
<1> DEFINE Q == {n \in Nat : n <= N =>
                   /\ SumOf(f, 1 .. n) \in Nat /\ SumOf(g, 1 .. n) \in Nat
                   /\ AtRate(M, SumOf(f, 1 .. n), SumOf(g, 1 .. n))}
<1>3. 0 \in Q
  <2>1. 1 .. 0 = {}
    OBVIOUS
  <2>2. SumOf(f, 1 .. 0) = 0 /\ SumOf(g, 1 .. 0) = 0
    BY <2>1, SumOne
  <2>3. QED BY <2>2, NothingAtRate
<1>4. ASSUME NEW n \in Nat, n \in Q PROVE n + 1 \in Q
  <2>1. SUFFICES ASSUME n + 1 <= N
                 PROVE  /\ SumOf(f, 1 .. n + 1) \in Nat /\ SumOf(g, 1 .. n + 1) \in Nat
                        /\ AtRate(M, SumOf(f, 1 .. n + 1), SumOf(g, 1 .. n + 1))
    OBVIOUS
  <2>2. SumOf(f, 1 .. n) \in Nat /\ SumOf(g, 1 .. n) \in Nat /\ AtRate(M, SumOf(f, 1 .. n), SumOf(g, 1 .. n))
    BY <1>1, <1>4, <2>1
  <2>3. /\ IsFiniteSet(1 .. n) /\ n + 1 \notin 1 .. n /\ 1 .. n + 1 = (1 .. n) \cup {n + 1}
        /\ n + 1 \in 1 .. N /\ \A y \in (1 .. n) \cup {n + 1} : y \in 1 .. N
    <3>1. IsFiniteSet(1 .. n)
      BY FS_Interval
    <3>2. QED BY <1>1, <2>1, <3>1
  <2> DEFINE S == 1 .. n
             z == n + 1
  <2>9. \A y \in S \cup {z} : f[y] \in Nat /\ g[y] \in Nat
    BY <1>2, <2>3
  <2>6. AtRate(M, f[z], g[z]) /\ f[z] \in Int /\ g[z] \in Int /\ f[z] \in Nat /\ g[z] \in Nat
    BY <1>2, <2>3
  <2>10. IsFiniteSet(S) /\ z \notin S /\ 1 .. n + 1 = S \cup {z}
    BY <2>3
  <2>11. SumOf(f, S) \in Nat /\ SumOf(g, S) \in Nat /\ AtRate(M, SumOf(f, S), SumOf(g, S))
    BY <2>2
  <2> HIDE DEF S, z
  <2>4. SumOf(f, S \cup {z}) = SumOf(f, S) + f[z]
    BY <2>9, <2>10, SumAdd
  <2>5. SumOf(g, S \cup {z}) = SumOf(g, S) + g[z]
    BY <2>9, <2>10, SumAdd
  <2> DEFINE a == SumOf(f, S)
             b == SumOf(g, S)
             c == f[z]
             e == g[z]
  <2>12. a \in Int /\ b \in Int /\ c \in Int /\ e \in Int /\ AtRate(M, a, b) /\ AtRate(M, c, e)
    BY <2>6, <2>11
  <2> HIDE DEF a, b, c, e
  <2>13. AtRate(M, a + c, b + e)
    BY <2>12, RatesAdd
  <2>7. AtRate(M, SumOf(f, S) + f[z], SumOf(g, S) + g[z])
    BY <2>13 DEF a, b, c, e
  <2>14. SumOf(f, S \cup {z}) \in Nat /\ SumOf(g, S \cup {z}) \in Nat
         /\ AtRate(M, SumOf(f, S \cup {z}), SumOf(g, S \cup {z}))
    BY <2>4, <2>5, <2>6, <2>7, <2>11
  <2>8. QED BY <2>10, <2>14, Zenon
<1>5. \A n \in Nat : n \in Q
  <2> HIDE DEF Q
  <2> QED BY <1>3, <1>4, SetInduction
<1>6. SumOf(f, 1 .. N) \in Nat /\ SumOf(g, 1 .. N) \in Nat /\ AtRate(M, SumOf(f, 1 .. N), SumOf(g, 1 .. N))
  <2>1. N \in Q /\ N <= N
    BY <1>1, <1>5
  <2> HIDE DEF N
  <2>2. QED BY <2>1
<1>7. QED BY <1>1, <1>6 DEF f, g

\* A product is zero if one of its factors is.
LEMMA ZeroProduct ==
  ASSUME NEW x \in Int, NEW l \in Int, l > 0, x * l = 0
  PROVE  x = 0
OBVIOUS

\* Two amounts at one rate: neither deviates.
LEMMA SameRate ==
  ASSUME NEW u \in Int, NEW t \in Int, NEW v \in Int, NEW x \in Int, NEW l \in Int, NEW p \in Int,
         l > 0, u * l = p * t, v * l = p * x
  PROVE  u * x - v * t = 0
<1>1. (u * x) * l = (u * l) * x /\ (v * t) * l = (v * l) * t
  OBVIOUS
<1>2. (p * t) * x = (p * x) * t
  OBVIOUS
<1>3. (u * x) * l = (v * t) * l
  BY <1>1, <1>2
<1>4. u * x \in Int /\ v * t \in Int
  OBVIOUS
<1> DEFINE a == u * x
           b == v * t
<1>5. a \in Int /\ b \in Int /\ a * l = b * l
  BY <1>3, <1>4
<1> HIDE DEF a, b
<1>6. (a - b) * l = a * l - b * l
  BY <1>5
<1>7. (a - b) * l = 0
  <2>1. a * l \in Int
    BY <1>5
  <2>2. QED BY <1>5, <1>6, <2>1
<1>8. a - b = 0
  BY <1>5, <1>7, ZeroProduct
<1>9. QED BY <1>8 DEF a, b

\* No window at the rate of the list deviates from windows at that rate.
LEMMA NoneDeviates ==
  ASSUME NEW M, NEW at, MarksGood(M, at), NEW r \in Spans(M), Lengths(M)[r] > 0,
         NEW w \in WindowType, AtRate(M, w.units, w.ticks),
         NEW u \in Nat, NEW t \in Nat, AtRate(M, u, t)
  PROVE  ~Deviates(w, u, t)
<1> DEFINE l == Lengths(M)[r]
           p == M[r + 1].pos - M[r].pos
           off == w.units * t - u * w.ticks
<1>1. l \in Int /\ p \in Int /\ l > 0
  BY SpansTyped, MarksTyped
<1>2. w.units \in Nat /\ w.ticks \in Nat
  BY DEF WindowType
<1>3. w.units * l = p * w.ticks /\ u * l = p * t
  BY DEF AtRate
<1>4. off = 0
  <2> DEFINE x == w.units
             y == w.ticks
  <2>1. x * l = p * y /\ u * l = p * t /\ x \in Int /\ y \in Int /\ u \in Int /\ t \in Int
    BY <1>2, <1>3
  <2> HIDE DEF l, p, x, y
  <2>2. x * t - u * y = 0
    BY <1>1, <2>1, SameRate
  <2>3. QED BY <2>2 DEF x, y
<1> HIDE DEF l, p
<1> DEFINE y == (TolerancePercent * u) * w.ticks
<1>5. y \in Nat
  BY <1>2, StatsAssumption
<1>6. Deviates(w, u, t) <=> (off * 100 > y \/ -off * 100 > y)
  BY DEF Deviates
<1> HIDE DEF off, y
<1> DEFINE z == off * 100
<1>7. z = 0
  <2>1. 0 * 100 = 0
    OBVIOUS
  <2>2. QED BY <1>4, <2>1, Zenon
<1> HIDE DEF z
<1>8. ~(z > y) /\ ~(-z > y)
  BY <1>5, <1>7
<1>9. QED BY <1>6, <1>8 DEF z

\* An even stream has no jitter.
LEMMA EvenHasNone ==
  ASSUME NEW M, NEW at, MarksGood(M, at), EvenList(M), NEW i \in Inner(M), NEW limit \in Nat
  PROVE  ~JitterOver(PointAt(M, i), limit)
<1> DEFINE P == M[i].pos - M[i - 1].pos
           R == M[i + 1].pos - M[i].pos
           a == M[i].unwrapped - M[i - 1].unwrapped
           b == M[i + 1].unwrapped - M[i].unwrapped
           q == PointAt(M, i)
<1>1. /\ i \in 1 .. Len(M) /\ i - 1 \in 1 .. Len(M) /\ i + 1 \in 1 .. Len(M) /\ (i - 1) + 1 = i
      /\ M[i - 1].segment = M[i].segment /\ M[i + 1].segment = M[i].segment
  BY DEF Inner
<1>2. i \in Spans(M) /\ i - 1 \in Spans(M)
  <2>1. Len(M) \in Nat
    BY MarksTyped
  <2>2. i \in 1 .. Len(M) - 1 /\ i - 1 \in 1 .. Len(M) - 1
    BY <1>1, <2>1
  <2>3. QED BY <1>1, <2>2 DEF Spans
<1>3. Lengths(M)[i] = b /\ Lengths(M)[i - 1] = a
  BY <1>1, <1>2, SpansTyped
<1>4. /\ M[i].pos \in Int /\ M[i - 1].pos \in Int /\ M[i + 1].pos \in Int
      /\ M[i].unwrapped \in Int /\ M[i - 1].unwrapped \in Int /\ M[i + 1].unwrapped \in Int
  BY <1>1, MarksTyped
<1>5. P > 0 /\ R > 0
  <2>1. i \in 1 .. Len(M) - 1 /\ i - 1 \in 1 .. Len(M) - 1
    BY <1>2 DEF Spans
  <2>2. Following(M[i], M[i + 1]) /\ Following(M[i - 1], M[i])
    BY <1>1, <2>1 DEF MarksGood
  <2>3. QED BY <1>4, <2>2 DEF Following
<1>6. P * b = R * a
  <2>1. AtRate(M, M[(i - 1) + 1].pos - M[i - 1].pos, Lengths(M)[i - 1])
    BY <1>2 DEF EvenList
  <2>2. AtRate(M, P, a)
    BY <1>1, <1>3, <2>1
  <2>3. P * Lengths(M)[i] = (M[i + 1].pos - M[i].pos) * a
    BY <1>2, <2>2 DEF AtRate
  <2>4. QED BY <1>3, <2>3
<1>7. /\ M[i + 1].pos - M[i - 1].pos = P + R /\ M[i + 1].unwrapped - M[i - 1].unwrapped = a + b
      /\ P \in Int /\ R \in Int /\ a \in Int /\ b \in Int
  BY <1>4
<1>8. /\ q.num = a * (M[i + 1].pos - M[i - 1].pos) - (M[i + 1].unwrapped - M[i - 1].unwrapped) * P
      /\ q.den = M[i + 1].pos - M[i - 1].pos
  BY DEF PointAt, JitterAt, OnTime
<1> HIDE DEF P, R, a, b, q
<1>9. q.num = a * (P + R) - (a + b) * P /\ q.den = P + R
  BY <1>7, <1>8
<1>10. a * (P + R) = a * P + a * R /\ (a + b) * P = a * P + b * P /\ b * P = a * R
  BY <1>6, <1>7
<1>11. q.num = 0
  <2>1. a * P \in Int /\ a * R \in Int
    BY <1>7
  <2>2. QED BY <1>9, <1>10, <2>1
<1>12. limit * q.den >= 0 /\ limit * q.den \in Int
  <2>1. q.den \in Nat
    BY <1>5, <1>7, <1>9
  <2>2. QED BY <2>1
<1>13. ~JitterOver(q, limit)
  BY <1>11, <1>12 DEF JitterOver
<1>14. QED BY <1>13 DEF q

\* The properties speak of the same points, and of the same even streams.
LEMMA WantedPoints ==
  ASSUME MarksGood(marks, pos)
  PROVE  /\ {JitterAt(OnTimeline(i - 1), OnTimeline(i), OnTimeline(i + 1)) :
               i \in {j \in DOMAIN marks : Interior(j)}} = {PointAt(marks, i) : i \in Inner(marks)}
         /\ EvenDelivery => EvenList(marks)
<1>1. {j \in DOMAIN marks : Interior(j)} = Inner(marks)
  <2>1. DOMAIN marks = 1 .. Len(marks)
    BY MarksTyped
  <2>2. \A j : {marks[j - 1].segment, marks[j + 1].segment} = {marks[j].segment} <=>
                 marks[j - 1].segment = marks[j].segment /\ marks[j + 1].segment = marks[j].segment
    OBVIOUS
  <2>3. QED BY <2>1, <2>2 DEF Interior, Inner
<1>2. \A i : OnTimeline(i) = OnTime(marks[i])
  BY DEF OnTimeline, OnTime
<1>3. \A i : JitterAt(OnTimeline(i - 1), OnTimeline(i), OnTimeline(i + 1)) = PointAt(marks, i)
  BY <1>2 DEF PointAt
<1>4. {JitterAt(OnTimeline(i - 1), OnTimeline(i), OnTimeline(i + 1)) :
         i \in {j \in DOMAIN marks : Interior(j)}} = {PointAt(marks, i) : i \in Inner(marks)}
  BY <1>1, <1>3
<1>5. ASSUME EvenDelivery PROVE EvenList(marks)
  <2>1. ASSUME NEW i \in Spans(marks), NEW r \in Spans(marks)
        PROVE  /\ Lengths(marks)[i] > 0
               /\ (marks[i + 1].pos - marks[i].pos) * Lengths(marks)[r]
                     = (marks[r + 1].pos - marks[r].pos) * Lengths(marks)[i]
    <3>1. SpanTicks[i] > 0 /\ Even(i, i + 1, r, r + 1)
      BY <1>5, SpansAreMeasured DEF EvenDelivery
    <3>2. /\ Lengths(marks)[i] = marks[i + 1].unwrapped - marks[i].unwrapped
          /\ Lengths(marks)[r] = marks[r + 1].unwrapped - marks[r].unwrapped
      BY SpansTyped
    <3>3. QED BY <3>1, <3>2, SpansAreMeasured DEF Even
  <2>2. QED BY <2>1 DEF EvenList, AtRate
<1>6. QED BY <1>4, <1>5

\* A stream with an even delivery over two windows is judged constant.
LEMMA EvenIsConstant ==
  ASSUME NEW M, NEW at, MarksGood(M, at), EvenList(M), NEW r \in Inner(M), NEW s, SamplesGood(s, M),
         Len(DeliveryWindows(s)) >= 2, NEW points, points = {PointAt(M, i) : i \in Inner(M)}
  PROVE  Delivery(s, points) = "constant"
<1> DEFINE W == DeliveryWindows(s)
           u == SumOf([i \in DOMAIN W |-> W[i].units], DOMAIN W)
           t == SumOf([i \in DOMAIN W |-> W[i].ticks], DOMAIN W)
<1>1. Len(M) \in Nat /\ Len(M) > 0 /\ r \in Spans(M) /\ Lengths(M)[r] > 0
  <2>1. Len(M) \in Nat /\ r \in 1 .. Len(M) /\ r + 1 \in 1 .. Len(M) /\ M[r + 1].segment = M[r].segment
    BY MarksTyped DEF Inner
  <2>2. r \in 1 .. Len(M) - 1
    BY <2>1
  <2>3. r \in Spans(M)
    BY <2>1, <2>2 DEF Spans
  <2>4. QED BY <2>1, <2>3 DEF EvenList
<1>2. PICK d : W = d.windows /\ Delivered(d, M, Len(M))
  BY <1>1, WindowsDelivered
<1>3. W \in Seq(WindowType) /\ \A n \in 1 .. Len(W) : AtRate(M, W[n].units, W[n].ticks)
  BY <1>2 DEF Delivered, WindowGood
<1> HIDE DEF W
<1>4. u \in Nat /\ t \in Nat /\ AtRate(M, u, t)
  BY <1>3, WindowsAtRate
<1> HIDE DEF u, t
<1>5. ASSUME NEW w \in Range(W) PROVE ~Deviates(w, u, t)
  <2>1. PICK n \in 1 .. Len(W) : w = W[n]
    <3>1. DOMAIN W = 1 .. Len(W)
      BY <1>3
    <3>2. QED BY <3>1 DEF Range
  <2>2. w \in WindowType /\ AtRate(M, w.units, w.ticks)
    BY <1>3, <2>1
  <2>3. QED BY <1>1, <1>4, <2>2, NoneDeviates
<1>6. \A q \in points : ~JitterOver(q, PlausibleLimit)
  BY EvenHasNone, StatsAssumption
<1>7. /\ SumOver([i \in DOMAIN W |-> W[i].units], DOMAIN W) = u
      /\ SumOver([i \in DOMAIN W |-> W[i].ticks], DOMAIN W) = t
  BY SumOverIs DEF u, t
<1>8. Len(W) >= 2 /\ Len(W) \in Nat
  BY <1>3 DEF W
<1>9. ~(\E w \in Range(W) : Deviates(w, u, t)) /\ ~(\E q \in points : JitterOver(q, PlausibleLimit))
      /\ ~(Len(W) < 2)
  BY <1>5, <1>6, <1>8
<1>10. Delivery(s, points) =
         IF Len(W) >= 2 /\ \E w \in Range(W) : Deviates(w, u, t) THEN "variable"
         ELSE IF \E q \in points : JitterOver(q, PlausibleLimit) THEN "variable"
         ELSE IF Len(W) < 2 THEN "unknown" ELSE "constant"
  BY <1>7 DEF Delivery, W
<1>11. QED BY <1>9, <1>10

\* A jitter computed from the samples of these PCRs is as it is defined.
LEMMA JitterIsDefined ==
  ASSUME MarksGood(marks, pos), SamplesGood(samples, marks)
  PROVE  JitterAsDefined
<1> DEFINE judged == JitterStatus(samples)
           wanted == {JitterAt(OnTimeline(i - 1), OnTimeline(i), OnTimeline(i + 1)) :
                        i \in {j \in DOMAIN marks : Interior(j)}}
           W == DeliveryWindows(samples)
           points == JitterPoints(samples)
           gaveUp == 10 * (Len(JitterSegments(samples)) - 1) > 3 * Len(samples)
           skipped == Len(samples) < 3 \/ points = {} \/ gaveUp
<1>1. SUFFICES ASSUME marks # <<>>
               PROVE  /\ points = wanted
                      /\ Len(JitterSegments(samples)) = Last(marks).segment
                      /\ EvenDelivery => judged \in {"ok", "skipped"} \/ Len(W) < 2
                      /\ judged = "ok" => \A q \in wanted : ~JitterOver(q, AccuracyLimit)
                      /\ \A w \in Range(W) :
                           \E i, j \in DOMAIN marks :
                             /\ marks[i].segment = marks[j].segment
                             /\ w.units = marks[j].pos - marks[i].pos
                             /\ w.ticks = marks[j].unwrapped - marks[i].unwrapped /\ w.ticks >= Second
  BY DEF JitterAsDefined
<1>2. marks \in Seq(Anchors) /\ Len(marks) \in Nat /\ Len(marks) > 0 /\ DOMAIN marks = 1 .. Len(marks)
  BY <1>1, MarksTyped DEF MarksGood
<1>3. points = {PointAt(marks, i) : i \in Inner(marks)} /\ wanted = {PointAt(marks, i) : i \in Inner(marks)}
      /\ Len(JitterSegments(samples)) = marks[Len(marks)].segment
  BY <1>2, PointsAreJitter, WantedPoints
<1>4. Len(JitterSegments(samples)) = Last(marks).segment
  BY <1>2, <1>3 DEF Last
<1>5. PICK d : W = d.windows /\ Delivered(d, marks, Len(marks))
  BY <1>2, WindowsDelivered
<1>6. W \in Seq(WindowType) /\ Len(W) \in Nat /\ DOMAIN W = 1 .. Len(W)
      /\ \A n \in 1 .. Len(W) : WindowGood(marks, Len(marks), W[n])
  <2>1. W \in Seq(WindowType) /\ \A n \in 1 .. Len(W) : WindowGood(marks, Len(marks), W[n])
    BY <1>5 DEF Delivered
  <2> HIDE DEF W
  <2>2. QED BY <2>1
<1> HIDE DEF W, wanted, points
<1>7. ASSUME NEW w \in Range(W)
      PROVE  \E i, j \in DOMAIN marks :
               /\ marks[i].segment = marks[j].segment
               /\ w.units = marks[j].pos - marks[i].pos
               /\ w.ticks = marks[j].unwrapped - marks[i].unwrapped /\ w.ticks >= Second
  <2>1. PICK n \in 1 .. Len(W) : w = W[n]
    BY <1>6 DEF Range
  <2>2. WindowGood(marks, Len(marks), w)
    BY <1>6, <2>1
  <2>3. QED BY <1>2, <2>2 DEF WindowGood, Bounded
<1>8. judged = IF skipped THEN "skipped"
               ELSE IF Delivery(samples, points) # "constant" THEN "not_assessable"
               ELSE IF \E q \in points : JitterOver(q, DvbLimit) THEN "ng"
               ELSE IF \E q \in points : JitterOver(q, AccuracyLimit) THEN "warning" ELSE "ok"
  BY DEF JitterStatus, points
<1> HIDE DEF judged
<1>9. skipped <=> (Len(samples) < 3 \/ points = {} \/ gaveUp)
  OBVIOUS
<1> HIDE DEF skipped, gaveUp
<1>10. ASSUME judged = "ok" PROVE \A q \in wanted : ~JitterOver(q, AccuracyLimit)
  BY <1>3, <1>8, <1>10
<1>11. ASSUME EvenDelivery, ~(Len(W) < 2) PROVE judged \in {"ok", "skipped"}
  <2>1. CASE skipped
    BY <1>8, <2>1
  <2>2. CASE ~skipped
    <3>1. points # {}
      BY <1>9, <2>2
    <3>2. PICK r \in Inner(marks) : TRUE
      BY <1>3, <3>1
    <3>3. EvenList(marks)
      BY <1>11, WantedPoints
    <3>4. Delivery(samples, points) = "constant"
      <4>1. Len(DeliveryWindows(samples)) >= 2
        BY <1>6, <1>11 DEF W
      <4>2. QED BY <1>3, <3>3, <4>1, EvenIsConstant
    <3>5. \A q \in points : ~JitterOver(q, DvbLimit) /\ ~JitterOver(q, AccuracyLimit)
      BY <1>3, <3>3, EvenHasNone, StatsAssumption
    <3>6. QED BY <1>8, <2>2, <3>4, <3>5
  <2>3. QED BY <2>1, <2>2
<1>12. QED BY <1>3, <1>4, <1>7, <1>10, <1>11

\* At every PCR the bitrate, the series and the jitter are those of the timeline that
\* places the PES packets, for all PIDs, layouts, clocks, limits and numbers of packets.
THEOREM StatisticsStayAsDefined == StatsSpec => []StatisticsAsDefined
<1>1. PcrInit /\ StatsInit => ClockInv /\ StatsInv
  BY StatsInvInit
<1>2. ClockInv /\ StatsInv /\ [StatsNext]_<<pos, pcrVars, statVars>> => ClockInv' /\ StatsInv'
  BY StatsInvNext
<1>3. StatsInv => StatisticsAsDefined
  BY BitrateIsDefined, JitterIsDefined DEF StatsInv, StatisticsAsDefined
<1>4. QED BY <1>1, <1>2, <1>3, PTL DEF StatsSpec
===============================================================================
