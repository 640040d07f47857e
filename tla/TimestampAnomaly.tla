---------------------------- MODULE TimestampAnomaly ----------------------------
(***************************************************************************)
(* TimestampAnomaly of tsparser/timestamp_anomaly.go, with the calls that   *)
(* programAnalyzer makes of it (tsparser/mpeg_packet.go): the decode         *)
(* timestamps of each PID, which the header carries modulo StampWrap.        *)
(*                                                                         *)
(* sent keeps the true time of every timestamp, which the code never sees.   *)
(* The first message and the count of each kind are functions of events.     *)
(***************************************************************************)
EXTENDS Integers, Sequences, FiniteSetsExt

CONSTANTS
  StampPids,
  StampWrap,       \* the period of the PTS and the DTS
  GapRatio, GapMinTicks,
  StampStart,      \* the true time of the first timestamp of a PID
  StampSteps,      \* how far the true time may move between two timestamps
  MaxStamps        \* bound on the calls of a behaviour

\* The period is even (1 << 33), and a step of half of it or more cannot be told from
\* one in the other direction.
ASSUME StampAssumption ==
  /\ StampWrap \in Nat /\ StampWrap > 2 /\ StampWrap % 2 = 0
  /\ GapRatio \in Nat /\ GapMinTicks \in Nat
  /\ StampStart \in Nat
  /\ StampSteps \subseteq Int
  /\ \A s \in StampSteps : 2 * s < StampWrap /\ -2 * s < StampWrap

VARIABLES
  states,      \* TimestampAnomaly.states, of the PIDs that have one
  events,      \* TimestampAnomaly.events
  listed,      \* the PIDs of the analyzer's layout
  sent         \* what happened on each PID, in order, for the properties

anomalyVars == <<states, events, listed, sent>>

Half == StampWrap \div 2

\* signedDelta.
SignedDelta(a, b) ==
  LET d == a - b IN IF d >= Half THEN d - StampWrap ELSE IF d < -Half THEN d + StampWrap ELSE d

\* markUntimed.
MarkUntimed(p) == IF p \in DOMAIN states THEN [states EXCEPT ![p].untimed = TRUE] ELSE states

\* A step that is judged as a jump: longer than GapRatio frame intervals, and by more
\* than GapMinTicks longer than one.  A step of exactly either is none.
IsGap(st, step) ==
  /\ ~st.untimed /\ st.minStep > 0
  /\ step > GapRatio * st.minStep /\ step - st.minStep > GapMinTicks

\* Mutant: a step across missing timestamps may become the smallest one.
Smaller_AcrossLoss(st, step) == step > 0 /\ (st.minStep = 0 \/ step < st.minStep)

\* A step that becomes the smallest one.
Smaller(st, step) == ~st.untimed /\ step > 0 /\ (st.minStep = 0 \/ step < st.minStep)

StepEvents(st, decode) ==
  LET raw == decode - st.last IN
  IF raw <= -Half THEN {"wraparound"}
  ELSE IF raw < 0 \/ raw >= Half THEN {"backward"}
  ELSE IF IsGap(st, raw) THEN {"gap"} ELSE {}

AfterStep(st, decode) ==
  LET raw == decode - st.last IN
  [last |-> decode, untimed |-> FALSE,
   minStep |-> IF raw >= 0 /\ raw < Half /\ Smaller(st, raw) THEN raw ELSE st.minStep]

Found(p, at, kinds) ==
  IF kinds = {} THEN <<>> ELSE <<[pid |-> p, pos |-> at, kind |-> CHOOSE k \in kinds : TRUE]>>

\* Check: DTS against PTS first, then the decode timestamp against the last one.
Check(p, pts, dts, hasDTS, at) ==
  LET decode == IF hasDTS THEN dts ELSE pts
      late   == IF hasDTS /\ SignedDelta(pts, dts) < 0 THEN {"dts_after_pts"} ELSE {}
      known  == p \in DOMAIN states
      step   == IF known THEN StepEvents(states[p], decode) ELSE {}
  IN /\ events' = events \o Found(p, at, late) \o Found(p, at, step)
     /\ states' = [q \in DOMAIN states \cup {p} |->
                     IF q # p THEN states[q]
                     ELSE IF known THEN AfterStep(states[p], decode)
                     ELSE [last |-> decode, untimed |-> FALSE, minStep |-> 0]]

-------------------------------------------------------------------------------
Position == Len(sent) + 1

Sent(entry) == sent' = Append(sent, entry)

IsStamp(n) == sent[n].what = "stamp"

\* The timestamps of p since its state was last dropped.
StampsOf(p) ==
  {n \in DOMAIN sent : /\ IsStamp(n) /\ sent[n].pid = p
                       /\ \A k \in n + 1 .. Len(sent) : sent[k].what = "layout" => p \notin sent[k].pids}

\* completePes of a PES packet with a valid header and a timestamp; ahead is how
\* far its PTS is ahead of its DTS.
StampedPes(p, step, ahead, hasDTS) ==
  LET before == {sent[n].time : n \in {m \in StampsOf(p) : \A k \in StampsOf(p) : k <= m}}
      time   == IF before = {} THEN StampStart ELSE Max(before) + step
  IN /\ p \in listed /\ time >= 0
     /\ before = {} => step = 0
     /\ Check(p, (time + ahead) % StampWrap, time % StampWrap, hasDTS, Position)
     /\ Sent([what |-> "stamp", pid |-> p, late |-> hasDTS /\ ahead < 0,
              time |-> IF hasDTS THEN time ELSE time + ahead])
     /\ UNCHANGED listed

\* A PES packet without a timestamp, a bad or incomplete header, untrusted
\* payload or a continuity error.
UntimedPes(p) ==
  /\ p \in listed
  /\ states' = MarkUntimed(p)
  /\ Sent([what |-> "untimed", pid |-> p])
  /\ UNCHANGED <<events, listed>>

\* setLayout: the PIDs added, removed or retyped lose their state.
DropStates(now, retyped) ==
  LET changed == (listed \ now) \cup (now \ listed) \cup retyped IN
  /\ changed # {}
  /\ retyped \subseteq listed \cap now
  /\ listed' = now
  /\ states' = [p \in DOMAIN states \ changed |-> states[p]]
  /\ Sent([what |-> "layout", pids |-> changed])
  /\ UNCHANGED events

AnomalyInit == states = [p \in {} |-> 0] /\ events = <<>> /\ listed = StampPids /\ sent = <<>>

AnomalyNext ==
  /\ Len(sent) < MaxStamps
  /\ \/ \E p \in StampPids :
          \/ \E step \in StampSteps \cup {0} : StampedPes(p, step, 0, FALSE)
          \/ \E step \in StampSteps \cup {0}, ahead \in {1, -1} : StampedPes(p, step, ahead, TRUE)
          \/ UntimedPes(p)
     \/ \E now, retyped \in SUBSET StampPids : DropStates(now, retyped)

AnomalySpec == AnomalyInit /\ [][AnomalyNext]_anomalyVars

-------------------------------------------------------------------------------
(* The definition, over the true times.                                      *)

\* No change of layout dropped the state of p between two of its timestamps.
SameRun(p, i, j) == \A k \in i + 1 .. j - 1 : sent[k].what = "layout" => p \notin sent[k].pids

\* Consecutive timestamps of p.
StepsOf(p) ==
  LET all == {n \in DOMAIN sent : IsStamp(n) /\ sent[n].pid = p} IN
  {s \in all \X all : /\ s[1] < s[2] /\ SameRun(p, s[1], s[2])
                      /\ ~\E k \in all : s[1] < k /\ k < s[2]}

Moved(s) == sent[s[2]].time - sent[s[1]].time

Wraps(s) == sent[s[2]].time \div StampWrap > sent[s[1]].time \div StampWrap

Timed(p, s) == \A k \in s[1] + 1 .. s[2] - 1 : sent[k].what = "untimed" => sent[k].pid # p

\* A step forward that spans no missing timestamp and no wraparound.
Whole(p, s) == Moved(s) >= 0 /\ ~Wraps(s) /\ Timed(p, s)

\* The frame interval known before a step: the smallest whole step of its run.
FrameInterval(p, s) ==
  LET earlier == {Moved(t) : t \in {u \in StepsOf(p) : /\ u[2] <= s[1] /\ SameRun(p, u[1], s[2])
                                                        /\ Whole(p, u) /\ Moved(u) > 0}}
  IN IF earlier = {} THEN 0 ELSE Min(earlier)

\* A jump forward, with both limits still allowed, as the code has them.  The comments on
\* tsGapRatio ("at least") and tsGapMinTicks ("below") name them the other way.
IsJump(p, s) ==
  LET frame == FrameInterval(p, s) IN
  Whole(p, s) /\ frame > 0 /\ Moved(s) > GapRatio * frame /\ Moved(s) - frame > GapMinTicks

Defined(p, kind) ==
  CASE kind = "backward"      -> {s[2] : s \in {t \in StepsOf(p) : Moved(t) < 0}}
    [] kind = "wraparound"    -> {s[2] : s \in {t \in StepsOf(p) : Moved(t) > 0 /\ Wraps(t)}}
    [] kind = "gap"           -> {s[2] : s \in {t \in StepsOf(p) : IsJump(p, t)}}
    [] kind = "dts_after_pts" -> {n \in DOMAIN sent : IsStamp(n) /\ sent[n].pid = p /\ sent[n].late}

\* Every backward step, wraparound, jump and late DTS of the true times is found
\* once, and nothing else is: whichever counter wrapped, whatever was lost in
\* between, and whenever the PID was removed, added or retyped.  A jump is over both
\* limits: a step of exactly GapRatio frame intervals, or of exactly GapMinTicks more
\* than one, is not found (IsJump).
AnomaliesAsDefined ==
  /\ \A p \in StampPids, kind \in {"backward", "wraparound", "gap", "dts_after_pts"} :
       {events[i].pos : i \in {k \in DOMAIN events : events[k].pid = p /\ events[k].kind = kind}}
         = Defined(p, kind)
  /\ \A i, j \in DOMAIN events :
       i < j => events[i].pos < events[j].pos \/ (events[i].pos = events[j].pos /\ events[i].kind # events[j].kind)
===============================================================================
