------------------------------- MODULE PsiHealth -------------------------------
(***************************************************************************)
(* Availability and repetition of the PAT and of every announced PMT:        *)
(* PSIHealthCheck (internal/analysis/psi_health.go) as psiHealthCollector    *)
(* (tsparser/psi_health.go) feeds it, beside the programAnalyzer that is its *)
(* reference program (PcrClock), whose PCRs it times a second time.          *)
(*                                                                         *)
(* Tables are program numbers, the PAT is table 0.  Offsets are packet       *)
(* numbers, and ticks are chosen so that interpolation divides evenly.       *)
(***************************************************************************)
EXTENDS PcrClock, Sequences, FiniteSets, FiniteSetsExt

CONSTANTS
  Programs,                 \* program numbers
  PmtPids,                  \* PIDs a PAT may give them
  PSIRepetitionLimitTicks,
  ProblemKinds,             \* what is counted of data that cannot be used
  MaxPcrs, MaxTimeBases, MaxIdentities, MaxProblems   \* bounds on a behaviour

\* A comparable PCR interval is at most twice the repetition limit (1000 ms in pcr.go,
\* 500 ms in psi_health.go).  Of the intervals that lie within one, advance records the
\* longest alone: no second one can be late as well.
ASSUME RepetitionAssumption ==
  /\ PSIRepetitionLimitTicks \in Nat /\ PCRJumpLimit <= 2 * PSIRepetitionLimitTicks
  /\ IsFiniteSet(Programs)
  /\ "incomplete" \in ProblemKinds
  /\ ProblemKinds \subseteq {"crc", "malformed", "incomplete", "wrong_table_id", "unusable"}

PAT == 0
Tables == {PAT} \cup Programs

VARIABLES
  health,    \* psiHealthCollector
  healthPcrs, \* the analyzer's PCRs as anchors, for the properties
  insts,     \* every complete table of the stream: <<table, offset>>
  lives      \* every identity: from the announcement to the end, 0 if it has none

healthVars == <<pos, pcrVars, health, healthPcrs, insts, lives>>

-------------------------------------------------------------------------------
(* A table: psiTableState.                                                   *)

NoRef     == [has |-> FALSE, ticks |-> 0, instance |-> FALSE]
NoPending == [count |-> 0, first |-> 0, last |-> 0, maxGap |-> 0]
NoEvidence == [instances |-> 0, intervals |-> 0, late |-> 0]

NewTable ==
  [pid |-> 0, active |-> FALSE, instances |-> 0, problems |-> [k \in ProblemKinds |-> 0],
   awaitingStart |-> FALSE, ref |-> NoRef, pending |-> NoPending,
   intervals |-> 0, max |-> 0, late |-> 0,
   identity |-> NoEvidence, missingSeen |-> FALSE, lateSeen |-> FALSE]

\* record: an interval, complete or open.
Record(t, ticks, complete) ==
  LET one  == IF complete THEN 1 ELSE 0
      late == IF ticks > PSIRepetitionLimitTicks THEN 1 ELSE 0
  IN [t EXCEPT !.intervals = @ + one, !.identity.intervals = @ + one,
               !.max = Max({@, ticks}), !.late = @ + late, !.identity.late = @ + late]

\* tail: the open interval to the last PCR of the segment, if there is one.
OpenTail(c, t) ==
  IF c.running /\ t.ref.has /\ c.elapsed > t.ref.ticks THEN {c.elapsed - t.ref.ticks} ELSE {}

WithTail(c, t) == FoldSet(LAMBDA ticks, u : Record(u, ticks, FALSE), t, OpenTail(c, t))

\* Mutant: the time after the last instance of a segment is not counted.
Close_NoTail(c, t) == [t EXCEPT !.ref = NoRef, !.pending = NoPending, !.awaitingStart = FALSE]

Close(c, t) ==
  [WithTail(c, t) EXCEPT !.ref = NoRef, !.pending = NoPending, !.awaitingStart = FALSE]

MissingNow(t) == t.identity.late > 0 /\ t.identity.instances = 0
LateNow(t)    == t.identity.late > 0 /\ t.identity.instances > 0

\* fold: the identity ends, its verdict is kept.
Fold(t) ==
  [t EXCEPT !.missingSeen = @ \/ MissingNow(t), !.lateSeen = @ \/ LateNow(t),
            !.identity = NoEvidence]

-------------------------------------------------------------------------------
(* PSIHealthCheck: the clock [steps, running, offset, elapsed, segments,     *)
(* measured] and the tables.                                                 *)

NewHealthCheck ==
  [steps |-> [valid |-> FALSE, pid |-> 0, value |-> 0], running |-> FALSE, offset |-> 0,
   elapsed |-> 0, segments |-> 0, measured |-> FALSE,
   tables |-> [n \in {PAT} |-> [NewTable EXCEPT !.active = TRUE, !.awaitingStart = TRUE]]]

TableOf(c, n) == IF n \in DOMAIN c.tables THEN c.tables[n] ELSE NewTable

Active(c, n) == TableOf(c, n).active

SetTable(c, n, t) ==
  [c EXCEPT !.tables = [m \in DOMAIN @ \cup {n} |-> IF m = n THEN t ELSE @[m]]]

\* Mutant: a PMT that moves keeps the evidence of its old PID.
ObserveAnnounced_NoFold(c, n, pid) ==
  LET t == TableOf(c, n) IN
  IF t.active /\ t.pid = pid THEN c
  ELSE SetTable(c, n, [(IF t.active THEN Close(c, t) ELSE t) EXCEPT
         !.pid = pid, !.active = TRUE, !.awaitingStart = TRUE, !.ref = NoRef, !.pending = NoPending])

ObserveAnnounced(c, n, pid) ==
  LET t == TableOf(c, n) IN
  IF t.active /\ t.pid = pid THEN c
  ELSE SetTable(c, n, [Fold(IF t.active THEN Close(c, t) ELSE t) EXCEPT
         !.pid = pid, !.active = TRUE, !.awaitingStart = TRUE, !.ref = NoRef, !.pending = NoPending])

ObserveWithdrawn(c, n) ==
  IF ~Active(c, n) THEN c ELSE SetTable(c, n, [Close(c, c.tables[n]) EXCEPT !.active = FALSE])

\* Mutant: the last interval within a PCR interval is kept, not the longest.
AddPending_Last(p, at) ==
  [count |-> p.count + 1, first |-> IF p.count = 0 THEN at ELSE p.first, last |-> at,
   maxGap |-> IF p.count = 0 THEN 0 ELSE at - p.last]

AddPending(p, at) ==
  [count |-> p.count + 1, first |-> IF p.count = 0 THEN at ELSE p.first, last |-> at,
   maxGap |-> IF p.count = 0 THEN 0 ELSE Max({p.maxGap, at - p.last})]

ObserveInstance(c, n, pid, at) ==
  IF ~Active(c, n) THEN c
  ELSE SetTable(c, n, [c.tables[n] EXCEPT
         !.pid = pid, !.instances = @ + 1, !.identity.instances = @ + 1,
         !.pending = IF c.running THEN AddPending(@, at) ELSE @])

ObserveProblem(c, n, kind) ==
  IF ~Active(c, n) THEN c ELSE SetTable(c, n, [c.tables[n] EXCEPT !.problems[kind] = @ + 1])

\* advance: the new PCR of the segment times the instances since the last one.
AdvanceTable(c, at, delta, t) ==
  LET bytes   == at - c.offset
      time(o) == c.elapsed + (delta * (o - c.offset)) \div bytes
      p       == t.pending
      started == IF t.awaitingStart
                   THEN [t EXCEPT !.awaitingStart = FALSE,
                           !.ref = [has |-> TRUE, ticks |-> c.elapsed + delta, instance |-> FALSE]]
                   ELSE t
      opened  == IF started.ref.has /\ time(p.first) >= started.ref.ticks
                   THEN Record(started, time(p.first) - started.ref.ticks, started.ref.instance)
                   ELSE started
      all     == IF p.count > 1
                   THEN Record([opened EXCEPT !.intervals = @ + p.count - 2,
                                              !.identity.intervals = @ + p.count - 2],
                               (delta * p.maxGap) \div bytes, TRUE)
                   ELSE opened
  IN IF p.count = 0 THEN started
     ELSE [all EXCEPT !.ref = [has |-> TRUE, ticks |-> time(p.last), instance |-> TRUE],
                      !.pending = NoPending]

\* A PCR that is not comparable closes every open interval and starts a segment.
StartSegment(c, t) ==
  [(IF c.running THEN Close(c, t) ELSE t) EXCEPT !.awaitingStart = FALSE, !.pending = NoPending,
     !.ref = [has |-> TRUE, ticks |-> 0, instance |-> FALSE]]

ObserveHealthPcr(c, pcr, at) ==
  LET comparable == Comparable(StepKind(c.steps, pcr))
      delta      == StepTicks(c.steps, pcr)
      each(t)    == IF ~t.active THEN t
                    ELSE IF comparable THEN AdvanceTable(c, at, delta, t) ELSE StartSegment(c, t)
  IN [c EXCEPT !.steps = [valid |-> TRUE, pid |-> pcr.pid, value |-> pcr.value],
        !.tables = [n \in DOMAIN @ |-> each(@[n])],
        !.running = TRUE, !.offset = at, !.measured = @ \/ comparable,
        !.elapsed = IF comparable THEN @ + delta ELSE 0,
        !.segments = IF comparable THEN @ ELSE @ + 1]

\* The result of a table: the open interval ends at the last PCR.
Final(c, t) == IF t.active THEN WithTail(c, t) ELSE t

Repetition(c, t) ==
  IF ~c.measured THEN "skipped"
  ELSE IF Final(c, t).late > 0 THEN "ng"
  ELSE IF Final(c, t).identity.intervals > 0 THEN "ok"
  ELSE "insufficient_data"

Missing(c, t) == t.missingSeen \/ MissingNow(Final(c, t))
Late(c, t)    == t.lateSeen \/ LateNow(Final(c, t))

-------------------------------------------------------------------------------
(* The collector.  collecting is the set of tables whose assembler holds     *)
(* sections of a table that is not complete.                                 *)

NewCollector ==
  [check |-> NewHealthCheck, programs |-> <<>>, collecting |-> {},
   lastPcrPid |-> 0, pcrPidChanged |-> FALSE, discontinuityPending |-> FALSE, finished |-> FALSE]

\* observe, before its PCR: a change of the reference PCR_PID since the last packet.
FollowPcrPid(h) ==
  IF pcrPid = h.lastPcrPid THEN h
  ELSE [h EXCEPT !.lastPcrPid = pcrPid, !.pcrPidChanged = TRUE, !.discontinuityPending = FALSE]

\* Mutant: discontinuity_indicator only counts on the packet with the PCR.
HealthPcr_NotPending(h, value, indicated, at) ==
  [h EXCEPT !.pcrPidChanged = FALSE, !.discontinuityPending = FALSE,
     !.check = ObserveHealthPcr(@, [pid |-> pcrPid, value |-> value,
                 discontinuity |-> indicated, pidChanged |-> h.pcrPidChanged], at)]

HealthPcr(h, value, indicated, at) ==
  [h EXCEPT !.pcrPidChanged = FALSE, !.discontinuityPending = FALSE,
     !.check = ObserveHealthPcr(@, [pid |-> pcrPid, value |-> value,
                 discontinuity |-> indicated \/ h.discontinuityPending,
                 pidChanged |-> h.pcrPidChanged], at)]

ProgramsOn(h, pid) == {n \in DOMAIN h.programs : h.programs[n] = pid}

\* Observations of several tables, in any order.
ObserveProblems(c, tables, kind) == FoldSet(LAMBDA n, d : ObserveProblem(d, n, kind), c, tables)

WithdrawAll(c, gone) == FoldSet(LAMBDA n, d : ObserveWithdrawn(d, n), c, gone)

AnnounceAll(c, fresh, programs) ==
  FoldSet(LAMBDA n, d : ObserveAnnounced(d, n, programs[n]), c, fresh)

CountProblem(h, tables, kind) == [h EXCEPT !.check = ObserveProblems(@, tables, kind)]

\* assemble: a valid section that completes its table, or does not yet.
Assemble(h, n, pid, at, completes) ==
  IF completes THEN [h EXCEPT !.collecting = @ \ {n}, !.check = ObserveInstance(@, n, pid, at)]
               ELSE [h EXCEPT !.collecting = @ \cup {n}]

\* What a section or a packet on a PID is counted for: a faulty section that
\* names a program on the PID for that one, and otherwise for all of them.
Owners(h, pid, number) ==
  IF number \in ProgramsOn(h, pid) THEN {number} ELSE ProgramsOn(h, pid)

\* patApplied: programs withdrawn, moved and added.  programs maps each listed
\* program to its PMT PID.
PatApplied(h, programs) ==
  LET gone  == DOMAIN h.programs \ DOMAIN programs
      fresh == {n \in DOMAIN programs : n \notin DOMAIN h.programs \/ h.programs[n] # programs[n]}
  IN [h EXCEPT !.programs = programs, !.collecting = @ \ (gone \cup fresh),
        !.check = AnnounceAll(WithdrawAll(h.check, gone), fresh, programs)]

-------------------------------------------------------------------------------
(* The scan.                                                                 *)

\* Bounds the time bases of a behaviour.
MayBreak == truth.bases < MaxTimeBases /\ ~truth.marked

\* Bounds the problems and the tables left incomplete.
MayFail ==
  LET counted(n) == MapThenSumSet(LAMBDA k : health.check.tables[n].problems[k], ProblemKinds)
  IN MapThenSumSet(counted, DOMAIN health.check.tables) + Cardinality(health.collecting) < MaxProblems

PatChoices == UNION {[S -> PmtPids] : S \in SUBSET Programs}

\* The identities after a PAT: those withdrawn or moved end at this packet.
LivesAfter(programs, at) ==
  LET over(l) == l.table # PAT /\ l.to = 0 /\
                   (l.table \notin DOMAIN programs \/ programs[l.table] # l.pid)
      ended   == {IF over(l) THEN [l EXCEPT !.to = at] ELSE l : l \in lives}
  IN ended \cup {[table |-> n, pid |-> programs[n], from |-> at, to |-> 0] :
                   n \in {m \in DOMAIN programs : ~\E l \in ended : l.table = m /\ l.to = 0}}

\* patApplied follows from the PAT the tracker applied after the last packet;
\* the first PAT is announced by the collector itself.
ApplyPat(programs) ==
  /\ ~health.finished
  /\ pos > 0 /\ Cardinality(lives) < MaxIdentities
  /\ health' = PatApplied(health, programs)
  /\ lives' = LivesAfter(programs, pos)
  /\ UNCHANGED <<pos, pcrVars, healthPcrs, insts>>

\* A PMT is applied after a packet, at most one of the reference program: the
\* collector has seen the PCR_PID before it moves again.
MovePcrPid(pid) ==
  /\ ~health.finished /\ pid # pcrPid /\ health.lastPcrPid = pcrPid /\ MayBreak
  /\ SetPcrPid(pid)
  /\ UNCHANGED <<pos, health, healthPcrs, insts, lives>>

PcrPacket(move, indicated) ==
  /\ Len(healthPcrs) < MaxPcrs
  /\ indicated \/ move < 0 => MayBreak
  /\ ObservePcr(move, indicated, pos + 1)
  /\ health' = HealthPcr(FollowPcrPid(health), prevPcr'.value, indicated, pos + 1)
  /\ healthPcrs' = Append(healthPcrs, clock')
  /\ UNCHANGED <<insts, lives>>

IndicatorPacket ==
  /\ MayBreak
  /\ ObserveIndicator
  /\ health' = [FollowPcrPid(health) EXCEPT !.discontinuityPending = TRUE]
  /\ UNCHANGED <<healthPcrs, insts, lives>>

\* A packet that ends a section of a table announced on its PID.
SectionPacket(n, completes) ==
  LET pid == IF n = PAT THEN 0 ELSE health.programs[n] IN
  /\ n = PAT \/ n \in DOMAIN health.programs
  /\ completes \/ (n \notin health.collecting /\ MayFail)
  /\ health' = Assemble(FollowPcrPid(health), n, pid, pos + 1, completes)
  /\ insts' = IF completes THEN insts \cup {<<n, pos + 1>>} ELSE insts
  /\ UNCHANGED <<pcrVars, healthPcrs, lives>>

\* A packet whose data cannot be used.  number is the program a faulty section
\* names, if it can be read that far.
ProblemPacket(pid, number, kind) ==
  /\ MayFail
  /\ pid = PAT \/ ProgramsOn(health, pid) # {}
  /\ kind = "wrong_table_id" => pid = PAT
  /\ health' = CountProblem(FollowPcrPid(health), IF pid = PAT THEN {PAT}
                 ELSE IF kind \in {"crc", "malformed"} THEN Owners(health, pid, number)
                 ELSE ProgramsOn(health, pid), kind)
  /\ UNCHANGED <<pcrVars, healthPcrs, insts, lives>>

\* A packet of any other PID.
OtherPacket ==
  /\ health' = FollowPcrPid(health)
  /\ UNCHANGED <<pcrVars, healthPcrs, insts, lives>>

HealthPacket ==
  /\ ~health.finished
  /\ pos < MaxPackets
  /\ pos' = pos + 1
  /\ \/ \E move \in Moves, indicated \in Indicators : PcrPacket(move, indicated)
     \/ IndicatorPacket
     \/ \E n \in Tables, completes \in BOOLEAN : SectionPacket(n, completes)
     \/ \E pid \in {PAT} \cup PmtPids, number \in Tables, kind \in ProblemKinds :
          ProblemPacket(pid, number, kind)
     \/ OtherPacket

\* result: a table never completed while sections of it were collected.
FinishHealth ==
  LET never == {n \in health.collecting : TableOf(health.check, n).instances = 0} IN
  /\ ~health.finished
  /\ health' = [CountProblem(health, never, "incomplete") EXCEPT !.finished = TRUE]
  /\ UNCHANGED <<pos, pcrVars, healthPcrs, insts, lives>>

HealthInit ==
  /\ PcrInit
  /\ health = NewCollector
  /\ healthPcrs = <<>>
  /\ insts = {}
  /\ lives = {[table |-> PAT, pid |-> 0, from |-> 0, to |-> 0]}

HealthNext ==
  \/ HealthPacket
  \/ \E programs \in PatChoices : ApplyPat(programs)
  \/ \E pid \in PcrPids : MovePcrPid(pid)
  \/ FinishHealth

HealthSpec == HealthInit /\ [][HealthNext]_healthVars

-------------------------------------------------------------------------------
(* The stream seen at once.                                                  *)

During(life, at) == at > life.from /\ (life.to = 0 \/ at <= life.to)

SameSegment(i) == i + 1 \in DOMAIN healthPcrs /\ healthPcrs[i].segment = healthPcrs[i + 1].segment

InstancesOf(life) == {at \in 1 .. pos : <<life.table, at>> \in insts /\ During(life, at)}

\* The PCRs of a segment that come while an identity lives.
PcrsIn(life, segment) ==
  {i \in DOMAIN healthPcrs : healthPcrs[i].segment = segment /\ During(life, healthPcrs[i].pos)}

\* The times of its instances that lie before one of them and after another PCR
\* of the segment.
TimesIn(life, segment) ==
  LET around(at) == {i \in DOMAIN healthPcrs : /\ SameSegment(i) /\ i + 1 \in PcrsIn(life, segment)
                                               /\ healthPcrs[i].pos < at /\ at < healthPcrs[i + 1].pos}
  IN UNION {{ArrivalAt(healthPcrs[i], healthPcrs[i + 1], at).ticks : i \in around(at)} :
              at \in InstancesOf(life)}

\* The intervals between its instances in a segment, and the open ones: from
\* the first of those PCRs and to the last.
CompleteIn(life, segment) ==
  LET times == TimesIn(life, segment) IN
  {i \in times \X times : i[1] < i[2] /\ ~\E u \in times : i[1] < u /\ u < i[2]}

OpenIn(life, segment) ==
  LET seen  == {healthPcrs[i].unwrapped : i \in PcrsIn(life, segment)}
      times == TimesIn(life, segment)
  IN IF seen = {} THEN {}
     ELSE IF times = {} THEN {<<Min(seen), Max(seen)>>}
     ELSE {i \in {<<Min(seen), Min(times)>>, <<Max(times), Max(seen)>>} : i[1] <= i[2]}

Segments == {healthPcrs[i].segment : i \in DOMAIN healthPcrs}

\* How many intervals of an identity are complete, and how many of all are too
\* long.
CompleteOf(life) == MapThenSumSet(LAMBDA g : Cardinality(CompleteIn(life, g)), Segments)

LateOf(life) ==
  MapThenSumSet(LAMBDA g : Cardinality({i \in CompleteIn(life, g) \cup OpenIn(life, g) :
                                          i[2] - i[1] > PSIRepetitionLimitTicks}), Segments)

LivesOf(n) == {l \in lives : l.table = n}

Latest(n) == CHOOSE l \in LivesOf(n) : \A m \in LivesOf(n) : m.from < l.from \/ l.to = 0 \/ m = l

\* The intervals the check reports of a table are those of its identities, one
\* PCR segment and one identity at a time: none is counted twice, none lost when
\* a PMT is announced, moved or withdrawn between two PCRs, and none crosses a
\* segment or an identity.  The status is about the latest identity.
RepetitionAsDefined ==
  health.finished => \A n \in DOMAIN health.check.tables :
    LET t == Final(health.check, health.check.tables[n]) IN
    /\ t.intervals = MapThenSumSet(CompleteOf, LivesOf(n))
    /\ t.late = MapThenSumSet(LateOf, LivesOf(n))
    /\ t.max = Max({0} \cup UNION {{i[2] - i[1] : i \in CompleteIn(x[1], x[2]) \cup OpenIn(x[1], x[2])} :
                                      x \in LivesOf(n) \X Segments})
    /\ Repetition(health.check, health.check.tables[n]) =
         IF ~\E i \in DOMAIN healthPcrs : SameSegment(i) THEN "skipped"
         ELSE IF \E l \in LivesOf(n) : LateOf(l) > 0 THEN "ng"
         ELSE IF CompleteOf(Latest(n)) > 0 THEN "ok" ELSE "insufficient_data"

\* A table is missing when one of its identities had no instance for too long,
\* and late when one that had an instance was without one for too long: the
\* evidence of a PMT that moved or was withdrawn is neither lost nor mixed with
\* that of its successor.
ReasonsAsDefined ==
  health.finished => \A n \in DOMAIN health.check.tables :
    LET t == health.check.tables[n] IN
    /\ Missing(health.check, t) =
         \E l \in LivesOf(n) : LateOf(l) > 0 /\ InstancesOf(l) = {}
    /\ Late(health.check, t) =
         \E l \in LivesOf(n) : LateOf(l) > 0 /\ InstancesOf(l) # {}

\* What is reported of every table is what its identities gave, and no more.
TablesAsDefined == RepetitionAsDefined /\ ReasonsAsDefined

\* The collector classifies the PCRs on its own, from the PCR_PID it reads
\* before each packet: its segments are those of the program's analyzer.
SegmentsAgree == health.check.segments = clock.segment
===============================================================================
