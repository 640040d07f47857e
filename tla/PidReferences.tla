----------------------------- MODULE PidReferences -----------------------------
(***************************************************************************)
(* PIDReferenceCheck of internal/analysis/pid_references.go, as the scan     *)
(* feeds it (pidReferenceSummary of tsparser/pid_references.go): which of    *)
(* the PIDs that the applicable PAT and PMTs reference are absent or silent, *)
(* and which PIDs carry packets that no layout references.                   *)
(*                                                                         *)
(* The check is one record.  history holds every packet of the scan with    *)
(* what came with it, and is only read by the properties: they judge the     *)
(* whole stream at once, as the comment at the head of the source file does. *)
(***************************************************************************)
EXTENDS PacketGaps, FiniteSetsExt, SequencesExt

CONSTANTS
  Pids,              \* the PIDs whose packets are observed
  Reserved,          \* those of them that are never unreferenced
  NullPid,
  PcrPid,            \* the PID with the PCRs of the reference program
  ReferenceLayouts,  \* the layouts the PAT and the PMTs may form
  Steps,             \* times between comparable PCRs
  PIDSilenceLimitMs, UnreferencedGraceMs, MaxClosingRuns,
  MaxLead, MaxScanned, MaxScanPcrs, MaxLayoutChanges   \* bounds on a behaviour

VARIABLES check, history, phase

referenceVars == <<check, history, phase>>

-------------------------------------------------------------------------------
(* Layouts.                                                                  *)

RowKey(program, role, pid, type) == [program |-> program, role |-> role, pid |-> pid, type |-> type]

\* The references of a program, whose PMT may not be followed yet.
ProgramRows(p) ==
  {RowKey(p.number, "pmt", p.pmt, "none")}
  \cup {RowKey(p.number, "pcr", pid, "none") : pid \in IF p.known THEN {p.pcr} \ {0} ELSE {}}
  \cup {RowKey(p.number, "elementary_stream", s.pid, s.type) : s \in IF p.known THEN p.streams ELSE {}}

Wanted(layout) == {key \in UNION {ProgramRows(p) : p \in layout.programs} : key.pid # NullPid}

ReferencedPids(layout) ==
  {key.pid : key \in Wanted(layout)}
  \cup UNION {p.ca : p \in {q \in layout.programs : q.known}}
  \cup ({layout.network} \ {0})

Complete(layout) == \A p \in layout.programs : p.known

-------------------------------------------------------------------------------
(* Rows: a reference and its silences.                                       *)

Watch(row, now) ==
  [row EXCEPT !.active = TRUE, !.since = now, !.queued = TRUE,
              !.from = IF @ = 0 THEN now.index ELSE @]

NewRow(now) ==
  [active |-> FALSE, since |-> now, silence |-> NoneLonger, packets |-> 0,
   first |-> 0, last |-> 0, from |-> 0, until |-> 0, queued |-> FALSE]

RowPacket(row, now) ==
  [row EXCEPT !.silence = Offer(@, [start |-> row.since, end |-> now]),
              !.first = IF row.packets = 0 THEN now.index ELSE @,
              !.packets = @ + 1, !.last = now.index, !.since = now, !.queued = TRUE]

Unwatch(row, now) ==
  [row EXCEPT !.silence = Offer(@, [start |-> row.since, end |-> now]),
              !.active = FALSE, !.until = now.index, !.queued = TRUE]

SettleRow(clock, pcr, row) ==
  IF ~row.queued THEN row
  ELSE [row EXCEPT !.queued = FALSE, !.since = Resolve(clock, pcr, @),
                   !.silence = SettleLongest(clock, pcr, @)]

Judged(key) == key.role # "elementary_stream" \/ key.type \in {"video", "audio"}

-------------------------------------------------------------------------------
(* Unreferenced runs of a PID.                                               *)

NoTotals == [runs |-> 0, packets |-> 0, first |-> 0, last |-> 0, longest |-> 0]

NewUnref(now) ==
  [open |-> FALSE, queued |-> FALSE, closing |-> <<>>, found |-> NoTotals, undetermined |-> NoTotals,
   run |-> [start |-> now, last |-> now, end |-> now, packets |-> 0, before |-> FALSE, by |-> FALSE]]

UnrefPacket(u, now, before) ==
  [u EXCEPT !.open = TRUE, !.queued = TRUE,
     !.run = IF u.open THEN [@ EXCEPT !.last = now, !.packets = @ + 1]
             ELSE [start |-> now, last |-> now, end |-> now, packets |-> 1,
                   before |-> before, by |-> FALSE]]

CloseRun(u, now, byReference) ==
  [u EXCEPT !.open = FALSE, !.queued = TRUE,
     !.closing = IF Len(@) < MaxClosingRuns
                   THEN Append(@, [u.run EXCEPT !.end = now, !.by = byReference]) ELSE @]

AddRun(totals, run, ms) ==
  [runs |-> totals.runs + 1, packets |-> totals.packets + run.packets,
   first |-> IF totals.runs = 0 THEN run.start.index ELSE totals.first,
   last |-> Max({totals.last, run.last.index}), longest |-> Max({totals.longest, ms})]

\* Mutant: a removed stream is judged like one never referenced.
JudgeRun_AllAlike(u, run) ==
  LET duration == run.end.ms - run.start.ms
  IN IF duration > UnreferencedGraceMs THEN [u EXCEPT !.found = AddRun(@, run, duration)]
     ELSE IF ~run.by THEN [u EXCEPT !.undetermined = AddRun(@, run, duration)]
     ELSE u

JudgeRun(u, run) ==
  LET untilEnd == run.end.ms - run.start.ms
      duration == IF run.before THEN run.last.ms - run.start.ms ELSE untilEnd
  IN IF duration > UnreferencedGraceMs THEN [u EXCEPT !.found = AddRun(@, run, duration)]
     ELSE IF ~run.by /\ untilEnd <= UnreferencedGraceMs
       THEN [u EXCEPT !.undetermined = AddRun(@, run, duration)]
     ELSE u

ResolveRun(clock, pcr, run) ==
  [run EXCEPT !.start = Resolve(clock, pcr, @), !.last = Resolve(clock, pcr, @),
              !.end = Resolve(clock, pcr, @)]

SettleUnref(clock, pcr, u) ==
  LET judge(v, run) == IF run.start.resolved /\ run.last.resolved /\ run.end.resolved
                         THEN JudgeRun(v, run) ELSE v
      ended == [i \in DOMAIN u.closing |-> ResolveRun(clock, pcr, u.closing[i])]
      v     == FoldLeft(judge, u, ended)
  IN IF ~u.queued THEN u
     ELSE [v EXCEPT !.queued = FALSE, !.closing = <<>>,
             !.run = IF u.open THEN [@ EXCEPT !.start = Resolve(clock, pcr, @),
                                              !.last = Resolve(clock, pcr, @)] ELSE @]

-------------------------------------------------------------------------------
(* The check.                                                                *)

NewCheck ==
  [clock |-> NewPcrClock, pids |-> <<>>, rows |-> <<>>, unref |-> <<>>,
   referenced |-> {}, ever |-> {}, complete |-> FALSE, assessed |-> FALSE]

SettleCheck(c, pcr) ==
  [c EXCEPT !.pids = [p \in DOMAIN @ |-> SettlePid(c.clock, pcr, @[p])],
            !.rows = [k \in DOMAIN @ |-> SettleRow(c.clock, pcr, @[k])],
            !.unref = [p \in DOMAIN @ |-> SettleUnref(c.clock, pcr, @[p])]]

ObservePCR(c, index, ticks, comparable) ==
  LET pcr == NextPcr(c.clock, index, ticks, comparable)
  IN [SettleCheck(c, pcr) EXCEPT !.clock = AfterPcr(@, pcr)]

UnreferencedCandidate(pid) == pid \notin Reserved \cup {NullPid}

ObservePacket(c, pid, index) ==
  LET now == Take(c.clock, index)
      stray == c.complete /\ pid \notin c.referenced /\ UnreferencedCandidate(pid)
      unrefOf == IF pid \in DOMAIN c.unref THEN c.unref[pid] ELSE NewUnref(now)
  IN [c EXCEPT
        !.pids = ObservePacketGap(@, pid, now),
        !.rows = [k \in DOMAIN @ |-> IF @[k].active /\ k.pid = pid THEN RowPacket(@[k], now) ELSE @[k]],
        !.unref = IF ~stray THEN @
                  ELSE [p \in DOMAIN @ \cup {pid} |->
                          IF p = pid THEN UnrefPacket(unrefOf, now, pid \in c.ever) ELSE @[p]]]

ObserveLayout(c, layout, index) ==
  LET now  == Take(c.clock, index)
      want == Wanted(layout)
      referenced == ReferencedPids(layout)
      changed == {p \in c.ever : (p \in referenced) # (p \in c.referenced)}
      rowOf(k) == LET row == IF k \in DOMAIN c.rows THEN c.rows[k] ELSE NewRow(now)
                  IN IF row.active /\ k \notin want THEN Unwatch(row, now)
                     ELSE IF ~row.active /\ k \in want THEN Watch(row, now)
                     ELSE row
      unrefOf(p) == IF c.unref[p].open /\ (p \in referenced \/ ~Complete(layout))
                      THEN CloseRun(c.unref[p], now, p \in referenced) ELSE c.unref[p]
  IN [c EXCEPT !.rows = [k \in DOMAIN @ \cup want |-> rowOf(k)],
               !.unref = [p \in DOMAIN @ |-> unrefOf(p)],
               !.pids = Restart(@, changed),
               !.ever = @ \cup referenced, !.referenced = referenced,
               !.complete = Complete(layout), !.assessed = @ \/ Complete(layout)]

FinishCheck(c, index) ==
  LET now == Take(c.clock, index)
  IN SettleCheck([c EXCEPT
       !.rows = [k \in DOMAIN @ |-> IF @[k].active THEN Unwatch(@[k], now) ELSE @[k]],
       !.unref = [p \in DOMAIN @ |-> IF @[p].open THEN CloseRun(@[p], now, FALSE) ELSE @[p]]],
     EndOfScan(c.clock))

-------------------------------------------------------------------------------
(* Its result.                                                               *)

Severity == [ok |-> 0, insufficient_data |-> 1, silent |-> 2, absent |-> 3]

RowStatus(c, key) ==
  LET row == c.rows[key]
      exceeded == c.clock.has /\ \E i \in row.silence.best : Ms(i) > PIDSilenceLimitMs
  IN IF ~Judged(key) THEN IF row.packets = 0 THEN "insufficient_data" ELSE "ok"
     ELSE IF ~c.clock.has THEN "insufficient_data"
     ELSE IF row.packets = 0 THEN IF exceeded THEN "absent" ELSE "insufficient_data"
     ELSE IF exceeded THEN "silent" ELSE "ok"

ReferencedStatus(c) ==
  CHOOSE s \in DOMAIN Severity :
    Severity[s] = Max({0} \cup {Severity[RowStatus(c, k)] : k \in DOMAIN c.rows})

UnreferencedStatus(c) ==
  IF ~c.assessed THEN "skipped"
  ELSE IF ~c.clock.has THEN "insufficient_data"
  ELSE IF \E p \in DOMAIN c.unref : c.unref[p].found.runs > 0 THEN "unreferenced"
  ELSE IF \E p \in DOMAIN c.unref : c.unref[p].undetermined.runs > 0 THEN "insufficient_data"
  ELSE "ok"

-------------------------------------------------------------------------------
(* The scan.  Packets read before the first layout carry no PCR that counts. *)
(* PID 0 stands for a packet with a transport error, which has a place but is *)
(* not observed, and for any other PID.                                      *)

NoPcr == [has |-> FALSE, ticks |-> 0, comparable |-> FALSE]

PcrNumber == Cardinality({k \in DOMAIN history : history[k].pcr.has})
LayoutNumber == Cardinality({k \in DOMAIN history : history[k].layout # {}})

\* The first PCR is not comparable, and no later one has to be.
PcrChoices ==
  {NoPcr} \cup (IF PcrNumber >= MaxScanPcrs THEN {} ELSE {[has |-> TRUE, ticks |-> 0, comparable |-> FALSE]})
          \cup (IF PcrNumber \in 1 .. MaxScanPcrs - 1
                  THEN {[has |-> TRUE, ticks |-> t, comparable |-> TRUE] : t \in Steps} ELSE {})

LayoutChoices ==
  IF LayoutNumber = 0 THEN {{l} : l \in ReferenceLayouts}
  ELSE {{}} \cup (IF LayoutNumber < MaxLayoutChanges THEN {{l} : l \in ReferenceLayouts} ELSE {})

Counted(c, pid, index) == IF pid \in Pids THEN ObservePacket(c, pid, index) ELSE c

Init == check = NewCheck /\ history = <<>> /\ phase = "lead"

ObserveLead(pid) ==
  LET index == Len(history) + 1 IN
  /\ phase = "lead"
  /\ index <= MaxLead
  /\ check' = Counted(check, pid, index)
  /\ history' = Append(history, [pid |-> pid, pcr |-> NoPcr, layout |-> {}])
  /\ UNCHANGED phase

Observe(pid, pcr, layout) ==
  LET index   == Len(history) + 1
      clocked == IF pcr.has THEN ObservePCR(check, index, pcr.ticks, pcr.comparable) ELSE check
      laid    == FoldSet(LAMBDA l, c : ObserveLayout(c, l, index), clocked, layout)
  IN /\ phase # "finished"
     /\ index <= MaxScanned
     /\ phase' = "scan"
     /\ check' = Counted(laid, pid, index)
     /\ history' = Append(history, [pid |-> pid, pcr |-> pcr, layout |-> layout])

Finish ==
  /\ phase = "scan"
  /\ phase' = "finished"
  /\ check' = FinishCheck(check, Len(history) + 1)
  /\ UNCHANGED history

Next ==
  \/ \E pid \in Pids : ObserveLead(pid)
  \/ \E pid \in Pids, layout \in LayoutChoices : Observe(pid, NoPcr, layout)
  \/ \E pcr \in PcrChoices \ {NoPcr}, layout \in LayoutChoices : Observe(PcrPid, pcr, layout)
  \/ phase = "scan" /\ Observe(0, NoPcr, {})
  \/ Finish

Spec == Init /\ [][Next]_referenceVars

-------------------------------------------------------------------------------
(* The stream seen at once.  End is the place after the last packet.         *)

End == Len(history) + 1

PcrsUpTo(k) == {j \in DOMAIN history : j <= k /\ history[j].pcr.has}
PcrsAfter(k) == {j \in DOMAIN history : j > k /\ history[j].pcr.has}

Elapsed(k) == MapThenSumSet(LAMBDA j : history[j].pcr.ticks, PcrsUpTo(k))

\* The time at a packet: linear between two comparable PCRs, standing still
\* elsewhere.
TimeAt(k) ==
  LET from == Max(PcrsUpTo(k))
      to   == Min(PcrsAfter(k))
  IN IF PcrsUpTo(k) = {} \/ PcrsAfter(k) = {} THEN Elapsed(k)
     ELSE Elapsed(k) + ((k - from) * history[to].pcr.ticks) \div (to - from)

\* A packet between two comparable PCRs, and an interval between two such
\* packets of one segment: its time is not a lower bound.
Timed(k) == PcrsUpTo(k) # {} /\ PcrsAfter(k) # {} /\ history[Min(PcrsAfter(k))].pcr.comparable
TimedWithin(from, to) ==
  /\ Timed(from) /\ Timed(to)
  /\ \A k \in PcrsUpTo(to) \ PcrsUpTo(from) : history[k].pcr.comparable

\* The layout that applies to packet k, if there is one.
Applicable(k) ==
  LET changes == {j \in 1 .. k : j \in DOMAIN history /\ history[j].layout # {}}
  IN IF changes = {} THEN {} ELSE history[Max(changes)].layout

Refers(key, k) == k \in DOMAIN history /\ \E l \in Applicable(k) : key \in Wanted(l)
RefersTo(pid, k) == \E l \in Applicable(k) : pid \in ReferencedPids(l)
FullyKnown(k) == \E l \in Applicable(k) : Complete(l)

PacketsOf(pid) == {k \in DOMAIN history : history[k].pid = pid}

\* Where the reference of a row starts or ends, and its packets in between.
Touches(key, k) ==
  \/ Refers(key, k) /\ (k \in PacketsOf(key.pid) \/ ~Refers(key, k - 1))
  \/ Refers(key, k - 1) /\ ~Refers(key, k)

Silences(key) ==
  {s \in (1 .. End) \X (1 .. End) :
     /\ s[1] < s[2] /\ Touches(key, s[1]) /\ Touches(key, s[2])
     /\ Refers(key, s[1])
     /\ \A k \in s[1] + 1 .. s[2] - 1 : ~Touches(key, k)}

Length(s) == TimeAt(s[2]) - TimeAt(s[1])

\* Consecutive packets of a PID in one stretch of the layout.
BreaksChain(pid, k) ==
  RefersTo(pid, k) # RefersTo(pid, k - 1) /\ \E j \in 1 .. k - 1 : RefersTo(pid, j)

Gaps(pid) ==
  {s \in PacketsOf(pid) \X PacketsOf(pid) :
     /\ s[1] < s[2]
     /\ \A k \in s[1] + 1 .. s[2] : ~BreaksChain(pid, k)
     /\ \A k \in s[1] + 1 .. s[2] - 1 : k \notin PacketsOf(pid)}

\* Runs of packets that no layout references, as <<first, last, end>>.
Strays(pid) == {k \in PacketsOf(pid) : FullyKnown(k) /\ ~RefersTo(pid, k)}
Closes(pid, k) == k = End \/ RefersTo(pid, k) \/ ~FullyKnown(k)
RunFrom(pid, k) ==
  LET end == Min({e \in k + 1 .. End : Closes(pid, e)})
  IN <<k, Max({j \in Strays(pid) : j < end}), end>>
Runs(pid) ==
  {RunFrom(pid, k) : k \in {j \in Strays(pid) :
     \A i \in Strays(pid) : i < j => \E e \in i + 1 .. j : Closes(pid, e)}}

Duration(pid, run) ==
  TimeAt(IF \E k \in 1 .. run[1] : RefersTo(pid, k) THEN run[2] ELSE run[3]) - TimeAt(run[1])
TooLong(pid) == {run \in Runs(pid) : Duration(pid, run) > UnreferencedGraceMs}
CutShort(pid) ==
  {run \in Runs(pid) \ TooLong(pid) :
     /\ run[3] = End \/ ~RefersTo(pid, run[3])
     /\ Length(<<run[1], run[3]>>) <= UnreferencedGraceMs}

\* More runs of a PID ended in one PCR interval than the check keeps.
Crowded(pid) ==
  \E run \in Runs(pid) :
    Cardinality({r \in Runs(pid) : PcrsUpTo(r[3] - 1) = PcrsUpTo(run[3] - 1)}) > MaxClosingRuns

-------------------------------------------------------------------------------
(* Properties.                                                               *)

Finished == phase = "finished"

\* The longest silence of every reference, found from two candidates per PCR
\* interval, is the longest of the whole stream, it is reported where it was,
\* and a stream is called absent or silent only for one above the limit.
SilenceAsDefined ==
  Finished =>
    /\ \A key \in DOMAIN check.rows :
         check.rows[key].packets = Cardinality({k \in PacketsOf(key.pid) : Refers(key, k)})
    /\ check.clock.has => \A key \in DOMAIN check.rows :
         \E i \in check.rows[key].silence.best :
           /\ Ms(i) = Max({Length(s) : s \in Silences(key)})
           /\ Ms(i) > 0 => <<i.start.index, i.end.index>> \in Silences(key)
           /\ Exact(i) <=> TimedWithin(i.start.index, i.end.index)
    /\ ReferencedStatus(check) \in {"absent", "silent"} <=>
         check.clock.has /\ \E key \in DOMAIN check.rows :
           Judged(key) /\ \E s \in Silences(key) : Length(s) > PIDSilenceLimitMs

\* The largest gap of every PID is the largest of the stream, has the time
\* between its packets, is called exact when that time is not a lower bound, and
\* starts after the first PCR when an equal one does.
GapsAsDefined ==
  Finished => \A pid \in DOMAIN check.pids :
    LET worst == check.pids[pid].worst IN
    /\ worst = {} <=> Gaps(pid) = {}
    /\ \A i \in worst :
         /\ Known(i) <=> check.clock.has
         /\ Known(i) => Ms(i) = TimeAt(i.end.index) - TimeAt(i.start.index)
         /\ Exact(i) <=> TimedWithin(i.start.index, i.end.index)
         /\ Span(i) = Max({s[2] - s[1] : s \in Gaps(pid)})
         /\ PcrsUpTo(i.start.index) = {} =>
              ~\E s \in Gaps(pid) : s[2] - s[1] = Span(i) /\ PcrsUpTo(s[1]) # {}

\* What is measured between packets is measured on the clock of the stream.
SpansAsDefined == SilenceAsDefined /\ GapsAsDefined

\* A PID is unreferenced, or could not be judged, exactly for the runs of the
\* stream that lasted too long, or were cut short, unless several runs of one
\* PID ended between two PCRs.
UnreferencedAsDefined ==
  Finished /\ check.clock.has =>
    \A pid \in {p \in Pids : UnreferencedCandidate(p) /\ ~Crowded(p)} :
      LET found == IF pid \in DOMAIN check.unref THEN check.unref[pid].found ELSE NoTotals
          undetermined == IF pid \in DOMAIN check.unref THEN check.unref[pid].undetermined ELSE NoTotals
      IN /\ found.runs = Cardinality(TooLong(pid))
         /\ found.longest = Max({0} \cup {Duration(pid, run) : run \in TooLong(pid)})
         /\ undetermined.runs = Cardinality(CutShort(pid))
         /\ UnreferencedStatus(check) = "ok" => TooLong(pid) \cup CutShort(pid) = {}

\* Nothing the bounded state of the checks gives depends on what it forgot.
ReferencesAsDefined == SpansAsDefined /\ UnreferencedAsDefined
===============================================================================
