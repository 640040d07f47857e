------------------------------- MODULE MuxLead -------------------------------
(***************************************************************************)
(* The mux lead that PESCheck also collects (internal/analysis/mux_lead.go, *)
(* pes_lead.go): how far ahead of its decode time each PES packet arrives,   *)
(* and how far the latest leads of audio and video lie apart.  Each action   *)
(* is one of PesCheck with what it does to the leads.                        *)
(*                                                                         *)
(* Stamps and arrivals count in one unit, and both are modulo StampPeriod.    *)
(***************************************************************************)
EXTENDS PesCheck

CONSTANTS
  StampPeriod,   \* the period of the PTS, of the DTS and of the PCR
  StampSets      \* what a header may carry: the leads of its PTS and of its DTS

\* PIDs are numbers; and a true lead is one that stamps modulo the period can tell.
ASSUME LeadAssumption ==
  /\ Pids \subseteq Nat
  /\ StampPeriod \in Nat \ {0}
  /\ \A s \in StampSets :
       /\ s.hasPTS \in BOOLEAN /\ s.hasDTS \in BOOLEAN
       /\ s.hasDTS => s.hasPTS
       /\ s.hasPTS => (IF s.hasDTS THEN s.dts ELSE s.pts)
                        \in (StampPeriod \div 2) - StampPeriod .. (StampPeriod \div 2) - 1

VARIABLES
  leads,     \* pesStream.lead of each PID
  av,        \* PESCheck.av of the program: its video PID, if any, and its audio PIDs
  carried    \* each observation or layout by its offset, for the properties

leadVars == <<leads, av, carried>>

NoSample == [ticks |-> 0, offset |-> 0, segment |-> 0]

NewLead ==
  [samples |-> 0, unbracketed |-> 0, dts |-> 0, negative |-> 0, min |-> NoSample, max |-> NoSample,
   last |-> NoSample, hasLast |-> FALSE,
   comparisons |-> 0, worst |-> [ticks |-> 0, audio |-> NoSample, video |-> NoSample]]

\* Mutant: a lead from before a break is compared after it.
Forget_Keeps(l) == l

\* A break, a header that failed a check and a change of layout.
Forget(l) == [l EXCEPT !.hasLast = FALSE]

\* A PES packet with a PTS that is not placed in time.
Unbracketed(l) == Forget([l EXCEPT !.unbracketed = @ + 1])

\* observeAVLayout: the lowest video PID and every audio PID.
AVLayout(types) ==
  LET video == {p \in Pids : types[p] = "video"}
  IN [video |-> IF video = {} THEN {} ELSE {Min(video)}, audio |-> {p \in Pids : types[p] = "audio"}]

\* LeadTicks: the difference nearest to zero of two times modulo the period.
LeadTicks(stamp, arrival) ==
  LET d == (stamp + StampPeriod - (arrival % StampPeriod)) % StampPeriod
  IN IF d >= StampPeriod \div 2 THEN d - StampPeriod ELSE d

\* stamp: the DTS, or the PTS without one, as the header carries it.
Stamp(carries, at) ==
  (at.ticks + (IF carries.hasDTS THEN carries.dts ELSE carries.pts)) % StampPeriod

Sampled(l, sample, hasDTS) ==
  [l EXCEPT !.samples = @ + 1,
            !.dts = IF hasDTS THEN @ + 1 ELSE @,
            !.negative = IF sample.ticks < 0 THEN @ + 1 ELSE @,
            !.min = IF l.samples = 0 \/ sample.ticks < @.ticks THEN sample ELSE @,
            !.max = IF l.samples = 0 \/ sample.ticks > @.ticks THEN sample ELSE @,
            !.last = sample, !.hasLast = TRUE]

Distance(a, b) == IF a.ticks > b.ticks THEN a.ticks - b.ticks ELSE b.ticks - a.ticks

\* compareLeads: the lead of an audio PID after the comparison.
Compare(audio, video) ==
  LET d == Distance(audio.last, video.last) IN
  IF ~audio.hasLast \/ ~video.hasLast \/ audio.last.segment # video.last.segment THEN audio
  ELSE [audio EXCEPT
          !.comparisons = @ + 1,
          !.worst = IF audio.comparisons = 0 \/ d > @.ticks
                      THEN [ticks |-> d, audio |-> audio.last, video |-> video.last] ELSE @]

\* The audio PIDs compared when p has a new sample.
Pairs(p) ==
  IF av.video = {} THEN {}
  ELSE IF streams[p].type = "audio" THEN {p} ELSE IF p \in av.video THEN av.audio ELSE {}

\* observeLead.
ObserveLead(p, carries, at, pos) ==
  LET sample  == [ticks |-> LeadTicks(Stamp(carries, at), at.ticks), offset |-> pos,
                  segment |-> at.segment]
      sampled == [leads EXCEPT ![p] = Sampled(@, sample, carries.hasDTS)]
  IN IF ~carries.hasPTS THEN leads
     ELSE IF ~at.valid THEN [leads EXCEPT ![p] = Unbracketed(@)]
     ELSE [q \in DOMAIN leads |->
             IF q \in Pairs(p) THEN Compare(sampled[q], sampled[CHOOSE v \in av.video : TRUE])
             ELSE sampled[q]]

-------------------------------------------------------------------------------
Carried(entry) == carried' = Append(carried, entry)

LeadPES(p, carries, at) ==
  /\ ObserveGoodHeader(p, carries.hasPTS, at)
  /\ leads' = ObserveLead(p, carries, at, offset + 1)
  /\ Carried([what |-> "pes", pid |-> p, carries |-> carries, at |-> at])
  /\ UNCHANGED av

LeadBadHeader(p, problem) ==
  /\ ObserveBadHeader(p, problem)
  /\ leads' = [leads EXCEPT ![p] = Forget(@)]
  /\ Carried([what |-> "cut", pids |-> {p}])
  /\ UNCHANGED av

LeadBreak(p, cause) ==
  /\ ObserveBreak(p, cause)
  /\ leads' = [leads EXCEPT ![p] = Forget(@)]
  /\ Carried([what |-> "cut", pids |-> {p}])
  /\ UNCHANGED av

LeadLayout(types) ==
  LET changed == {p \in DOMAIN streams : Changes(p, types)} IN
  /\ ObserveProgramLayout(types)
  /\ leads' = [p \in DOMAIN streams' |->
                 IF p \notin DOMAIN leads THEN NewLead
                 ELSE IF p \in changed THEN Forget(leads[p]) ELSE leads[p]]
  /\ av' = AVLayout(types)
  /\ Carried([what |-> "layout", pids |-> changed, types |-> types])

LeadInit ==
  /\ CheckInit
  /\ leads = [p \in {} |-> NewLead]
  /\ av = [video |-> {}, audio |-> {}]
  /\ carried = <<>>

LeadNext ==
  /\ offset < MaxObserved
  /\ offset' = offset + 1
  /\ \/ \E types \in Layouts : LeadLayout(types)
     \/ \E p \in {q \in DOMAIN streams : streams[q].active} :
          \/ \E carries \in StampSets, at \in NextTimes(p) : LeadPES(p, carries, at)
          \/ \E problem \in HeaderProblems : LeadBadHeader(p, problem)
          \/ \E cause \in BreakCauses : LeadBreak(p, cause)

LeadSpec == LeadInit /\ [][LeadNext]_<<checkVars, leadVars>>

-------------------------------------------------------------------------------
(* Results.                                                                  *)

\* muxLeadResult.
LeadStatus(p) ==
  LET st == streams[p]
      errors == MapThenSumSet(LAMBDA q : st.problems[q].count, HeaderProblems)
  IN IF leads[p].samples > 0 THEN "info"
     ELSE IF st.pes = 0 THEN IF st.untrusted > 0 THEN "untrusted_payload"
                             ELSE IF errors > 0 THEN "malformed_headers" ELSE "no_pes"
     ELSE IF st.pts = 0 THEN "no_pts" ELSE "no_pcr_timing"

\* The audio PIDs MuxLead lists: those of a program that has a video PID too, by
\* the last stream type of each.
ListedAudio ==
  IF \E p \in DOMAIN streams : streams[p].type = "video"
    THEN {p \in DOMAIN streams : streams[p].type = "audio"} ELSE {}

\* The audio PID with the largest difference, the lowest of equal ones.
WorstAudio ==
  LET compared == {p \in ListedAudio : leads[p].comparisons > 0}
      largest  == {p \in compared : \A q \in compared : leads[q].worst.ticks <= leads[p].worst.ticks}
  IN IF largest = {} THEN {} ELSE {Min(largest)}

-------------------------------------------------------------------------------
(* The definition, over all that was observed in order.                      *)

IsSample(n) == carried[n].what = "pes" /\ carried[n].carries.hasPTS /\ carried[n].at.valid

SamplesOf(p) == {n \in DOMAIN carried : IsSample(n) /\ carried[n].pid = p}

\* The true lead, which the stamps only tell modulo the period.
TrueLead(n) == LET c == carried[n].carries IN IF c.hasDTS THEN c.dts ELSE c.pts

Forgets(n, p) ==
  IF carried[n].what = "pes"
    THEN carried[n].pid = p /\ carried[n].carries.hasPTS /\ ~carried[n].at.valid
    ELSE p \in carried[n].pids

\* The sample of p that counts after the first n observations.
LatestLead(p, n) ==
  {m \in SamplesOf(p) : m <= n /\ \A k \in m + 1 .. n : ~Forgets(k, p) /\ k \notin SamplesOf(p)}

TypesAt(n) ==
  carried[Max({m \in 1 .. n : carried[m].what = "layout"})].types

VideoAt(n) == AVLayout(TypesAt(n)).video

\* The samples that may set off a comparison for an audio PID.
Triggers(a) ==
  {n \in DOMAIN carried : IsSample(n) /\ TypesAt(n)[a] = "audio" /\ carried[n].pid \in {a} \cup VideoAt(n)}

\* The pairs of samples compared for an audio PID, each at the later of the two.
Comparisons(a) ==
  {c \in UNION {{n} \X LatestLead(a, n) \X UNION {LatestLead(v, n) : v \in VideoAt(n)} :
                  n \in Triggers(a)} :
     carried[c[2]].at.segment = carried[c[3]].at.segment}

Apart(c) == LET d == TrueLead(c[2]) - TrueLead(c[3]) IN IF d < 0 THEN -d ELSE d

\* The extremes, counts and comparisons of every PID are those of its true leads:
\* no comparison uses a lead from before a break, a retype, a removal or an
\* unplaced packet, one of another segment, or a video PID that is not the
\* program's at that moment; and the program reports the worst of them.
LeadsAsDefined ==
  carried # <<>> =>
    /\ \A p \in DOMAIN leads :
         LET l == leads[p] IN
         /\ l.samples = Cardinality(SamplesOf(p))
         /\ l.negative = Cardinality({n \in SamplesOf(p) : TrueLead(n) < 0})
         /\ l.samples > 0 =>
              /\ l.min.ticks = Min({TrueLead(n) : n \in SamplesOf(p)})
              /\ l.max.ticks = Max({TrueLead(n) : n \in SamplesOf(p)})
              /\ l.max.offset = Min({n \in SamplesOf(p) : TrueLead(n) = l.max.ticks})
         /\ l.comparisons = Cardinality(Comparisons(p))
         /\ l.comparisons > 0 =>
              /\ l.worst.ticks = Max({Apart(c) : c \in Comparisons(p)})
              /\ \E c \in Comparisons(p) : /\ l.worst.audio.offset = c[2] /\ l.worst.video.offset = c[3]
                                           /\ Apart(c) = l.worst.ticks
         /\ LeadStatus(p) = "info" <=> SamplesOf(p) # {}
         /\ LeadStatus(p) = "no_pcr_timing" <=>
              SamplesOf(p) = {} /\ \E n \in DOMAIN carried : carried[n].what = "pes"
                                     /\ carried[n].pid = p /\ carried[n].carries.hasPTS
    /\ \A p \in WorstAudio, q \in ListedAudio : \A c \in Comparisons(q) :
         Apart(c) <= leads[p].worst.ticks
===============================================================================
