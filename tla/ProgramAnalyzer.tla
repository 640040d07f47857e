---------------------------- MODULE ProgramAnalyzer ----------------------------
(***************************************************************************)
(* programAnalyzer of tsparser/mpeg_packet.go: one program of a scan.  Each *)
(* packet may break a stream, carry a PCR, and end, start or continue a PES *)
(* packet; a PMT change, the end of the program and the end of the input    *)
(* come between packets.  PcrClock gives the PCR half and PesFeed the way   *)
(* of completed PES packets to the PES check.                               *)
(*                                                                         *)
(* Offsets are packet numbers.  Of a PES packet only the header matters:    *)
(* how many packets it takes and what is wrong with it.                     *)
(***************************************************************************)
EXTENDS PcrClock, PesFeed, FiniteSetsExt

CONSTANTS
  Layouts,       \* layouts a PMT may announce: the stream type of each PID
  Faults,        \* what may befall a packet: a subset of {"lost", "untrusted"}
  Headers,       \* headers a PES packet may start with: a subset of HeaderKinds
  MaxLayouts     \* bound on the layouts of a behaviour

\* need is the number of packets the header takes.
HeaderKinds == [need : 1 .. 2, problem : {"ok", "malformed"}]

ASSUME HeadersAssumption == Headers \subseteq HeaderKinds

VARIABLES
  pes,         \* pesMap: the PES packet in progress on each PID that has one
  phase,       \* "scanning", "stopped" (no longer in the PAT) or "finished"
  layouts,     \* every layout so far, with where it began to apply
  pcrs,        \* every PCR the analysis used, as anchors
  started      \* every PES packet started: <<pid, offset>>

analyzerVars == <<pos, pcrVars, feed, pes, phase, layouts, pcrs, started>>

\* A PID that is not a stream of the layout has the type "none" there.
Layout == layouts[Len(layouts)].types

Streams == {p \in Pids : Layout[p] # "none"}

Init ==
  /\ PcrInit
  /\ feed = NewPESFeed
  /\ pes = <<>>
  /\ phase = "scanning"
  /\ \E types \in Layouts : layouts = <<[at |-> 0, logged |-> 0, types |-> types]>>
  /\ pcrs = <<>>
  /\ started = {}

Without(map, p) == [q \in DOMAIN map \ {p} |-> map[q]]

With(map, p, value) == [q \in DOMAIN map \cup {p} |-> IF q = p THEN value ELSE map[q]]

-------------------------------------------------------------------------------
(* A scan state s = [feed, pes] through the steps of one packet.             *)

\* completePes and observePES: next tells whether the next PES packet of the
\* PID ended this one; otherwise a header cut short is not a problem of the
\* stream.
CompletePes(f, p, packet, next) ==
  LET problem == IF packet.got < packet.header.need THEN "truncated" ELSE packet.header.problem
  IN IF problem = "truncated" /\ ~next
       THEN ObserveBreak(f, p, packet.pos, "incomplete_header")
       ELSE ObservePES(f, p, packet.pos, problem, packet.prev, packet.next)

\* Mutant: a continuity error does not end the PES packet in progress.
BreakPES_KeepsPes(s, p, at, cause) ==
  IF p \notin Streams THEN s
  ELSE [s EXCEPT !.feed = ObserveBreak(@, p, at, cause)]

\* breakPES: a continuity error also ends the PES packet in progress.
BreakPES(s, p, at, cause) ==
  LET ends == cause = "continuity_error" /\ p \in DOMAIN s.pes IN
  IF p \notin Streams THEN s
  ELSE [feed |-> ObserveBreak(IF ends THEN CompletePes(s.feed, p, s.pes[p], FALSE) ELSE s.feed,
                              p, at, cause),
        pes  |-> IF ends THEN Without(s.pes, p) ELSE s.pes]

\* Mutant: the brackets of the PES packets in progress stay open.
PlaceWith_OnlyHeld(s, anchor) == [s EXCEPT !.feed = Release(@, anchor)]

\* observePcr: the new PCR places what waits for it and ends the bracket of
\* every PES packet in progress.
PlaceWith(s, anchor) ==
  [feed |-> Release(s.feed, anchor),
   pes  |-> [p \in DOMAIN s.pes |->
               IF s.pes[p].next.valid THEN s.pes[p] ELSE [s.pes[p] EXCEPT !.next = anchor]]]

\* A payload that is not trusted ends the PES packet in progress.
ObserveUntrusted(s, p, at) ==
  LET ended == IF p \in DOMAIN s.pes
                 THEN [feed |-> CompletePes(s.feed, p, s.pes[p], FALSE), pes |-> Without(s.pes, p)]
                 ELSE s
  IN BreakPES(ended, p, at, "untrusted_payload")

\* Pes.initialize after the last PCR.
StartPes(s, p, at, header, anchor) ==
  [feed |-> IF p \in DOMAIN s.pes THEN CompletePes(s.feed, p, s.pes[p], TRUE) ELSE s.feed,
   pes  |-> With(s.pes, p, [pos |-> at, got |-> 1, header |-> header,
                            prev |-> anchor, next |-> NoAnchor])]

ContinuePes(s, p) ==
  IF p \in DOMAIN s.pes THEN [s EXCEPT !.pes[p].got = @ + 1] ELSE s

\* The end of every PES packet of a set of PIDs: no other follows.
EndPes(f, packets, ended) ==
  FoldSet(LAMBDA p, g : CompletePes(g, p, packets[p], FALSE), f, ended \cap DOMAIN packets)

-------------------------------------------------------------------------------
\* What a packet does to the PES packets: a PCR comes before its own payload.
\* A duplicate packet and one without payload only carry a PCR.
ObservePayload(s, p, at, anchor, payload, header) ==
  IF p \notin Streams THEN s
  ELSE CASE payload = "untrusted" -> ObserveUntrusted(s, p, at)
         [] payload = "start"     -> StartPes(s, p, at, header, anchor)
         [] payload = "more"      -> ContinuePes(s, p)
         [] payload = "none"      -> s

PcrPart(p, at) ==
  \/ UNCHANGED <<pcrVars, pcrs>>
  \/ p = pcrPid /\ ObserveIndicator /\ UNCHANGED pcrs
  \/ /\ p = pcrPid
     /\ \E move \in Moves, indicated \in Indicators : ObservePcr(move, indicated, at)
     /\ pcrs' = Append(pcrs, clock')

Packet(p, lost, payload, header) ==
  LET at     == pos + 1
      broken == IF lost THEN BreakPES([feed |-> feed, pes |-> pes], p, at, "continuity_error")
                        ELSE [feed |-> feed, pes |-> pes]
      placed == IF pcrs' # pcrs THEN PlaceWith(broken, clock') ELSE broken
      after  == ObservePayload(placed, p, at, clock', payload, header)
  IN
    /\ phase = "scanning"
    /\ pos < MaxPackets
    /\ lost => "lost" \in Faults
    /\ payload = "untrusted" => "untrusted" \in Faults
    /\ pos' = at
    /\ PcrPart(p, at)
    /\ feed' = after.feed
    /\ pes' = after.pes
    /\ started' = IF payload = "start" /\ p \in Streams
                    THEN started \cup {<<p, at>>} ELSE started
    /\ UNCHANGED <<phase, layouts>>

\* A new PCR_PID takes the PCR before it from every PES packet in progress that
\* still lacks the one after.
KeptPes(ended, newPcrPid) ==
  [p \in DOMAIN pes \ ended |->
     IF newPcrPid # pcrPid /\ ~pes[p].next.valid
       THEN [pes[p] EXCEPT !.prev = NoAnchor] ELSE pes[p]]

\* Mutant: what is held stays held under the new layout.
EndedFeed_KeepsHeld(ended) == EndPes(feed, pes, ended)

\* The PES packets of the ended PIDs and all that is held reach the check.
EndedFeed(ended) == Release(EndPes(feed, pes, ended), NoAnchor)

\* setLayout: the streams removed or retyped end before the check learns of it.
SetLayout(types, newPcrPid) ==
  LET ended == {p \in Streams : types[p] # Layout[p]} IN
    /\ phase = "scanning"
    /\ Len(layouts) < MaxLayouts
    /\ SetPcrPid(newPcrPid)
    /\ pes' = KeptPes(ended, newPcrPid)
    /\ feed' = EndedFeed(ended)
    /\ layouts' = Append(layouts, [at |-> pos, logged |-> Len(feed'.log), types |-> types])
    /\ UNCHANGED <<pos, phase, pcrs, started>>

\* finish: every PES packet in progress ends, and none waits for a PCR any more.
Finish ==
  /\ phase # "finished"
  /\ phase' = "finished"
  /\ feed' = EndedFeed(DOMAIN pes)
  /\ UNCHANGED <<pos, pcrVars, pes, layouts, pcrs, started>>

\* Mutant: the PES packets that ended stay in the map.
Stop_KeepsPes ==
  /\ phase = "scanning"
  /\ phase' = "stopped"
  /\ feed' = EndedFeed(DOMAIN pes)
  /\ UNCHANGED <<pos, pcrVars, pes, layouts, pcrs, started>>

\* stop: the program is no longer in the PAT.
Stop ==
  /\ phase = "scanning"
  /\ phase' = "stopped"
  /\ feed' = EndedFeed(DOMAIN pes)
  /\ pes' = <<>>
  /\ UNCHANGED <<pos, pcrVars, layouts, pcrs, started>>

Next ==
  \/ \E p \in Pids \cup PcrPids, lost \in BOOLEAN,
        payload \in {"none", "untrusted", "start", "more"}, header \in Headers :
       Packet(p, lost, payload, header)
  \/ \E types \in Layouts, newPcrPid \in PcrPids : SetLayout(types, newPcrPid)
  \/ Stop
  \/ Finish

Spec == Init /\ [][Next]_analyzerVars

-------------------------------------------------------------------------------
(* Properties.                                                               *)

Log == feed.log

IsPes(item) == item.what \in Problems \cup {"incomplete_header"}

\* Every PES packet started is reported to the PES check exactly once, as a
\* header or as one that was cut short, unless it is still in progress or held.
StartsReportedOnce ==
  /\ \A i \in DOMAIN Log : IsPes(Log[i]) => <<Log[i].pid, Log[i].offset>> \in started
  /\ \A s \in started :
       LET reports == {i \in DOMAIN Log :
                         IsPes(Log[i]) /\ Log[i].pid = s[1] /\ Log[i].offset = s[2]}
       IN /\ Cardinality(reports) <= 1
          /\ phase = "finished" => reports # {}

\* No PES packet in progress spans a loss or a payload that was not used.
NoPesSpansABreak ==
  \A s \in {feed.log, feed.pending} : \A i \in DOMAIN s :
    s[i].what \in {"continuity_error", "untrusted_payload"} /\ s[i].pid \in DOMAIN pes =>
      s[i].offset <= pes[s[i].pid].pos

\* What is reported as a PES packet is one that was sent: each once, and none put
\* together across a loss.
ReportedAsSent == StartsReportedOnce /\ NoPesSpansABreak

\* The PCRs around an offset: the last one at or before it and the next one.
Bracketed(i, offset) ==
  i + 1 \in DOMAIN pcrs /\ pcrs[i].pos <= offset /\ offset < pcrs[i + 1].pos

\* A PES packet is placed only between two consecutive PCRs of one segment, at
\* a time between theirs.
PlacedBetweenPcrs ==
  \A k \in DOMAIN Log :
    Log[k].at.valid =>
      \E i \in DOMAIN pcrs :
        /\ Bracketed(i, Log[k].offset)
        /\ pcrs[i].segment = pcrs[i + 1].segment /\ pcrs[i].segment = Log[k].at.segment
        /\ Log[k].at.ticks \in pcrs[i].unwrapped .. pcrs[i + 1].unwrapped

\* A layout change came between an offset and the PCR after it.
CutByLayout(offset, next) ==
  \E l \in DOMAIN layouts : l > 1 /\ layouts[l].at >= offset /\ layouts[l].at < next

\* Conversely a valid header between two such PCRs is placed, unless a layout
\* change released it or too much was held before the second PCR.
PlacedWheneverPossible ==
  \A k \in DOMAIN Log, i \in DOMAIN pcrs :
    /\ Log[k].what = "ok"
    /\ Bracketed(i, Log[k].offset)
    /\ pcrs[i].segment = pcrs[i + 1].segment
    /\ ~CutByLayout(Log[k].offset, pcrs[i + 1].pos)
    /\ feed.seen < MaxPendingPES
    => Log[k].at.valid

\* Times of one PID and segment never go back, so no interval between them is
\* negative (PESCheck subtracts them as unsigned numbers).
ArrivalsNeverGoBack ==
  \A i, j \in DOMAIN Log :
    /\ i < j /\ Log[i].pid = Log[j].pid
    /\ Log[i].at.valid /\ Log[j].at.valid /\ Log[i].at.segment = Log[j].at.segment
    => Log[i].at.ticks <= Log[j].at.ticks

\* A PES packet has a time of arrival exactly when the stream gives it one, and
\* it is the right one.
PlacedExactly == PlacedBetweenPcrs /\ PlacedWheneverPossible /\ ArrivalsNeverGoBack

\* The layout that applied to the packet at an offset, and the one the PES
\* check had when it received the k-th observation.
LayoutAt(offset) == LET l == Max({i \in DOMAIN layouts : layouts[i].at < offset})
                    IN layouts[l].types

LayoutOfCheck(k) == LET l == Max({i \in DOMAIN layouts : layouts[i].logged < k})
                    IN layouts[l].types

\* A PES packet is judged as the stream type it was sent with, even when it is
\* reported after that type has changed.
JudgedAsItsType ==
  \A k \in DOMAIN Log :
    LayoutOfCheck(k)[Log[k].pid] = LayoutAt(Log[k].offset)[Log[k].pid]
===============================================================================
