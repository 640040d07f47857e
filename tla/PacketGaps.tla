------------------------------ MODULE PacketGaps ------------------------------
(***************************************************************************)
(* The time basis of the packet checks (internal/analysis/pcr_clock.go) and *)
(* the collector of packet gaps built on it (packet_gaps.go).  A stamp       *)
(* taken at a packet gets its time at the next PCR of the reference program, *)
(* so every owner of stamps waits for the clock.                             *)
(*                                                                         *)
(* A packet is known by its index, which also stands for its byte offset.    *)
(* Milliseconds are integers: the times of a run are chosen so that the      *)
(* interpolation divides evenly.  An interval that may be absent is a set of *)
(* at most one interval.                                                     *)
(***************************************************************************)
EXTENDS Integers, Sequences, FiniteSets

NewPcrClock == [seq |-> 0, has |-> FALSE, index |-> 0, ms |-> 0, segment |-> 0]

\* take: the stamp of a packet, or of an event at a packet.
Take(clock, index) ==
  [index |-> index, seq |-> clock.seq, ms |-> 0, resolved |-> FALSE,
   exact |-> FALSE, segment |-> 0]

\* The PCR that settles the stamps taken since the last one, and the end of the
\* scan, which settles them at the last PCR.
NextPcr(clock, index, ticks, comparable) ==
  [index |-> index, ms |-> clock.ms + IF comparable THEN ticks ELSE 0,
   boundary |-> ~comparable, finished |-> FALSE]

EndOfScan(clock) ==
  [index |-> clock.index, ms |-> clock.ms, boundary |-> TRUE, finished |-> TRUE]

AfterPcr(clock, pcr) ==
  [seq |-> clock.seq + 1, has |-> TRUE, index |-> pcr.index, ms |-> pcr.ms,
   segment |-> IF clock.has /\ pcr.boundary THEN clock.segment + 1 ELSE clock.segment]

\* resolve: interpolated between two PCRs of one segment, otherwise clamped.
Resolve(clock, pcr, stamp) ==
  LET between == clock.has /\ ~pcr.boundary IN
  IF stamp.resolved \/ stamp.seq # clock.seq \/ (pcr.finished /\ ~clock.has) THEN stamp
  ELSE [stamp EXCEPT !.resolved = TRUE, !.segment = clock.segment, !.exact = between,
          !.ms = IF between
                   THEN clock.ms + ((stamp.index - clock.index) * (pcr.ms - clock.ms))
                                     \div (pcr.index - clock.index)
                   ELSE pcr.ms]

-------------------------------------------------------------------------------
(* Intervals between two stamps.                                             *)

ResolveAll(clock, pcr, intervals) ==
  {[start |-> Resolve(clock, pcr, i.start), end |-> Resolve(clock, pcr, i.end)] : i \in intervals}

Known(i) == i.start.resolved /\ i.end.resolved
Ms(i)    == i.end.ms - i.start.ms
Exact(i) == i.start.exact /\ i.end.exact /\ i.start.segment = i.end.segment
Span(i)  == i.end.index - i.start.index

\* longest: the longest of a chain of intervals, from two candidates.
NoneLonger == [best |-> {}, straddle |-> {}, inner |-> {}]

\* Mutant: the last interval that lies in the PCR interval is the candidate.
Offer_Last(l, i) ==
  IF i.start.resolved THEN [l EXCEPT !.straddle = {i}] ELSE [l EXCEPT !.inner = {i}]

Offer(l, i) ==
  IF i.start.resolved THEN [l EXCEPT !.straddle = {i}]
  ELSE IF \A j \in l.inner : Span(i) > Span(j) THEN [l EXCEPT !.inner = {i}] ELSE l

Consider(best, candidates) ==
  IF candidates # {} /\ \A i \in candidates, j \in best : Ms(i) > Ms(j) THEN candidates ELSE best

SettleLongest(clock, pcr, l) ==
  LET straddle == ResolveAll(clock, pcr, l.straddle)
      inner    == ResolveAll(clock, pcr, l.inner)
      open(is) == IF pcr.finished THEN {} ELSE {i \in is : ~Known(i)}
      known(is) == {i \in is : Known(i)}
  IN [best     |-> Consider(Consider(l.best, known(straddle)), known(inner)),
      straddle |-> open(straddle), inner |-> open(inner)]

-------------------------------------------------------------------------------
(* pidPackets: what is kept of a PID.                                        *)

FirstPacket(now) ==
  [packets |-> 1, first |-> now, last |-> now, worst |-> {}, restarted |-> FALSE, queued |-> TRUE]

\* Mutant: a gap across a layout change is measured.
NextPacket_Across(p, now) ==
  LET gap == [start |-> p.last, end |-> now]
  IN [p EXCEPT !.packets = @ + 1, !.last = now, !.queued = TRUE, !.restarted = FALSE,
        !.worst = IF \A w \in p.worst : Span(gap) > Span(w) THEN {gap} ELSE @]

\* Of equal gaps the first is kept, unless it starts before the first PCR.
NextPacket(p, now) ==
  LET gap == [start |-> p.last, end |-> now]
      worse == \A w \in p.worst : \/ Span(gap) > Span(w)
                                  \/ Span(gap) = Span(w) /\ w.start.seq = 0 /\ p.last.seq > 0
  IN [p EXCEPT !.packets = @ + 1, !.last = now, !.queued = TRUE, !.restarted = FALSE,
        !.worst = IF ~p.restarted /\ worse THEN {gap} ELSE @]

ObservePacketGap(pids, pid, now) ==
  [q \in DOMAIN pids \cup {pid} |->
     IF q # pid THEN pids[q]
     ELSE IF pid \in DOMAIN pids THEN NextPacket(pids[pid], now) ELSE FirstPacket(now)]

\* restart: the next packet of each of these PIDs starts a new chain.
Restart(pids, changed) ==
  [q \in DOMAIN pids |-> IF q \in changed THEN [pids[q] EXCEPT !.restarted = TRUE] ELSE pids[q]]

SettlePid(clock, pcr, p) ==
  IF ~p.queued THEN p
  ELSE [p EXCEPT !.queued = FALSE,
          !.first = Resolve(clock, pcr, @), !.last = Resolve(clock, pcr, @),
          !.worst = ResolveAll(clock, pcr, @)]

GapStatus(p) == IF p.worst = {} THEN "insufficient_data" ELSE "info"
===============================================================================
