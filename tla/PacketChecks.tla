----------------------------- MODULE PacketChecks ------------------------------
(***************************************************************************)
(* The checks every packet passes before its payload is read, on a PID that  *)
(* carries PSI: continuityTracker of tsparser/continuity_counter.go and       *)
(* transportTrustSummary of transport_trust.go, with the counters of          *)
(* internal/analysis.  Together with the section reader behind them they tell *)
(* what of a stream was lost.                                                *)
(***************************************************************************)
EXTENDS PsiReader

VARIABLES
  previous,   \* continuityState of the PID, none before its first packet
  event,      \* whether the last step counted a continuity error
  excluded,   \* whether the last step left out data of an untrusted packet
  behind,     \* whether packets were lost since the last one of the file
  broken,     \* whether the counter broke since the last payload the reader used
  open,       \* sections begun and not over of whose loss nothing is reported
  silent      \* sections that were lost and nothing is reported

\* The last four are for the properties only.
packetVars == <<previous, event, excluded, behind, broken, open, silent>>

-------------------------------------------------------------------------------
(* continuityTracker.                                                        *)

\* Mutant: the copy of a packet must have the same PCR.
Normalized_KeepsPcr(packet) == packet

\* An exact copy may refresh the PCR; the adaptation field of a damaged packet is
\* not parsed.
Normalized(packet) == IF packet.error THEN packet ELSE [packet EXCEPT !.pcr = 0]

HasPayload(packet) == packet.data # <<>>

Expected(last, packet) ==
  IF HasPayload(packet) THEN (last.cc + 1) % CounterModulus ELSE last.cc

\* Check: a packet that announces a discontinuity is no error, nor is a copy.
BreaksContinuity(last, packet) ==
  /\ ~packet.discontinuity
  /\ ~(HasPayload(packet) /\ Normalized(packet) = last)
  /\ packet.cc # Expected(last, packet)

-------------------------------------------------------------------------------
(* transportTrustSummary.                                                    *)

\* Mutant: a damaged packet without a payload excludes nothing.
Excluded_NeedsPayload(packet) == HasPayload(packet)

\* observe: the PID is read, so all a damaged packet has is left out, and the
\* payload a scrambled one has.
Excluded(packet) == packet.error \/ HasPayload(packet)

\* payloadUntrusted.
Untrusted(packet) == packet.error \/ (packet.scrambled /\ HasPayload(packet))

-------------------------------------------------------------------------------
(* scanPrograms: what happens to the packets of a step.                       *)

\* The continuity check, then the trust check.  The first packet of a PID is never
\* an error.
Checked(c, packet) ==
  [previous |-> <<Normalized(packet)>>,
   event    |-> c.event \/ (c.previous # <<>> /\ BreaksContinuity(c.previous[1], packet)),
   excluded |-> c.excluded \/ ((packet.error \/ packet.scrambled) /\ Excluded(packet))]

Unannounced == \A k \in DOMAIN arrived' : ~arrived'[k].discontinuity

\* What the report tells of the packets of a step.
Told ==
  \/ event' \/ excluded' \/ ~Unannounced
  \/ \E k \in DOMAIN arrived' : arrived'[k].pointer > Len(arrived'[k].data)

ReadsPayload ==
  \E k \in DOMAIN arrived' : ~Untrusted(arrived'[k]) /\ HasPayload(arrived'[k])

\* The section reader discards what it has because of the counter.
Jumps ==
  /\ ReadsPayload
  /\ reader.collecting
  /\ arrived'[1].cc \notin {reader.lastCC, (reader.lastCC + 1) % CounterModulus}

\* A section lives until the packet with its last byte or, if that is lost, the next
\* packet of the file.  What is lost before the first one cannot be told.
Lived ==
  LET living == open \cup (IF pos > 0 THEN sending + 1 .. sending' ELSE {})
      over   == living \ IdsOf(rest')
      handed == {out'[i].data[1][1] : i \in DOMAIN out'}
  IN IF arrived' = <<>> THEN open' = living /\ UNCHANGED silent
     ELSE IF Told THEN open' = {} /\ UNCHANGED silent
     ELSE open' = living \ over /\ silent' = silent \cup (over \ handed)

ChecksInit ==
  /\ ReaderInit
  /\ previous = <<>>
  /\ event = FALSE /\ excluded = FALSE
  /\ behind = FALSE /\ broken = FALSE
  /\ open = {} /\ silent = {}

ChecksNext ==
  /\ ReaderNext
  /\ LET checked == FoldLeft(Checked, [previous |-> previous, event |-> FALSE, excluded |-> FALSE],
                             arrived')
     IN previous' = checked.previous /\ event' = checked.event /\ excluded' = checked.excluded
  /\ behind' = (arrived' = <<>> /\ pos > 0)
  /\ broken' = ((broken \/ event' \/ ~Unannounced) /\ ~ReadsPayload)
  /\ Lived

ChecksSpec == ChecksInit /\ [][ChecksNext]_<<readerVars, packetVars>>

-------------------------------------------------------------------------------
(* Properties.                                                               *)

\* A continuity error is counted for every gap in the stream that was not
\* announced, and for nothing else: not for copies, packets without a payload or
\* announced jumps.  psi_tracking.go:206: a jump for which the section reader
\* discards a section "is not reported again: the continuity summary already counts
\* it", unless it was announced.
ContinuityAsDefined ==
  [][/\ event' <=> arrived' # <<>> /\ behind /\ Unannounced
     /\ Jumps => broken \/ event' \/ ~Unannounced]_<<readerVars, packetVars>>

\* When a section is not handed on, something in the report tells of it: from its
\* first packet on, a continuity error, an announced jump, a packet whose data was
\* excluded, or a warning.
NothingLostSilently == silent = {}
===============================================================================
