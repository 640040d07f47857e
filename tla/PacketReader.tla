----------------------------- MODULE PacketReader -----------------------------
(***************************************************************************)
(* packetReader (tsparser/sync.go) and SyncCheck (internal/analysis/sync.go): *)
(* reading packets, finding a new alignment after a loss, and the incomplete *)
(* packet at the end.  Each action is one turn of a loop of next or resync.  *)
(*                                                                         *)
(* A byte of the input is whether it is a sync byte.  What a buffer holds is *)
(* the sequence of the input offsets its bytes came from.                    *)
(***************************************************************************)
EXTENDS Integers, Sequences, FiniteSets, FiniteSetsExt

CONSTANTS
  PacketSize, SyncOffset,
  ResyncSyncBytes, MaxResyncScanBytes, ResyncBufferSize,
  Inputs,         \* input lengths
  RangeEnds       \* --limit, 0 for none

\* The lookahead that confirms an alignment.
Window == SyncOffset + (ResyncSyncBytes - 1) * PacketSize + 1

ASSUME ReaderAssumption ==
  /\ PacketSize \in Nat \ {0} /\ SyncOffset \in 0 .. PacketSize - 1
  /\ ResyncSyncBytes \in Nat \ {0} /\ MaxResyncScanBytes \in Nat \ {0}
  /\ ResyncBufferSize \in Nat
  /\ ResyncBufferSize >= Window /\ ResyncBufferSize >= PacketSize
  /\ Inputs \subseteq Nat /\ RangeEnds \subseteq Nat

VARIABLES
  input,      \* the bytes
  end,        \* packetReader.end
  src,        \* how far the input was read
  pos, held,  \* packetReader.pos and buf[head:tail]
  phase,      \* "scan" in next, "resync" in resync, "done" after the scan
  loss, lost,
  check,      \* SyncCheck
  served      \* the packets the scan was given

readerVars == <<input, end, src, pos, held, phase, loss, lost, check, served>>

NewCheck ==
  [losses |-> 0, firstLoss |-> 0, resyncs |-> 0, firstResync |-> 0, skipped |-> 0,
   maxSkipped |-> 0, maxSkippedAt |-> 0, unrecovered |-> "none", trailing |-> 0]

Init ==
  /\ \E n \in Inputs : input \in [0 .. n - 1 -> BOOLEAN]
  /\ end \in RangeEnds
  /\ src = 0 /\ pos = 0 /\ held = <<>>
  /\ phase = "scan" /\ loss = 0 /\ lost = FALSE
  /\ check = NewCheck
  /\ served = {}

Length == Cardinality(DOMAIN input)

\* fill: up to size bytes, the buffered ones first.  The rest stays buffered.
Taken(size) ==
  LET buffered == Min({Len(held), size})
      read     == Min({size - buffered, Length - src})
  IN SubSeq(held, 1, buffered) \o [i \in 1 .. read |-> src + i - 1]

Fill(size) ==
  /\ held' = SubSeq(held, size + 1, Len(held))
  /\ src' = src + Len(Taken(size)) - Min({Len(held), size})

InRange == end = 0 \/ pos + PacketSize <= end

\* next: an aligned packet.
ServePacket ==
  /\ phase = "scan" /\ InRange
  /\ Len(Taken(PacketSize)) = PacketSize
  /\ input[Taken(PacketSize)[SyncOffset + 1]]
  /\ Fill(PacketSize)
  /\ served' = served \cup {Taken(PacketSize)}
  /\ pos' = pos + PacketSize
  /\ UNCHANGED <<input, end, phase, loss, lost, check>>

ObserveLoss(c, at) ==
  [c EXCEPT !.losses = @ + 1, !.firstLoss = IF c.losses = 0 THEN at ELSE @]

\* Mutant: the bytes still buffered at a second loss are dropped.
PutBack_DropsPending(packet, rest) == SubSeq(packet, 2, PacketSize)

\* resync puts the packet back without its first byte, before what is still
\* buffered; copy drops what is beyond the buffer.
PutBack(packet, rest) ==
  LET all == SubSeq(packet, 2, PacketSize) \o rest
  IN SubSeq(all, 1, Min({Len(all), ResyncBufferSize}))

\* next and the start of resync: a packet without its sync byte.
LoseSync ==
  LET packet == Taken(PacketSize)
      rest   == SubSeq(held, PacketSize + 1, Len(held))
  IN
  /\ phase = "scan" /\ InRange
  /\ Len(packet) = PacketSize
  /\ ~input[packet[SyncOffset + 1]]
  /\ held' = PutBack(packet, rest)
  /\ src' = src + Len(packet) - Min({Len(held), PacketSize})
  /\ phase' = "resync" /\ loss' = pos /\ pos' = pos + 1
  /\ check' = ObserveLoss(check, pos)
  /\ UNCHANGED <<input, end, lost, served>>

\* The condition of the search loop, and whether it needs more bytes.
Searching == phase = "resync" /\ pos - loss <= MaxResyncScanBytes
NeedsMore == Len(held) < Window

\* readMore: how many bytes may be read.
Room ==
  LET room == ResyncBufferSize - Len(held)
  IN IF end > 0 THEN Min({room, Max({end - (pos + Len(held)), 0})}) ELSE room

More == Min({Room, Length - src})

ReadMore ==
  /\ Searching /\ NeedsMore /\ More > 0
  /\ held' = held \o [i \in 1 .. More |-> src + i - 1]
  /\ src' = src + More
  /\ UNCHANGED <<input, end, pos, phase, loss, lost, check, served>>

\* aligned: enough packets in a row start with a sync byte.
Aligned ==
  \A k \in 0 .. ResyncSyncBytes - 1 : input[held[SyncOffset + k * PacketSize + 1]]

ObserveResync(c, from, at) ==
  LET longer == at - from > c.maxSkipped IN
  [c EXCEPT !.resyncs = @ + 1, !.skipped = @ + (at - from),
            !.firstResync = IF c.resyncs = 0 THEN at ELSE @,
            !.maxSkipped = IF longer THEN at - from ELSE @,
            !.maxSkippedAt = IF longer THEN from ELSE @]

Resync ==
  /\ Searching /\ ~NeedsMore /\ Aligned
  /\ phase' = "scan"
  /\ check' = ObserveResync(check, loss, pos)
  /\ UNCHANGED <<input, end, src, pos, held, loss, lost, served>>

\* Mutant: the candidate is not left behind.
SkipByte_InPlace ==
  /\ Searching /\ ~NeedsMore /\ ~Aligned
  /\ UNCHANGED readerVars

SkipByte ==
  /\ Searching /\ ~NeedsMore /\ ~Aligned
  /\ held' = SubSeq(held, 2, Len(held)) /\ pos' = pos + 1
  /\ UNCHANGED <<input, end, src, phase, loss, lost, check, served>>

\* stop: the scan ends at the loss.
Stop(reason) ==
  /\ lost' = TRUE /\ pos' = loss /\ held' = <<>>
  /\ check' = [check EXCEPT !.unrecovered = reason]
  /\ phase' = "done"
  /\ UNCHANGED <<input, end, src, loss, served>>

StopWithoutMore ==
  /\ Searching /\ NeedsMore /\ More = 0
  /\ Stop(IF end > 0 /\ pos + Len(held) >= end THEN "range" ELSE "input")

StopAtLimit ==
  /\ phase = "resync" /\ ~Searching
  /\ Stop("limit")

\* The input ends within a packet, or before one.
EndOfInput ==
  /\ phase = "scan" /\ InRange
  /\ Len(Taken(PacketSize)) < PacketSize
  /\ check' = [check EXCEPT !.trailing = Len(Taken(PacketSize))]
  /\ Fill(PacketSize)
  /\ phase' = "done"
  /\ UNCHANGED <<input, end, pos, loss, lost, served>>

\* Mutant: the bytes are looked for in the input alone.
TrailingAtEOF_IgnoresBuffer(rest) ==
  LET got == Min({rest, Length - src}) IN
  IF rest > 0 /\ src + rest >= Length THEN got ELSE 0

\* trailingAtEOF: the range ends rest bytes after the last packet; they are
\* reported when the input ends there as well.
TrailingAtEOF(rest) ==
  IF rest > 0 /\ Len(Taken(rest + 1)) <= rest THEN Len(Taken(rest)) ELSE 0

EndOfRange ==
  /\ phase = "scan" /\ ~InRange
  /\ check' = [check EXCEPT !.trailing = TrailingAtEOF(end - pos)]
  /\ phase' = "done"
  /\ UNCHANGED <<input, end, src, pos, held, loss, lost, served>>

Next ==
  \/ ServePacket \/ LoseSync \/ EndOfInput \/ EndOfRange
  \/ ReadMore \/ Resync \/ SkipByte \/ StopWithoutMore \/ StopAtLimit

\* The scan reads on until it ends.
ReaderSpec == Init /\ [][Next]_readerVars /\ WF_readerVars(Next)

-------------------------------------------------------------------------------
TypeOK ==
  /\ \E n \in Inputs : input \in [0 .. n - 1 -> BOOLEAN]
  /\ end \in RangeEnds
  /\ src \in 0 .. Length /\ pos \in Nat /\ held \in Seq(DOMAIN input)
  /\ phase \in {"scan", "resync", "done"} /\ loss \in Nat /\ lost \in BOOLEAN
  /\ served \subseteq Seq(DOMAIN input)

\* What is buffered is what comes next, and the input goes on right after it:
\* putting a packet back, reading ahead and serving from the buffer neither lose
\* a byte nor repeat one, and the buffer is never too small.
BufferInStep ==
  phase # "done" =>
    /\ src = pos + Len(held)
    /\ \A i \in 1 .. Len(held) : held[i] = pos + i - 1
    /\ Len(held) <= ResyncBufferSize

-------------------------------------------------------------------------------
(* The input seen at once.                                                   *)

\* Where the bytes that may be read end.
Limit == IF end = 0 THEN Length ELSE Min({Length, end})

SyncAt(p) == input[p + SyncOffset]

AlignedAt(p) ==
  /\ p + Window <= Limit
  /\ \A k \in 0 .. ResyncSyncBytes - 1 : SyncAt(p + k * PacketSize)

Candidates(p) == {q \in p + 1 .. p + MaxResyncScanBytes : AlignedAt(q)}

\* The boundaries the scan comes to: after a packet the next one, after a loss
\* the first alignment near enough.
Boundaries ==
  LET after[p \in 0 .. Length] ==
        IF p + PacketSize > Limit THEN {p}
        ELSE IF SyncAt(p) THEN {p} \cup after[p + PacketSize]
        ELSE IF Candidates(p) = {} THEN {p} ELSE {p} \cup after[Min(Candidates(p))]
  IN after[0]

Complete(p) == p + PacketSize <= Limit

\* The scan serves the packets of the aligned boundaries, whole and once, and
\* nothing of what lies between a loss and the next alignment.
ServedAsDefined ==
  phase = "done" =>
    served = {[i \in 1 .. PacketSize |-> p + i - 1] :
                p \in {q \in Boundaries : Complete(q) /\ SyncAt(q)}}

\* The result: every loss, what each skipped, why the scan stopped, and the
\* incomplete packet, which is only one when the input ends there as well.
ResultAsDefined ==
  phase = "done" =>
    LET losses    == {p \in Boundaries : Complete(p) /\ ~SyncAt(p)}
        recovered == {p \in losses : Candidates(p) # {}}
        skip(p)   == Min(Candidates(p)) - p
        last      == Max(Boundaries)
    IN
    /\ check.losses = Cardinality(losses)
    /\ check.losses > 0 => check.firstLoss = Min(losses)
    /\ check.resyncs = Cardinality(recovered)
    /\ check.skipped = MapThenSumSet(skip, recovered)
    /\ check.resyncs > 0 =>
         /\ check.firstResync = Min(Candidates(Min(recovered)))
         /\ check.maxSkipped = Max({skip(p) : p \in recovered})
         /\ check.maxSkippedAt = Min({p \in recovered : skip(p) = check.maxSkipped})
    /\ lost = (losses # recovered)
    /\ pos = last
    /\ check.unrecovered = IF losses = recovered THEN "none"
                           ELSE IF last + MaxResyncScanBytes + Window <= Limit THEN "limit"
                           ELSE IF end > 0 /\ Length >= end THEN "range" ELSE "input"
    /\ check.trailing = IF Complete(last) \/ Length > Limit THEN 0 ELSE Length - last

ScanAsDefined == ServedAsDefined /\ ResultAsDefined

\* The scan comes to an end, whatever the losses.
ScanEnds == <>(phase = "done")
===============================================================================
