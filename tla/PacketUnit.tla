------------------------------ MODULE PacketUnit -------------------------------
(***************************************************************************)
(* The unit of a packet in the packet detail (readPacketDetail and findUnit,  *)
(* tsparser/packet_detail.go): the PES packet or the first section that the    *)
(* packet belongs to, and the packets of the scan range that carry it.        *)
(*                                                                         *)
(* A packet of the file has its PID, whether it can be parsed, whether a unit  *)
(* starts in it, the length of its payload and, when one does, the first      *)
(* bytes of that unit.                                                       *)
(***************************************************************************)
EXTENDS PesHeader

CONSTANTS
  UnitPacketSize,
  UnitFiles,     \* [packets, phase, rest]: rest bytes of a packet at the end
  UnitRanges,    \* [offset, limit], limit 0 for none
  NullPid

ASSUME UnitAssumption ==
  /\ UnitPacketSize \in Nat \ {0}
  /\ \A f \in UnitFiles :
       /\ f.phase \in 0 .. UnitPacketSize - 1 /\ f.rest \in 0 .. UnitPacketSize - 1
       /\ Len(f.packets) \in Nat
       /\ \A i \in 1 .. Len(f.packets) :
            LET p == f.packets[i] IN
            /\ p.length \in Nat /\ DOMAIN p.bytes \subseteq Nat
            /\ \A k \in DOMAIN p.bytes : p.bytes[k] \in 0 .. 255
  /\ \A r \in UnitRanges : r.offset \in Nat /\ r.limit \in Nat

VARIABLES
  request, \* the file and the scan range
  asked,   \* the offset asked for
  unit     \* the unit of the document, or why there is none

unitVars == <<request, asked, unit>>

Nowhere == -1

FileSize == request.phase + UnitPacketSize * Len(request.packets) + request.rest

\* alignUp.
AlignedUp(offset) ==
  LET rem == (offset - request.phase) % UnitPacketSize
  IN IF rem = 0 THEN offset ELSE offset + UnitPacketSize - rem

RangeStart == AlignedUp(request.offset)
RangeEnd ==
  IF request.limit > 0 THEN Min({FileSize, request.offset + request.limit}) ELSE FileSize

\* readPacket and parsePacket: a complete packet that can be parsed.
Readable(offset) == offset >= 0 /\ offset + UnitPacketSize <= FileSize /\ request.packets[(offset - request.phase) \div UnitPacketSize + 1].valid

PacketAt(offset) == request.packets[(offset - request.phase) \div UnitPacketSize + 1]

-------------------------------------------------------------------------------
(* findUnit.                                                                 *)

\* same: a packet of the PID that has a payload.
Same(offset, pid) ==
  Readable(offset) /\ PacketAt(offset).pid = pid /\ PacketAt(offset).length > 0

\* Mutant: the search goes on to the start of the file.
Backward_PastRange(from, pid) ==
  LET back[o \in Int] ==
        IF o < 0 THEN <<>>
        ELSE IF ~Same(o, pid) THEN back[o - UnitPacketSize]
        ELSE IF PacketAt(o).start THEN <<o>>
        ELSE Append(back[o - UnitPacketSize], o)
  IN back[from]

\* The packets of the PID from one on back to the start of a unit.
Backward(from, pid) ==
  LET back[o \in Int] ==
        IF o < RangeStart THEN <<>>
        ELSE IF ~Same(o, pid) THEN back[o - UnitPacketSize]
        ELSE IF PacketAt(o).start THEN <<o>>
        ELSE Append(back[o - UnitPacketSize], o)
  IN back[from]

\* The packets of the PID from one on up to the start of the next unit.
Forward(from, pid) ==
  LET ahead[o \in Int] ==
        IF o + UnitPacketSize > RangeEnd THEN <<>>
        ELSE IF ~Same(o, pid) THEN ahead[o + UnitPacketSize]
        ELSE IF PacketAt(o).start THEN <<>>
        ELSE <<o>> \o ahead[o + UnitPacketSize]
  IN ahead[from]

NoUnit(kind) ==
  [kind |-> kind, first |-> Nowhere, position |-> 0, count |-> 0, previous |-> Nowhere,
   next |-> Nowhere, header |-> <<>>, timestamps |-> NoFields]

\* A payload that begins as a PES packet does.
StartsPes(p) == p.length >= 3 /\ HasPrefix(p.bytes)

FindUnit(offset) ==
  LET pid     == PacketAt(offset).pid
      before  == IF PacketAt(offset).start THEN <<>> ELSE Backward(offset - UnitPacketSize, pid)
      after   == Forward(offset + UnitPacketSize, pid)
      members == before \o <<offset>> \o after
      found   == PacketAt(members[1]).start
      first   == PacketAt(members[1])
      carried == <<members[1]>> \o Forward(members[1] + UnitPacketSize, pid)
      gathered == Gathered(first.bytes, [i \in DOMAIN carried |-> PacketAt(carried[i]).length])
      isPes   == found /\ StartsPes(first)
  IN IF pid = NullPid \/ PacketAt(offset).length = 0 THEN NoUnit("none")
     ELSE [kind     |-> IF isPes THEN "pes" ELSE IF found THEN "psi" ELSE "unknown",
           first    |-> IF found THEN members[1] ELSE Nowhere,
           position |-> Len(before) + 1,
           count    |-> Len(members),
           previous |-> IF before = <<>> THEN Nowhere ELSE Last(before),
           next     |-> IF after = <<>> THEN Nowhere ELSE Head(after),
           header   |-> IF isPes THEN SubSeq(carried, 1, gathered.count) ELSE <<>>,
           timestamps |-> IF isPes THEN UnitTimestamps(first.bytes, gathered.bytes) ELSE NoFields]

-------------------------------------------------------------------------------
UnitInit ==
  /\ \E f \in UnitFiles, r \in UnitRanges :
       request = [packets |-> f.packets, phase |-> f.phase, rest |-> f.rest,
                  offset |-> r.offset, limit |-> r.limit]
  /\ asked = Nowhere /\ unit = NoUnit("not asked")

\* readPacketDetail.
AskDetail(offset) ==
  /\ asked' = offset
  /\ unit' = IF /\ AlignedUp(offset) = offset /\ offset \in RangeStart .. RangeEnd - 1
                /\ Readable(offset)
               THEN FindUnit(offset) ELSE NoUnit("error")
  /\ UNCHANGED request

UnitNext == asked = Nowhere /\ \E offset \in 0 .. FileSize - 1 : AskDetail(offset)

UnitSpec == UnitInit /\ [][UnitNext]_unitVars

-------------------------------------------------------------------------------
(* The packets of the range, seen at once.                                   *)

Carriers(pid) ==
  {o \in RangeStart .. RangeEnd - UnitPacketSize :
     (o - request.phase) % UnitPacketSize = 0 /\ Same(o, pid)}

StartOf(o, pid) == Max({s \in Carriers(pid) : s <= o /\ PacketAt(s).start} \cup {Nowhere})

Shows == asked # Nowhere /\ unit.kind \in {"pes", "psi", "unknown"}

\* A packet that begins in the range and ends after it may be asked for, but the search
\* from another packet leaves it out.
CutByRange(o) == o + UnitPacketSize > RangeEnd

\* Every packet of a unit that lies whole in the range names the same first packet and the
\* same number of packets, has the position it has among them, and leads to the ones next
\* to it; packets of other PIDs, without a payload or that cannot be parsed are never among
\* them.  The packet that the end of the range cuts counts itself when it is asked for, and
\* only then.
UnitAsCarried ==
  Shows =>
    LET pid      == PacketAt(asked).pid
        carriers == Carriers(pid) \cup {o \in {asked} : CutByRange(o)}
        start    == IF PacketAt(asked).start THEN asked ELSE StartOf(asked, pid)
        members  == {o \in carriers : start = IF PacketAt(o).start THEN o ELSE StartOf(o, pid)}
        below    == {o \in members : o < asked}
        above    == {o \in members : o > asked}
    IN
    /\ unit.first = start
    /\ unit.count = Cardinality(members) /\ unit.position = Cardinality(below) + 1
    /\ unit.previous = Max(below \cup {Nowhere})
    /\ unit.next = IF above = {} THEN Nowhere ELSE Min(above)
    /\ unit.kind = "unknown" <=> start = Nowhere

\* The timestamps of a unit are those the analysis reads from the same packets, and
\* come from the packets listed as those of its header.
UnitAsAnalyzed ==
  Shows /\ unit.kind = "pes" =>
    LET pid     == PacketAt(asked).pid
        first   == PacketAt(unit.first)
        carried == {unit.first} \cup {o \in Carriers(pid) : StartOf(o, pid) = unit.first}
        lengths == [i \in 1 .. Cardinality(carried) |->
                      PacketAt(CHOOSE o \in carried : Cardinality({c \in carried : c <= o}) = i).length]
        pesOf   == Collected(NewPes, [bytes |-> first.bytes, payloads |-> lengths])
    IN pesOf.problem = "none" =>
         /\ DOMAIN unit.timestamps = {"PTS", "DTS"} \cap DOMAIN pesOf.fields
         /\ \A t \in DOMAIN unit.timestamps : unit.timestamps[t] = pesOf.fields[t]
         /\ ToSet(unit.header) \subseteq carried

UnitsAgree == UnitAsCarried /\ UnitAsAnalyzed
===============================================================================
