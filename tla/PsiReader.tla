------------------------------ MODULE PsiReader -------------------------------
(***************************************************************************)
(* psiSectionReader of tsparser/psi_section.go: PSI sections from the        *)
(* packets of one PID.                                                     *)
(*                                                                         *)
(* The sender puts one section after another into the packets; a section    *)
(* may span packets and a packet hold several.  On the way packets are      *)
(* lost, repeated, or marked as damaged or scrambled.  A byte is known by    *)
(* the section it belongs to and its place in it.                           *)
(***************************************************************************)
EXTENDS Integers, SequencesExt, FiniteSetsExt

CONSTANTS
  CounterModulus,  \* continuity_counter wraps; 16 in a stream
  HeaderSize,      \* bytes that hold section_length; 3 in a stream
  PayloadSize,     \* bytes of a packet's payload
  Sizes,           \* sizes of the sections
  MaxSections,     \* bound on the sections sent
  MaxPackets       \* bound on the packets of a file after which no empty one is sent

ASSUME ReaderAssumption ==
  /\ CounterModulus \in Nat /\ CounterModulus > 2
  /\ HeaderSize \in Nat \ {0} /\ PayloadSize \in Nat /\ PayloadSize > 1
  /\ Sizes \subseteq {n \in Nat : n >= HeaderSize}
  /\ MaxSections \in Nat /\ MaxPackets \in Nat

VARIABLES
  sizes,    \* the size of each section
  sending,  \* sections the sender has begun
  rest,     \* bytes of the last one that are still to be sent
  cc,       \* continuity_counter of the last packet with a payload
  missed,   \* packets lost in a row
  pos,      \* packets of the file, which number their offsets
  arrived,  \* the packets the last step put there
  reader,   \* psiSectionReader
  out,      \* sections handed on: their bytes and offsets
  begun,    \* where the file has the first byte of each section
  hit       \* sections of which a packet was lost or damaged

readerVars == <<sizes, sending, rest, cc, missed, pos, arrived, reader, out, begun, hit>>

Stuffing == <<0, 0>>

Bytes(id) == [i \in 1 .. sizes[id] |-> <<id, i>>]

IdsOf(data) == {data[i][1] : i \in DOMAIN data} \ {0}

-------------------------------------------------------------------------------
(* psiSectionReader.                                                         *)

Idle(r) == [r EXCEPT !.collecting = FALSE, !.buf = <<>>, !.start = 0]

\* psiSectionSize: the length is in the last byte of the header.  Stuffing read as
\* a length is more than any section.
Complete(data) ==
  /\ Len(data) >= HeaderSize
  /\ data[HeaderSize] # Stuffing
  /\ Len(data) >= sizes[data[HeaderSize][1]]

Section(data, at) == [data |-> SubSeq(data, 1, sizes[data[HeaderSize][1]]), at |-> at]

\* The bytes that continue the section in progress, which ends with them or,
\* when a new section starts after them, is discarded.
Continue(r, data, ends) ==
  LET all == r.buf \o data IN
  IF ~r.collecting THEN [reader |-> r, sections |-> <<>>]
  ELSE IF Complete(all) THEN [reader |-> Idle(r), sections |-> <<Section(all, r.start)>>]
  ELSE [reader |-> IF ends THEN Idle(r) ELSE [r EXCEPT !.buf = all], sections |-> <<>>]

\* Mutant: what does not hold a whole section header is taken for stuffing.
Begin_NeedsHeader(r, data, at) ==
  LET n == Len(data)
      from[i \in 1 .. n + 1] ==
        LET left == SubSeq(data, i, n) IN
        IF i > n \/ left[1] = Stuffing \/ Len(left) < HeaderSize THEN [reader |-> r, sections |-> <<>>]
        ELSE IF ~Complete(left)
          THEN [reader |-> [r EXCEPT !.collecting = TRUE, !.buf = left, !.start = at],
                sections |-> <<>>]
        ELSE LET s == Section(left, at)
                 later == from[i + Len(s.data)]
             IN [later EXCEPT !.sections = <<s>> \o @]
  IN from[1]

\* The sections that start in a packet follow each other up to the stuffing; the
\* last may go on in the next packet.
Begin(r, data, at) ==
  LET n == Len(data)
      from[i \in 1 .. n + 1] ==
        LET left == SubSeq(data, i, n) IN
        IF i > n \/ left[1] = Stuffing THEN [reader |-> r, sections |-> <<>>]
        ELSE IF ~Complete(left)
          THEN [reader |-> [r EXCEPT !.collecting = TRUE, !.buf = left, !.start = at],
                sections |-> <<>>]
        ELSE LET s == Section(left, at)
                 later == from[i + Len(s.data)]
             IN [later EXCEPT !.sections = <<s>> \o @]
  IN from[1]

\* Mutant: a gap in the counter does not discard the section in progress.
Counted_NoGap(r, packet) == [r EXCEPT !.lastCC = packet.cc]

\* A jump of the counter discards the section in progress.
Counted(r, packet) ==
  LET jumps == r.collecting /\ packet.cc # (r.lastCC + 1) % CounterModulus
  IN [(IF jumps THEN Idle(r) ELSE r) EXCEPT !.lastCC = packet.cc]

\* push.
Push(r, packet, at) ==
  LET data    == packet.data
      counted == Counted(r, packet)
      ended   == Continue(counted, SubSeq(data, 1, packet.pointer), TRUE)
      begins  == Begin(ended.reader, SubSeq(data, packet.pointer + 1, Len(data)), at)
  IN IF packet.error THEN [reader |-> Idle(r), sections |-> <<>>]
     ELSE IF data = <<>> THEN [reader |-> r, sections |-> <<>>]
     ELSE IF packet.scrambled THEN [reader |-> Idle(r), sections |-> <<>>]
     ELSE IF r.collecting /\ packet.cc = r.lastCC THEN [reader |-> r, sections |-> <<>>]
     ELSE IF ~packet.unitStart THEN Continue(counted, data, FALSE)
     ELSE IF packet.pointer > Len(data) THEN [reader |-> Idle(counted), sections |-> <<>>]
     ELSE [begins EXCEPT !.sections = ended.sections \o @]

-------------------------------------------------------------------------------
(* The sender, and what happens to its packets.                              *)

Begins(ids) == FlattenSeq([k \in DOMAIN ids |-> Bytes(ids[k])])

\* The packet that carries the next bytes, with the next n sections starting in it.
NextIds(n) == [k \in 1 .. n |-> sending + k]

Carried(n) ==
  LET room  == IF n = 0 THEN PayloadSize ELSE PayloadSize - 1
      bytes == rest \o Begins(NextIds(n))
  IN [data |-> [i \in 1 .. room |-> IF i <= Len(bytes) THEN bytes[i] ELSE Stuffing],
      left |-> SubSeq(bytes, room + 1, Len(bytes))]

\* There is something to send, and the first byte of each new section fits.
Fits(n) ==
  IF n = 0 THEN rest # <<>>
  ELSE /\ sending + n <= MaxSections
       /\ Len(rest \o Begins(NextIds(n - 1))) < PayloadSize - 1

\* A packet arrives, once or twice; only the PCR of a copy may differ.
Arrives(packet, copies) ==
  LET once  == Push(reader, packet, pos + 1)
      again == Push(once.reader, packet, pos + 2)
  IN /\ reader' = IF copies = 2 THEN again.reader ELSE once.reader
     /\ out' = out \o once.sections \o (IF copies = 2 THEN again.sections ELSE <<>>)
     /\ pos' = pos + copies
     /\ arrived' = [k \in 1 .. copies |-> [packet EXCEPT !.pcr = pos + k]]
     /\ LET first == {packet.data[i][1] : i \in {j \in DOMAIN packet.data : packet.data[j][2] = 1}}
        IN begun' = [id \in DOMAIN begun |->
                       IF id \in first THEN pos + 1 .. pos + copies ELSE begun[id]]

NextCC == (cc + 1) % CounterModulus

Sends(n) ==
  /\ Fits(n)
  /\ sending' = sending + n
  /\ rest' = Carried(n).left
  /\ UNCHANGED sizes

Packet(n) ==
  [error |-> FALSE, scrambled |-> FALSE, cc |-> cc', unitStart |-> n > 0,
   discontinuity |-> FALSE, pcr |-> 0,
   pointer |-> IF n > 0 THEN Len(rest) ELSE 0, data |-> Carried(n).data]

SendWhole(n) ==
  /\ Sends(n) /\ cc' = NextCC
  /\ \E copies \in {1, 2} : Arrives(Packet(n), copies)
  /\ missed' = 0
  /\ UNCHANGED hit

\* With discontinuity_indicator, the counter goes on from anywhere, except where it
\* looks unbroken or like that of a repeated packet; CRC32 is for those.
SendAnnounced(n) ==
  /\ Sends(n)
  /\ cc' \in 0 .. CounterModulus - 1 \ {NextCC, reader.lastCC, (reader.lastCC + 1) % CounterModulus}
  /\ Arrives([Packet(n) EXCEPT !.discontinuity = TRUE], 1)
  /\ missed' = 0
  /\ hit' = hit \cup IdsOf(rest)

\* Marked as damaged, scrambled, or with a pointer_field that points nowhere.
SendUnusable(n) ==
  /\ Sends(n) /\ cc' = NextCC
  /\ \/ Arrives([Packet(n) EXCEPT !.error = TRUE], 1)
     \/ Arrives([Packet(n) EXCEPT !.scrambled = TRUE], 1)
     \/ n > 0 /\ Arrives([Packet(n) EXCEPT !.pointer = PayloadSize], 1)
  /\ missed' = 0
  /\ hit' = hit \cup IdsOf(Carried(n).data)

\* Fewer packets in a row are lost than make the counter look unbroken, or like
\* that of a repeated packet; CRC32 is for those.
SendLost(n) ==
  /\ missed + 2 < CounterModulus
  /\ Sends(n) /\ cc' = NextCC
  /\ missed' = missed + 1
  /\ hit' = hit \cup IdsOf(Carried(n).data)
  /\ arrived' = <<>>
  /\ UNCHANGED <<pos, reader, out, begun>>

\* A packet without a payload, which may be marked as damaged.
SendEmpty(error) ==
  /\ pos < MaxPackets
  /\ Arrives([error |-> error, scrambled |-> FALSE, cc |-> cc, unitStart |-> FALSE,
              discontinuity |-> FALSE, pcr |-> 0,
              pointer |-> 0, data |-> <<>>], 1)
  /\ hit' = IF error THEN hit \cup IdsOf(rest) ELSE hit
  /\ UNCHANGED <<sizes, sending, rest, cc, missed>>

ReaderInit ==
  /\ sizes \in [1 .. MaxSections -> Sizes]
  /\ sending = 0
  /\ rest = <<>>
  /\ cc = 0
  /\ missed = 0
  /\ pos = 0
  /\ arrived = <<>>
  /\ reader = [collecting |-> FALSE, buf |-> <<>>, start |-> 0, lastCC |-> 0]
  /\ out = <<>>
  /\ begun = [id \in 1 .. MaxSections |-> {}]
  /\ hit = {}

ReaderNext ==
  \/ \E n \in 0 .. PayloadSize : SendWhole(n) \/ SendAnnounced(n) \/ SendUnusable(n) \/ SendLost(n)
  \/ \E error \in BOOLEAN : SendEmpty(error)

ReaderSpec == ReaderInit /\ [][ReaderNext]_readerVars

-------------------------------------------------------------------------------
(* Properties.                                                               *)

\* Whatever is lost, repeated or damaged, the reader hands on only sections as
\* they were sent, never bytes of two, each with an offset at which the file
\* has its first byte.  Offsets never go back, and the sections that begin at one
\* come in the order they were sent; a repeated packet hands on its whole
\* sections again.
SectionsAsSent ==
  /\ \A i \in DOMAIN out :
       LET id == out[i].data[1][1] IN out[i].data = Bytes(id) /\ out[i].at \in begun[id]
  /\ \A i, j \in DOMAIN out : i < j =>
       \/ out[i].at < out[j].at
       \/ out[i].at = out[j].at /\ out[i].data[1][1] < out[j].data[1][1]

\* Every section whose packets all arrived is handed on with its last byte, even
\* when it begins or ends within a packet of a section that was cut off, its
\* header is split, or its packets were repeated.
NoSectionMissed ==
  \A id \in 1 .. sending :
    id \notin hit /\ id \notin IdsOf(rest) =>
      \E i \in DOMAIN out : out[i].data = Bytes(id)

\* The reader hands on the sections that arrived and nothing else.
SectionsExactly == SectionsAsSent /\ NoSectionMissed
===============================================================================
