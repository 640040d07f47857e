----------------------------- MODULE TableSyntax -------------------------------
(***************************************************************************)
(* The sections of a PAT and a PMT, which are decoded twice: by Pat and Pmt   *)
(* (tsparser/pat.go, pmt.go, descriptor.go) from whole sections, for the      *)
(* analysis, and by decodePsiSection (packet_detail.go) from what one packet   *)
(* holds of the first section that begins in it.  The packet list reads the   *)
(* headers of all that begin in it (packetSectionStarts, packets.go).         *)
(*                                                                         *)
(* A section is its bytes, section_length among them, from 0 on.             *)
(***************************************************************************)
EXTENDS PacketBits, TLC

CONSTANTS
  Sections,       \* sections as the section reader delivers them, with a valid CRC32
  NextSections,   \* those that may follow another one
  Rooms           \* how much of the packet is left where a section begins

PatId == 0
PmtId == 2

SectionSize(s) == 3 + (Byte(s, 1) % 16) * 256 + Byte(s, 2)

ASSUME TableAssumption ==
  /\ Rooms \subseteq Nat /\ NextSections \subseteq Sections
  /\ \A s \in Sections : DOMAIN s \subseteq 0 .. SectionSize(s) - 1

VARIABLES
  first, second,   \* two sections that follow each other, none before they do
  room             \* bytes of the packet from the first one on

tableVars == <<first, second, room>>

-------------------------------------------------------------------------------
(* Pat and Pmt.                                                              *)

\* The long-form header.
SectionReads ==
  <<Read("table_id", 8), Read("section_syntax_indicator", 1), Skip(1), Skip(2),
    Read("section_length", 12), Read("id", 16), Skip(2), Read("version_number", 5),
    Read("current_next_indicator", 1), Read("section_number", 8),
    Read("last_section_number", 8)>>

\* Behind it in a PMT.
PmtReads == <<Skip(3), Read("PCR_PID", 13), Skip(4), Read("program_info_length", 12)>>

EntryAt(s, at, reads) == ReadFields(8 * at, reads, SectionSize(s))

\* Pat.Parse: so many entries of four bytes.
PatEntries(s) == (SectionSize(s) - 3 - 9) \div 4

ParsePat(s) ==
  [rows |-> [i \in 1 .. PatEntries(s) |->
               EntryAt(s, 8 + 4 * (i - 1), <<Read("number", 16), Skip(3), Read("pid", 13)>>)],
   crc  |-> 8 + 4 * PatEntries(s)]

\* Mutant: a descriptor_length past its loop is followed.
DescriptorSize_Unclamped(s, at, end) == Byte(s, at + 1)

\* The payload of the descriptor at byte at of a loop that ends at end.
DescriptorSize(s, at, end) == Min({Byte(s, at + 1), end - at - 2})

\* parseDescriptors: where the loop of total bytes at byte at leaves the reader; what
\* is too short for a descriptor is skipped.
DescriptorsEnd(s, at, total) ==
  LET next[i \in Nat] ==
        IF at + total - i < 2 THEN (IF i < at + total THEN at + total ELSE i)
        ELSE next[i + 2 + DescriptorSize(s, i, at + total)]
  IN next[at]

Length12(s, at) == (Byte(s, at) % 16) * 256 + Byte(s, at + 1)

StreamReads ==
  <<Read("stream_type", 8), Skip(3), Read("pid", 13), Skip(4), Read("ES_info_length", 12)>>

\* Pmt.Parse: streams are read while section_length leaves some bytes.  The count of
\* those bytes goes by the lengths announced, the reader by what it has consumed.
ParsePmt(s) ==
  LET left == SectionSize(s) - 3 - 9 - 4 - Length12(s, 10)
      read[at \in Nat, remain \in Int] ==
        IF remain <= 0 THEN [rows |-> <<>>, crc |-> at]
        ELSE LET length == Length12(s, at + 3)
                 rest   == read[DescriptorsEnd(s, at + 5, length), remain - 5 - length]
             IN [rows |-> <<EntryAt(s, at, StreamReads)>> \o rest.rows, crc |-> rest.crc]
      streams == read[DescriptorsEnd(s, 12, Length12(s, 10)), left]
  IN streams

Parsed(s) == IF Byte(s, 0) = PatId THEN ParsePat(s) ELSE ParsePmt(s)

\* add and Parse: the bytes taken for the CRC32 are those of the section, no read
\* was out of range, and it is long enough.
Accepted(s) ==
  /\ SectionSize(s) >= 12 /\ Bit(s, 8) = 1
  /\ Byte(s, 0) \in {PatId, PmtId}
  /\ Parsed(s).crc = SectionSize(s) - 4

-------------------------------------------------------------------------------
(* The packet detail.                                                        *)

\* Where the entries end: crcAt.
RowsEnd(s) == SectionSize(s) - 4

\* patRows: the entries in the n bytes of the packet.
PatRows(s, n) ==
  LET count == Cardinality({i \in 0 .. RowsEnd(s) : 8 + 4 * i + 4 <= Min({RowsEnd(s), n})})
  IN [rows |-> [i \in 1 .. count |->
                  LET at == 8 + 4 * (i - 1) IN
                  Layer(<<Field("number", <<BitsAt(at, 0, 16)>>), Field("pid", <<BitsAt(at + 2, 3, 13)>>)>>, n)],
      truncated |-> 8 + 4 * count + 4 <= RowsEnd(s)]

\* pmtRows.
PmtRows(s, n) ==
  LET row[at \in Nat] ==
        IF at + 5 > RowsEnd(s) THEN [rows |-> <<>>, truncated |-> FALSE]
        ELSE IF at + 5 > n THEN [rows |-> <<>>, truncated |-> TRUE]
        ELSE LET rest == row[at + 5 + ValueAt(s, BitsAt(at + 3, 4, 12))] IN
             [rest EXCEPT !.rows =
                <<Layer(<<Field("stream_type", <<BitsAt(at, 0, 8)>>), Field("pid", <<BitsAt(at + 1, 3, 13)>>),
                          Field("ES_info_length", <<BitsAt(at + 3, 4, 12)>>)>>, n)>> \o @]
  IN IF n < 12 THEN [rows |-> <<>>, truncated |-> TRUE]
     ELSE row[12 + ValueAt(s, BitsAt(10, 4, 12))]

HeaderFields(s) ==
  <<Field("table_id", <<BitsAt(0, 0, 8)>>), Field("section_syntax_indicator", <<BitsAt(1, 0, 1)>>),
    Field("section_length", <<BitsAt(1, 4, 12)>>), Field("id", <<BitsAt(3, 0, 16)>>),
    Field("version_number", <<BitsAt(5, 2, 5)>>), Field("current_next_indicator", <<BitsAt(5, 7, 1)>>),
    Field("section_number", <<BitsAt(6, 0, 8)>>), Field("last_section_number", <<BitsAt(7, 0, 8)>>)>>
  \o If(Byte(s, 0) = PmtId, <<Field("PCR_PID", <<BitsAt(8, 3, 13)>>),
                              Field("program_info_length", <<BitsAt(10, 4, 12)>>)>>)

\* decodePsiSection on the n bytes a packet holds of the section.
DetailSection(s, n) ==
  LET fields == Layer(HeaderFields(s), n)
      rows   == IF n < 8 THEN [rows |-> <<>>, truncated |-> TRUE]
                ELSE IF Byte(s, 0) = PatId THEN PatRows(s, n) ELSE PmtRows(s, n)
      crc    == SectionSize(s) - 4
  IN [fields |-> fields, rows |-> rows.rows,
      crc |-> IF crc + 4 <= n /\ crc >= 3 THEN Concat(<<BitsAt(crc, 0, 32)>>) ELSE <<>>,
      truncated |-> n < 8 \/ rows.truncated \/ crc + 4 > n \/ crc < 3]

-------------------------------------------------------------------------------
(* The packet list.                                                          *)

\* Mutant: a section whose header is cut off is listed.
ListedStarts_AnyRoom(sections) ==
  {i \in DOMAIN sections : sections[i].room > 0 /\ SectionSize(sections[i].bytes) >= 12}

\* packetSectionStarts: those whose first 8 bytes are in the packet.
ListedStarts(sections) ==
  LET listed(i) == /\ sections[i].room >= 8
                   /\ Byte(sections[i].bytes, 0) # 255 /\ Bit(sections[i].bytes, 8) = 1
                   /\ SectionSize(sections[i].bytes) >= 12
  IN {i \in DOMAIN sections : \A k \in 1 .. i : listed(k)}

\* The header as packetSectionStarts and the key of the assembler read it.
ListedHeader ==
  [id                     |-> Bits(8 * 3, 16),
   version_number         |-> Bits(8 * 5 + 2, 5),
   current_next_indicator |-> Bits(8 * 5 + 7, 1),
   section_number         |-> Bits(8 * 6, 8),
   last_section_number    |-> Bits(8 * 7, 8)]

-------------------------------------------------------------------------------
TableInit == first = <<>> /\ second = <<>> /\ room = 0

\* Two sections begin in a packet, or the second in one after it.
NextSection ==
  /\ first = <<>>
  /\ first' \in Sections /\ second' \in NextSections /\ room' \in Rooms

TableNext == NextSection

-------------------------------------------------------------------------------
\* The entries of a PMT fill it: from one to the next up to the CRC32.
FillsPmt(s) ==
  LET entry[at \in Nat] ==
        \/ at = SectionSize(s) - 4
        \/ at < SectionSize(s) - 4 /\ entry[at + 5 + Length12(s, at + 3)]
  IN entry[12 + Length12(s, 10)]

\* A section is used exactly when the lengths it announces fill it, whatever its
\* descriptors announce.
AcceptedWhenFilled(s) ==
  Accepted(s) <=>
    IF Byte(s, 0) = PatId THEN SectionSize(s) >= 12 /\ (SectionSize(s) - 12) % 4 = 0
                          ELSE SectionSize(s) >= 16 /\ FillsPmt(s)

\* The packet detail shows the entries the analysis uses, all of them unless the
\* section goes on in the next packet.
RowsAgree(s, n) ==
  Accepted(s) =>
    LET detail == DetailSection(s, n)
        header == ReadFields(0, SectionReads \o If(Byte(s, 0) = PmtId, PmtReads), SectionSize(s))
    IN
    /\ \A f \in DOMAIN detail.fields : detail.fields[f] = header[f]
    /\ detail.rows = SubSeq(Parsed(s).rows, 1, Len(detail.rows))
    /\ detail.truncated <=> n < SectionSize(s)
    /\ ~detail.truncated =>
         /\ DOMAIN detail.fields = DOMAIN header
         /\ Len(detail.rows) = Len(Parsed(s).rows)
         /\ detail.crc = ReadBits(8 * Parsed(s).crc, 32)

\* The packet list has the sections the analysis uses that begin in the packet, as far
\* as their headers are in it.
ListsSections ==
  LET starts == <<[bytes |-> first, room |-> room],
                  [bytes |-> second, room |-> room - SectionSize(first)]>>
      header(s) == ReadFields(0, SectionReads, SectionSize(s))
  IN Accepted(first) /\ Accepted(second) =>
       /\ ListedStarts(starts) = {i \in DOMAIN starts : starts[i].room >= 8}
       /\ \A i \in ListedStarts(starts) :
            \A f \in DOMAIN ListedHeader : ListedHeader[f] = header(starts[i].bytes)[f]

\* A section is one thing, however it is looked at.
TablesAgree ==
  first # <<>> =>
    AcceptedWhenFilled(first) /\ RowsAgree(first, room) /\ ListsSections
===============================================================================
