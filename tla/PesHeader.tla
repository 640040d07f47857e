------------------------------ MODULE PesHeader --------------------------------
(***************************************************************************)
(* The header of a PES packet, which is decoded three times: by Pes           *)
(* (tsparser/pes.go) from the payloads the analysis collects, by              *)
(* decodePesHeader from what one packet holds of it, and by describePesUnit   *)
(* from the packets of a unit (tsparser/packet_detail.go).  The analysis uses *)
(* one Pes for all the PES packets of a PID.                                 *)
(***************************************************************************)
EXTENDS PacketBits, TLC

CONSTANTS
  PesPackets,       \* the bytes, and the payloads' lengths, of PES packets
  FirstPesPackets   \* those a Pes may have held before

MaxPesHeaderSize == 6 + 3 + 255

ASSUME PesAssumption ==
  /\ FirstPesPackets \subseteq PesPackets
  /\ \A p \in PesPackets :
       /\ p.payloads \in Seq(Nat) /\ p.payloads # <<>>
       /\ DOMAIN p.bytes \subseteq Nat /\ \A i \in DOMAIN p.bytes : p.bytes[i] \in 0 .. 255

VARIABLES
  packet,     \* the PES packet parsed last
  pes,        \* the Pes
  headers     \* how many it has parsed

headerVars == <<packet, pes, headers>>

-------------------------------------------------------------------------------
(* The fields of a header.                                                   *)

StreamId(h) == Byte(h, 3)
PacketLength(h) == 256 * Byte(h, 4) + Byte(h, 5)
PtsDtsFlags(h) == Byte(h, 7) \div 64
HeaderDataLength(h) == Byte(h, 8)
HeaderFlag(h, i) == Bit(h, 8 * 7 + i)     \* of the flags byte

HasPrefix(h) == Byte(h, 0) = 0 /\ Byte(h, 1) = 0 /\ Byte(h, 2) = 1

\* streamHasPesHeader: 0xBC, 0xBE, 0xBF, 0xF0, 0xF1, 0xF2, 0xF8 and 0xFF have none.
StreamHasPesHeader(id) == id \notin {188, 190, 191, 240, 241, 242, 248, 255}

HasTimestamp(h) == PtsDtsFlags(h) \in {2, 3}

-------------------------------------------------------------------------------
(* Pes.                                                                      *)

NewPes == [retained |-> 0, received |-> 0, fields |-> NoFields, problem |-> "none"]

\* Mutant: the timestamps of the PES packet before stay.
InitializePes_KeepsTimestamps(object) == [NewPes EXCEPT !.fields = object.fields]

InitializePes(object) == NewPes

\* Append: only the leading bytes are retained.
AppendPayload(object, length) ==
  [object EXCEPT !.received = @ + length,
                 !.retained = @ + Min({MaxPesHeaderSize - @, length})]

\* What the flags announce, up to the flags of the extension.
Required(h) ==
  (IF PtsDtsFlags(h) = 2 THEN 5 ELSE IF PtsDtsFlags(h) = 3 THEN 10 ELSE 0)
  + 6 * HeaderFlag(h, 2) + 3 * HeaderFlag(h, 3) + HeaderFlag(h, 4) + HeaderFlag(h, 5)
  + 2 * HeaderFlag(h, 6) + HeaderFlag(h, 7)

\* Mutant: a length byte past the header is read all the same.
ExtensionSize_Unbounded(h, at, size) ==
  LET flag(i) == Bit(h, 8 * at + i)
      pack  == 1 + 16 * flag(0)
      after == pack + (IF flag(1) = 1 THEN Byte(h, at + pack) ELSE 0) + 2 * flag(2) + 2 * flag(3)
  IN after + flag(7)

\* pesExtensionSize: the bytes the extension at byte at needs, of the size it has.
ExtensionSize(h, at, size) ==
  LET flag(i) == Bit(h, 8 * at + i)
      pack  == 1 + 16 * flag(0)
      after == pack + (IF flag(1) = 1 THEN 1 + Byte(h, at + pack) ELSE 0) + 2 * flag(2) + 2 * flag(3)
  IN IF flag(1) = 1 /\ pack >= size THEN pack + 1
     ELSE IF flag(7) = 0 THEN after
     ELSE IF after >= size THEN after + 1
     ELSE after + 1 + (Byte(h, at + after) % 128)

\* pesTimestamp: the prefix and the markers, and the three parts of the value.
ValidTimestamp(h, at, prefix) ==
  /\ Byte(h, at) \div 16 = prefix
  /\ \A i \in {at, at + 2, at + 4} : Byte(h, i) % 2 = 1

Timestamp(at) ==
  Bits(8 * at + 4, 3) \o Bits(8 * (at + 1), 8) \o Bits(8 * (at + 2), 7)
  \o Bits(8 * (at + 3), 8) \o Bits(8 * (at + 4), 7)

Check(problem, fails) == [problem |-> problem, fails |-> fails]

\* The checks of Parse on n bytes, in order.
FixedChecks(h, n) ==
  <<Check("start_code", n >= 3 /\ ~HasPrefix(h)),
    Check("start_code", n >= 4 /\ StreamId(h) < 188),
    Check("truncated", n < 6)>>

OptionalChecks(h, n) ==
  LET length == HeaderDataLength(h)
      left   == length - Required(h) + 1
  IN <<Check("truncated", n < 9),
       Check("flags", Byte(h, 6) \div 64 # 2),
       Check("flags", PtsDtsFlags(h) = 1),
       Check("length", length < Required(h)),
       Check("length", PacketLength(h) # 0 /\ PacketLength(h) < 3 + length),
       Check("truncated", n < 9 + length),
       Check("length", /\ HeaderFlag(h, 7) = 1
                       /\ ExtensionSize(h, 9 + Required(h) - 1, left) > left),
       Check("markers", PtsDtsFlags(h) = 2 /\ ~ValidTimestamp(h, 9, 2)),
       Check("markers", /\ PtsDtsFlags(h) = 3
                        /\ ~ValidTimestamp(h, 9, 3) \/ ~ValidTimestamp(h, 14, 1))>>

Problem(h, n) ==
  LET optional == StreamHasPesHeader(StreamId(h))
      checks   == FixedChecks(h, n) \o If(optional, OptionalChecks(h, n))
      failed   == {i \in DOMAIN checks : checks[i].fails}
  IN IF failed = {} THEN "none" ELSE checks[Min(failed)].problem

Optional(name, when, bits) == [name |-> name, when |-> when, bits |-> bits]

\* The optional fields of an accepted header; each follows the ones before it.
OptionalFields(h) ==
  LET flag(i) == HeaderFlag(h, i) = 1
      escr == 9 + (IF HasTimestamp(h) THEN 5 * (PtsDtsFlags(h) - 1) ELSE 0)
      rate == escr + 6 * HeaderFlag(h, 2)
      mode == rate + 3 * HeaderFlag(h, 3)
      copy == mode + HeaderFlag(h, 4)
      crc  == copy + HeaderFlag(h, 5)
      base == Bits(8 * escr + 2, 3) \o Bits(8 * escr + 6, 15) \o Bits(8 * escr + 22, 15)
      present == {f \in {Optional("PTS", HasTimestamp(h), Timestamp(9)),
                         Optional("DTS", PtsDtsFlags(h) = 3, Timestamp(14)),
                         Optional("ESCR_base", flag(2), base),
                         Optional("ESCR_extension", flag(2), Bits(8 * escr + 38, 9)),
                         Optional("ES_rate", flag(3), Bits(8 * rate + 1, 22)),
                         Optional("trick_mode_control", flag(4), Bits(8 * mode, 3)),
                         Optional("additional_copy_info", flag(5), Bits(8 * copy + 1, 7)),
                         Optional("previous_PES_packet_CRC", flag(6), Bits(8 * crc, 16))} : f.when}
  IN [n \in {f.name : f \in present} |-> (CHOOSE f \in present : f.name = n).bits]

\* Parse.
ParsePes(object, h) ==
  LET problem == Problem(h, object.retained) IN
  [object EXCEPT
     !.problem = problem,
     !.fields = IF problem = "none" /\ StreamHasPesHeader(StreamId(h))
                  THEN Over(OptionalFields(h), @) ELSE @]

Collected(object, p) == ParsePes(FoldLeft(AppendPayload, InitializePes(object), p.payloads), p.bytes)

-------------------------------------------------------------------------------
(* The packet detail.                                                        *)

\* timestampBits.
TimestampRuns(at) == <<BitsAt(at, 4, 3), BitsAt(at + 1, 0, 15), BitsAt(at + 3, 0, 15)>>

\* Mutant: the DTS is looked for right behind the flags.
TimestampFields_SamePlace(h) ==
  (IF PtsDtsFlags(h) >= 2 THEN <<Field("PTS", TimestampRuns(9))>> ELSE <<>>)
  \o (IF PtsDtsFlags(h) = 3 THEN <<Field("DTS", TimestampRuns(9))>> ELSE <<>>)

TimestampFields(h) ==
  (IF PtsDtsFlags(h) >= 2 THEN <<Field("PTS", TimestampRuns(9))>> ELSE <<>>)
  \o (IF PtsDtsFlags(h) = 3 THEN <<Field("DTS", TimestampRuns(14))>> ELSE <<>>)

\* decodePesHeader on the n bytes a packet holds: nothing follows a field that is
\* not inside.
DetailFields(h, n) ==
  LET fixed == <<Field("packet_start_code_prefix", <<BitsAt(0, 0, 24)>>),
                 Field("stream_id", <<BitsAt(3, 0, 8)>>),
                 Field("PES_packet_length", <<BitsAt(4, 0, 16)>>)>>
      flags == <<Field("PES_scrambling_control", <<BitsAt(6, 2, 2)>>),
                 Field("PTS_DTS_flags", <<BitsAt(7, 0, 2)>>),
                 Field("PES_header_data_length", <<BitsAt(8, 0, 8)>>)>>
  IN IF n < 6 \/ ~StreamHasPesHeader(StreamId(h)) THEN fixed
     ELSE IF n < 9 THEN fixed \o flags
     ELSE fixed \o flags \o TimestampFields(h)

PesLayer(h, n) ==
  [fields |-> Layer(DetailFields(h, n), n), truncated |-> Truncated(DetailFields(h, n), n)]

\* need: how many of the first bytes of a unit are to be gathered.
Need(h, n) ==
  IF n < 6 \/ ~StreamHasPesHeader(StreamId(h)) THEN 6
  ELSE IF n < 9 THEN 9
  ELSE 9 + HeaderDataLength(h)

\* describePesUnit: the payloads gathered, at least the first.
Gathered(h, payloads) ==
  LET sum[k \in 0 .. Len(payloads)] == IF k = 0 THEN 0 ELSE sum[k - 1] + payloads[k]
      enough == {k \in DOMAIN payloads : sum[k] >= Need(h, sum[k])}
      count  == IF enough = {} THEN Len(payloads) ELSE Min(enough)
  IN [count |-> count, bytes |-> sum[count]]

\* describePesUnit: the timestamps of a unit.
UnitTimestamps(h, n) ==
  LET optional == n >= 9 /\ StreamHasPesHeader(StreamId(h)) IN
  [t \in {t \in {"PTS", "DTS"} :
            /\ optional
            /\ \/ t = "PTS" /\ PtsDtsFlags(h) >= 2 /\ n >= 14
               \/ t = "DTS" /\ PtsDtsFlags(h) = 3 /\ n >= 19} |->
     Concat(TimestampRuns(IF t = "PTS" THEN 9 ELSE 14))]
-------------------------------------------------------------------------------
HeaderInit == packet = [bytes |-> <<>>, payloads |-> <<>>] /\ pes = NewPes /\ headers = 0

\* The next PES packet of the PID.
NextPes ==
  /\ headers < 2
  /\ packet' \in IF headers = 0 THEN FirstPesPackets ELSE PesPackets
  /\ pes' = Collected(pes, packet')
  /\ headers' = headers + 1

HeaderNext == NextPes

HeaderSpec == HeaderInit /\ [][HeaderNext]_headerVars

-------------------------------------------------------------------------------
\* Nothing of the PES packet before is left in the Pes.
PesAsItself == pes = Collected(NewPes, packet)

\* Where the extension ends whose flags are at byte at, wherever its lengths lie.
ExtensionEnd(h, at) ==
  LET flag(i) == Bit(h, 8 * at + i)
      pack  == at + 1 + 16 * flag(0)
      after == pack + flag(1) * (1 + Byte(h, pack)) + 2 * flag(2) + 2 * flag(3)
  IN after + flag(7) * (1 + (Byte(h, after) % 128))

\* Parse accepts exactly the headers it has received whole, that begin as they
\* should and hold every field they announce; an announced length that points past
\* the header is never followed.
AcceptedAsDefined ==
  LET h == packet.bytes
      n == Min({MaxPesHeaderSize, FoldLeft(LAMBDA s, k : s + k, 0, packet.payloads)})
      end == 9 + HeaderDataLength(h)
      announced == IF HeaderFlag(h, 7) = 1 THEN ExtensionEnd(h, 9 + Required(h) - 1)
                   ELSE 9 + Required(h)
  IN pes.problem = "none" <=>
       /\ n >= 6 /\ HasPrefix(h) /\ StreamId(h) >= 188
       /\ StreamHasPesHeader(StreamId(h)) =>
            /\ n >= 9 /\ n >= end /\ announced <= end
            /\ Byte(h, 6) \div 64 = 2 /\ PtsDtsFlags(h) # 1
            /\ PacketLength(h) = 0 \/ end <= 6 + PacketLength(h)
            /\ HasTimestamp(h) => ValidTimestamp(h, 9, PtsDtsFlags(h))
            /\ PtsDtsFlags(h) = 3 => ValidTimestamp(h, 14, 1)

\* The PTS and DTS of a header the analysis accepts are those the packet detail
\* gives for its unit, and those it shows in the first packet unless they go on in
\* the next one.
TimestampsAgree ==
  LET h     == packet.bytes
      unit  == UnitTimestamps(h, Gathered(h, packet.payloads).bytes)
      first == PesLayer(h, packet.payloads[1])
      known == {"PTS", "DTS"} \cap DOMAIN pes.fields
  IN pes.problem = "none" =>
       /\ DOMAIN unit = known
       /\ \A t \in known : unit[t] = pes.fields[t]
       /\ \A t \in {"PTS", "DTS"} \cap DOMAIN first.fields :
            t \in known /\ first.fields[t] = pes.fields[t]
       /\ first.truncated \/ known \subseteq DOMAIN first.fields

\* A PES header is one thing, however it is looked at.
HeadersAgree == headers > 0 => PesAsItself /\ AcceptedAsDefined /\ TimestampsAgree
===============================================================================
