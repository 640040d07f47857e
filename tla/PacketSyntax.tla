----------------------------- MODULE PacketSyntax ------------------------------
(***************************************************************************)
(* The header and the adaptation field of a packet, which are decoded twice: *)
(* by TsPacket and AdaptationField (tsparser/ts_packet.go and                 *)
(* adaptation_field.go) for the analysis and the packet list, and by          *)
(* decodeTSLayers (tsparser/packet_detail.go) for the packet detail.  A scan  *)
(* parses all its packets with one TsPacket.                                 *)
(***************************************************************************)
EXTENDS PacketBits, TLC

CONSTANTS
  Packets,        \* the packets, by their TS bytes
  FirstPackets,   \* those a TsPacket may have parsed before
  PhysicalSizes   \* of 188, 192 and 204

TsSize == 188
TsHeaderSize == 4
SyncByte == 71

ASSUME SyntaxAssumption ==
  /\ FirstPackets \subseteq Packets /\ PhysicalSizes \subseteq {188, 192, 204}
  /\ \A bytes \in Packets : DOMAIN bytes \subseteq 0 .. TsSize - 1

VARIABLES
  physical,   \* the size of a physical packet
  bytes,      \* the packet parsed last
  tp,         \* the TsPacket
  parses      \* how many packets it has parsed

syntaxVars == <<physical, bytes, tp, parses>>

-------------------------------------------------------------------------------
(* TsPacket and AdaptationField.                                             *)

HeaderReads ==
  <<Read("sync_byte", 8), Read("transport_error_indicator", 1),
    Read("payload_unit_start_indicator", 1), Read("transport_priority", 1),
    Read("PID", 13), Read("transport_scrambling_control", 2),
    Read("adaptation_field_control", 2), Read("continuity_counter", 4)>>

FlagNames ==
  <<"discontinuity_indicator", "random_access_indicator",
    "elementary_stream_priority_indicator", "PCR_flag", "OPCR_flag",
    "splicing_point_flag", "transport_private_data_flag",
    "adaptation_field_extension_flag">>

\* Where the adaptation field begins, and its flags.
AfBit == 8 * TsHeaderSize

AfLength(packet) == Byte(packet, TsHeaderSize)

Flag(packet, name) ==
  Bit(packet, AfBit + 7 + CHOOSE i \in DOMAIN FlagNames : FlagNames[i] = name) = 1

Clock(name) == <<Read(name \o "_base", 33), Skip(6), Read(name \o "_extension", 9)>>

\* The extension: its flags say what follows them.
ExtensionReads(packet, at) ==
  LET flag(i) == Bit(packet, at + 8 + i) = 1
  IN <<Read("adaptation_field_extension_length", 8), Read("ltw_flag", 1),
       Read("piecewise_rate_flag", 1), Read("seamless_splice_flag", 1), Skip(5)>>
     \o If(flag(0), <<Read("ltw_valid_flag", 1), Read("ltw_offset", 15)>>)
     \o If(flag(1), <<Skip(2), Read("piecewise_rate", 22)>>)
     \o If(flag(2), <<Read("splice_type", 4), Read("DTS_next_AU_first", 3), Skip(1),
                      Read("DTS_next_AU_second", 15), Skip(1),
                      Read("DTS_next_AU_third", 15), Skip(1)>>)

\* AdaptationField.Parse: what is read, whether or not it lies within
\* adaptation_field_length.
AfReads(packet) ==
  LET flag(name) == Flag(packet, name)
      fixed   == <<Read("adaptation_field_length", 8)>>
                 \o [i \in DOMAIN FlagNames |-> Read(FlagNames[i], 1)]
                 \o If(flag("PCR_flag"), Clock("PCR"))
                 \o If(flag("OPCR_flag"), Clock("OPCR"))
                 \o If(flag("splicing_point_flag"), <<Read("splice_countdown", 8)>>)
      private == fixed \o
                 If(flag("transport_private_data_flag"),
                    <<Read("transport_private_data_length", 8),
                      Skip(8 * Value(packet, Bits(AfBit + Total(fixed), 8)))>>)
  IN IF AfLength(packet) = 0 THEN <<Read("adaptation_field_length", 8)>>
     ELSE private \o If(flag("adaptation_field_extension_flag"),
                        ExtensionReads(packet, AfBit + Total(private)))

Header(packet) == ReadFields(0, HeaderReads, TsSize)

HeaderValue(packet, name) == Value(packet, Header(packet)[name])

Afc(packet) == HeaderValue(packet, "adaptation_field_control")

TransportError(packet) == HeaderValue(packet, "transport_error_indicator") = 1

HasAf(packet) == Afc(packet) \in {2, 3}

\* Where the payload begins, and that it does so in the packet; in parseUntrusted
\* a payload that does not is none.
PayloadStart(packet) ==
  IF Afc(packet) = 1 THEN TsHeaderSize
  ELSE IF Afc(packet) = 3 /\ TsHeaderSize + 1 + AfLength(packet) <= TsSize
    THEN TsHeaderSize + 1 + AfLength(packet) ELSE TsSize

Fails(packet) ==
  \/ HeaderValue(packet, "sync_byte") # SyncByte
  \/ /\ ~TransportError(packet)
     /\ \/ Afc(packet) = 0
        \/ HasAf(packet) /\ OutOfRange(AfBit, AfReads(packet), TsSize)
        \/ Afc(packet) = 3 /\ TsHeaderSize + 1 + AfLength(packet) > TsSize

\* Mutant: the clocks of the packet before stay.
InitializeAf_KeepsClock(af) ==
  [n \in DOMAIN af \cap {"PCR_base", "PCR_extension"} |-> af[n]]

\* AdaptationField.Initialize.
InitializeAf(af) == NoFields

\* TsPacket.Initialize; payload is the index of the first byte.
Initialize(packet) ==
  [header |-> NoFields, af |-> InitializeAf(packet.af), payload |-> TsSize, failed |-> FALSE]

\* TsPacket.Parse.  Of a packet with an error only the header is read; its payload
\* is located all the same.
Parse(object, packet) ==
  LET af == InitializeAf(object.af) IN
  [object EXCEPT
     !.header = Over(Header(packet), @),
     !.af = IF TransportError(packet) THEN af
            ELSE IF HasAf(packet) THEN Over(ReadFields(AfBit, AfReads(packet), TsSize), af) ELSE @,
     !.payload = IF Fails(packet) THEN @ ELSE PayloadStart(packet),
     !.failed = Fails(packet)]

NewTsPacket == [header |-> NoFields, af |-> NoFields, payload |-> TsSize, failed |-> FALSE]

\* Mutant: a damaged packet's PCR is listed whatever the length of the field.
ListedPCR_AnyLength(object, packet) ==
  IF ~TransportError(packet)
    THEN IF "PCR_base" \in DOMAIN object.af
           THEN object.af["PCR_base"] \o object.af["PCR_extension"] ELSE <<>>
  ELSE IF HasAf(packet) /\ Flag(packet, "PCR_flag")
    THEN Concat(<<BitsAt(6, 0, 33), BitsAt(10, 7, 9)>>) ELSE <<>>

\* listedPCR: the PCR the packet list shows.
ListedPCR(object, packet) ==
  IF ~TransportError(packet)
    THEN IF "PCR_base" \in DOMAIN object.af
           THEN object.af["PCR_base"] \o object.af["PCR_extension"] ELSE <<>>
  ELSE IF HasAf(packet) /\ AfLength(packet) >= 7 /\ Flag(packet, "PCR_flag")
    THEN Concat(<<BitsAt(6, 0, 33), BitsAt(10, 7, 9)>>) ELSE <<>>

-------------------------------------------------------------------------------
(* The packet detail.                                                        *)

\* tsOffset: the sync byte in a physical packet.
TsOffset(size) == IF size = 192 THEN 4 ELSE 0

\* The physical packet around the TS bytes.
Raw(packet, size) ==
  LET t == TsOffset(size) IN [i \in {t + j : j \in DOMAIN packet} |-> packet[i - t]]

\* decodeTSLayers: the header.
DetailHeader(t) ==
  <<Field("sync_byte", <<BitsAt(t, 0, 8)>>),
    Field("transport_error_indicator", <<BitsAt(t + 1, 0, 1)>>),
    Field("payload_unit_start_indicator", <<BitsAt(t + 1, 1, 1)>>),
    Field("transport_priority", <<BitsAt(t + 1, 2, 1)>>),
    Field("PID", <<BitsAt(t + 1, 3, 13)>>),
    Field("transport_scrambling_control", <<BitsAt(t + 3, 0, 2)>>),
    Field("adaptation_field_control", <<BitsAt(t + 3, 2, 2)>>),
    Field("continuity_counter", <<BitsAt(t + 3, 4, 4)>>)>>

\* Mutant: a clock is shown although the field ends before it does.
ClockField_Unbounded(name, at, end) ==
  <<Field(name, <<BitsAt(at, 0, 33), BitsAt(at + 4, 7, 9)>>)>>

\* clockField: the base and the extension, around the reserved bits.
ClockField(name, at, end) ==
  IF at + 6 <= end THEN <<Field(name, <<BitsAt(at, 0, 33), BitsAt(at + 4, 7, 9)>>)>> ELSE <<>>

\* decodeAdaptationField.
DetailAf(raw, at) ==
  LET length  == Byte(raw, at)
      flag(i) == Bit(raw, 8 * (at + 1) + i) = 1
      end     == at + 1 + length
      opcrAt  == at + 2 + (IF flag(3) THEN 6 ELSE 0)
      splice  == opcrAt + (IF flag(4) THEN 6 ELSE 0)
  IN <<Field("adaptation_field_length", <<BitsAt(at, 0, 8)>>)>>
     \o If(length > 0, [i \in DOMAIN FlagNames |-> Field(FlagNames[i], <<BitsAt(at + 1, i - 1, 1)>>)])
     \o If(length > 0 /\ flag(3), ClockField("PCR", at + 2, end))
     \o If(length > 0 /\ flag(4), ClockField("OPCR", opcrAt, end))
     \o If(length > 0 /\ flag(5) /\ splice < end, <<Field("splice_countdown", <<BitsAt(splice, 0, 8)>>)>>)

\* decodePacketLayers: payload is the index of the first byte, end when there is
\* no payload layer.
Detail(packet, size) ==
  LET raw   == Raw(packet, size)
      t     == TsOffset(size)
      end   == t + TsSize
      afc   == ValueAt(raw, BitsAt(t + 3, 2, 2))
      start == t + TsHeaderSize + (IF afc \in {2, 3} THEN 1 + Byte(raw, t + 4) ELSE 0)
  IN [header  |-> Layer(DetailHeader(t), end),
      af      |-> IF afc \in {2, 3} THEN Layer(DetailAf(raw, t + TsHeaderSize), end) ELSE NoFields,
      payload |-> IF afc \in {0, 2} \/ start >= end THEN end ELSE start]

-------------------------------------------------------------------------------
SyntaxInit == physical \in PhysicalSizes /\ bytes = <<>> /\ tp = NewTsPacket /\ parses = 0

\* The next packet of a scan, which ends at one that cannot be parsed.
ParseNext ==
  /\ parses < 2 /\ ~tp.failed
  /\ bytes' \in IF parses = 0 THEN FirstPackets ELSE Packets
  /\ tp' = Parse(Initialize(tp), bytes')
  /\ parses' = parses + 1
  /\ UNCHANGED physical

SyntaxNext == ParseNext

-------------------------------------------------------------------------------
\* What is known of a packet comes from that packet alone, although the object
\* that parses it has parsed another one before.
PacketAsItself == tp = Parse(NewTsPacket, bytes)

Shifted(bits, t) == [i \in DOMAIN bits |-> bits[i] + 8 * t]

\* The packet detail shows the values the analysis uses, read from the same bits:
\* every field of the header, the flags, and the clocks and the splice countdown
\* as far as the adaptation field holds them; and it finds the same payload.
DetailAgrees ==
  ~tp.failed =>
    LET t      == TsOffset(physical)
        detail == Detail(bytes, physical)
        fits(end) == end <= 8 * (TsHeaderSize + 1 + AfLength(bytes)) /\ end <= 8 * TsSize
        clock(name) == tp.af[name \o "_base"] \o tp.af[name \o "_extension"]
        known(name) == name \o "_base" \in DOMAIN tp.af /\ fits(Max(ToSet(clock(name))) + 1)
    IN
    /\ DOMAIN detail.header = DOMAIN tp.header
    /\ \A n \in DOMAIN tp.header : detail.header[n] = Shifted(tp.header[n], t)
    /\ detail.payload = tp.payload + t
    /\ ~TransportError(bytes) =>
         /\ \A n \in DOMAIN tp.af \cap (ToSet(FlagNames) \cup {"adaptation_field_length"}) :
              detail.af[n] = Shifted(tp.af[n], t)
         /\ \A n \in {"PCR", "OPCR"} :
              /\ n \in DOMAIN detail.af <=> known(n)
              /\ known(n) => detail.af[n] = Shifted(clock(n), t)
         /\ "splice_countdown" \in DOMAIN detail.af =>
              detail.af["splice_countdown"] = Shifted(tp.af["splice_countdown"], t)

\* The PCR in the packet list is the analysis' own, and for a damaged packet, whose
\* adaptation field the analysis does not read, the one the packet detail shows.
ListAgrees ==
  ~tp.failed =>
    IF TransportError(bytes)
      THEN LET af == Detail(bytes, physical).af IN
           Shifted(ListedPCR(tp, bytes), TsOffset(physical))
             = IF "PCR" \in DOMAIN af THEN af["PCR"] ELSE <<>>
      ELSE ListedPCR(tp, bytes) # <<>>
             <=> HasAf(bytes) /\ AfLength(bytes) > 0 /\ Flag(bytes, "PCR_flag")

\* One packet is one thing, however it is looked at.
PacketsAgree == parses > 0 => PacketAsItself /\ DetailAgrees /\ ListAgrees
===============================================================================
