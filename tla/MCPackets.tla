------------------------------- MODULE MCPackets -------------------------------
(* Five scenarios about packets.  "reader" finds them in the input; "packet",    *)
(* "header", "table" and "unit" decode what they carry.  A scenario that is not  *)
(* followed has one state: the reader has read an empty input.                   *)
EXTENDS PacketReader, PacketSyntax, TableSyntax, PacketUnit

VARIABLE scenario

mcVars == <<readerVars, syntaxVars, headerVars, tableVars, unitVars, scenario>>

Only(all, size) == [i \in DOMAIN all \cap 0 .. size - 1 |-> all[i]]

Set(condition, i, byte) == IF condition THEN i :> byte ELSE <<>>

-------------------------------------------------------------------------------
(* Packets: an adaptation field with some of the flags from PCR_flag (3) on, of   *)
(* that length, with private data of a length and the flags of an extension.      *)

PacketOf(sync, error, control, length, flags, private, extension) ==
  LET flag(i)   == IF i \in flags THEN 1 ELSE 0
      privateAt == 6 + 6 * flag(3) + 6 * flag(4) + flag(5)
  IN Only((0 :> sync) @@ (1 :> 128 * error + 65) @@ (3 :> 16 * control + 5) @@ (4 :> length)
            @@ (5 :> 16 * flag(3) + 8 * flag(4) + 4 * flag(5) + 2 * flag(6) + flag(7))
            @@ Set(6 \in flags, privateAt, private)
            @@ Set(7 \in flags, privateAt + flag(6) * (1 + private) + 1, 32 * extension), TsSize)

MCFirstPackets ==
  {PacketOf(71, error, control, 183, 3 .. 7, 0, 7) : error \in {0, 1}, control \in {1, 2}}

MCTsPackets ==
  MCFirstPackets
  \cup {PacketOf(sync, error, control, 7, {3}, 0, 0) :
          sync \in {0, 71}, error \in {0, 1}, control \in 0 .. 3}
  \cup {PacketOf(71, kind[1], kind[2], length, flags, 0, 0) :
          kind \in {<<0, 2>>, <<0, 3>>, <<1, 3>>},
          length \in {0, 1, 6, 7, 8, 12, 13, 14, 183, 184, 255}, flags \in SUBSET (3 .. 5)}
  \cup {PacketOf(71, 0, 3, length, flags, private, extension) :
          length \in {13, 183}, flags \in {{6}, {6, 7}, 3 .. 7},
          private \in {0, 3, 167, 168, 255}, extension \in {0, 1, 2, 4, 7}}

-------------------------------------------------------------------------------
(* PES headers: the flags announced, an extension with its flags and lengths, a   *)
(* header length that is off by some bytes, and a byte that is 0.                 *)

FlagSets ==
  {[stamps |-> s, escr |-> e, others |-> 0, extension |-> 0] : s \in 0 .. 3, e \in {0, 1}}
  \cup {[stamps |-> 3, escr |-> 1, others |-> 1, extension |-> x] : x \in {0, 1}}
  \cup {[stamps |-> 2, escr |-> 0, others |-> 0, extension |-> 1]}

FixedSize(f) == 5 * Max({0, f.stamps - 1}) + 6 * f.escr + 7 * f.others

PesOf(id, f, extension, length, off, packetLength, zero) ==
  LET e       == 9 + FixedSize(f)
      flag(i) == (extension \div 2 ^ (7 - i)) % 2
      pack    == e + 1 + 16 * flag(0)
      after  == pack + flag(1) * (1 + length) + 2 * flag(2) + 2 * flag(3)
      tail    == after + flag(7) * (1 + length)
      size    == Max({0, (IF f.extension = 1 THEN tail - 9 ELSE FixedSize(f)) + off})
      header  == (2 :> 1) @@ (3 :> id) @@ (5 :> (IF packetLength = 0 THEN 0 ELSE size + packetLength))
                 @@ (6 :> 128) @@ (7 :> 64 * f.stamps + 32 * f.escr + 30 * f.others + f.extension)
                 @@ (8 :> size)
                 @@ Set(f.stamps > 1, 9, 16 * f.stamps + 1) @@ Set(f.stamps > 1, 11, 1)
                 @@ Set(f.stamps > 1, 13, 1) @@ Set(f.stamps = 3, 14, 17)
                 @@ Set(f.stamps = 3, 16, 1) @@ Set(f.stamps = 3, 18, 1)
                 @@ Set(f.extension = 1, e, extension) @@ Set(f.extension * flag(1) = 1, pack, length)
                 @@ Set(f.extension * flag(7) = 1, after, 128 + length)
  IN [i \in DOMAIN header \ {zero} |-> header[i]]

Plain == {f \in FlagSets : f.extension = 0}

MCHeaders ==
  {PesOf(id, f, 0, 0, off, 0, 99) : id \in {188, 224}, f \in Plain, off \in {-1, 0, 3}}
  \cup {PesOf(224, f, extension, length, off, 0, 99) :
          f \in FlagSets \ Plain, extension \in {0, 128, 64, 1, 97, 241}, length \in {0, 3},
          off \in {-4, -1, 0, 1}}
  \cup {PesOf(224, f, 0, 0, 0, packetLength, zero) :
          f \in {g \in Plain : g.stamps = 3}, packetLength \in {0, 2, 3},
          zero \in {2, 3, 6, 9, 11, 13, 14, 16, 18}}

\* The payloads of n bytes of a PES packet.
SplitsOf(n) == {<<n>>} \cup {<<k, n - k>> : k \in {3, 6, 9, 13} \cap 1 .. n - 1} \cup {<<8, 4, 3, n>>}

MCFirstPes ==
  {[bytes |-> PesOf(224, f, 0, 0, 0, 0, 99), payloads |-> <<50>>] : f \in {g \in Plain : g.stamps = 3 /\ g.others = 1}}

MCPesPackets ==
  MCFirstPes \cup UNION
    {{[bytes |-> h, payloads |-> s] :
        s \in UNION {SplitsOf(n) : n \in {3, 5, 8, 13, 14, 18, 19, 300}
                                           \cup {8 + HeaderDataLength(h), 9 + HeaderDataLength(h)}}} :
     h \in MCHeaders}

-------------------------------------------------------------------------------
(* Sections: a section_length that is off by some bytes, the lengths of the       *)
(* descriptor loops, and a descriptor_length in each.                             *)

SectionOf(s) == Only(s, SectionSize(s))

PatOf(length) == SectionOf((0 :> PatId) @@ (1 :> 128) @@ (2 :> length) @@ (5 :> 1))

\* A stream of a PMT at byte i.
StreamAt(i, length, descriptor) == (i + 4 :> length) @@ Set(length > 1, i + 6, descriptor)

PmtOf(info, streams, off, descriptor) ==
  LET size   == IF streams = <<>> THEN 0 ELSE IF Len(streams) = 1 THEN 5 + streams[1]
                ELSE 10 + streams[1] + streams[2]
      one    == IF streams = <<>> THEN <<>> ELSE StreamAt(12 + info, streams[1], descriptor)
      two    == IF Len(streams) < 2 THEN <<>>
                ELSE StreamAt(17 + info + streams[1], streams[2], descriptor)
  IN SectionOf((0 :> PmtId) @@ (1 :> 128) @@ (2 :> 13 + info + size + off) @@ (5 :> 1) @@ (11 :> info)
               @@ Set(info > 1, 13, descriptor) @@ one @@ two)

MCNextSections == {PatOf(13), PmtOf(0, <<0>>, 0, 0)}

MCSections ==
  MCNextSections \cup {PatOf(length) : length \in 5 .. 26}
  \cup {PmtOf(info, <<>>, off, d) : info \in {0, 1, 3}, off \in -2 .. 3, d \in {0, 1, 9}}
  \cup {PmtOf(info, <<es>>, off, d) :
          info \in {0, 3}, es \in {0, 1, 5}, off \in {-1, 0, 1, 4}, d \in {0, 2, 3, 9}}
  \cup {PmtOf(0, es, off, d) : es \in {0, 3, 6} \X {0, 4}, off \in {-4, 0, 5}, d \in {0, 1, 9}}

-------------------------------------------------------------------------------
(* Files of four packets of one PID, of others, without a payload or damaged.     *)

PacketIn(pid, valid, start, length, begin) ==
  [pid |-> pid, valid |-> valid, start |-> start, length |-> length, bytes |-> begin]

StampsOnly(s) == PesOf(224, [stamps |-> s, escr |-> 0, others |-> 0, extension |-> 0], 0, 0, 0, 0, 99)

PacketKinds ==
  {PacketIn(1, TRUE, FALSE, 4, <<>>), PacketIn(1, TRUE, FALSE, 11, <<>>),
   PacketIn(1, TRUE, FALSE, 0, <<>>), PacketIn(1, FALSE, FALSE, 0, <<>>),
   PacketIn(2, TRUE, TRUE, 4, <<>>), PacketIn(1, TRUE, TRUE, 3, StampsOnly(2)),
   PacketIn(1, TRUE, TRUE, 8, StampsOnly(3)), PacketIn(1, TRUE, TRUE, 2, StampsOnly(2))}

MCUnitFiles == {[packets |-> p, phase |-> 1, rest |-> 1] : p \in [1 .. 4 -> PacketKinds]}

MCUnitRanges ==
  {[offset |-> 0, limit |-> 0], [offset |-> 2, limit |-> 4], [offset |-> 3, limit |-> 6]}

-------------------------------------------------------------------------------
ReaderRead ==
  /\ input = <<>> /\ end = 0 /\ src = 0 /\ pos = 0 /\ held = <<>> /\ phase = "done"
  /\ loss = 0 /\ lost = FALSE /\ check = NewCheck /\ served = {}

NoPacket == SyntaxInit /\ physical = 188

NoFile ==
  /\ request = [packets |-> <<>>, phase |-> 0, rest |-> 0, offset |-> 0, limit |-> 0]
  /\ asked = Nowhere /\ unit = NoUnit("not asked")

MCInit ==
  /\ HeaderInit /\ TableInit
  /\ \/ scenario = "reader" /\ NoPacket /\ NoFile /\ Init
     \/ scenario = "packet" /\ NoFile /\ ReaderRead /\ SyntaxInit
     \/ scenario \in {"header", "table"} /\ NoPacket /\ NoFile /\ ReaderRead
     \/ scenario = "unit" /\ NoPacket /\ ReaderRead /\ UnitInit

MCNext ==
  /\ UNCHANGED scenario
  /\ \/ scenario = "reader" /\ Next /\ UNCHANGED <<syntaxVars, headerVars, tableVars, unitVars>>
     \/ scenario = "packet" /\ SyntaxNext /\ UNCHANGED <<readerVars, headerVars, tableVars, unitVars>>
     \/ scenario = "header" /\ HeaderNext /\ UNCHANGED <<readerVars, syntaxVars, tableVars, unitVars>>
     \/ scenario = "table" /\ TableNext /\ UNCHANGED <<readerVars, syntaxVars, headerVars, unitVars>>
     \/ scenario = "unit" /\ UnitNext /\ UNCHANGED <<readerVars, syntaxVars, headerVars, tableVars>>

MCSpec == MCInit /\ [][MCNext]_mcVars /\ WF_readerVars(Next)
===============================================================================
