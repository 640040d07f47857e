------------------------------ MODULE PacketBits -------------------------------
(***************************************************************************)
(* Reading the fields of a packet.  The analysis reads them one after the    *)
(* other with BitBuffer (bitbuffer/bitbuffer.go), the packet detail each at   *)
(* its place with readBits and fieldBuilder (tsparser/packet_detail.go).      *)
(*                                                                         *)
(* Bytes are a function of their index; those that are not in its domain are *)
(* 0.  A value is the sequence of the bits it was read from, where bit 7 of   *)
(* byte i is bit 8 * i, so that two values are the same only when they come   *)
(* from the same bits.  Lengths and flags, which decide what is read, are     *)
(* numbers: Value of their bits.                                             *)
(***************************************************************************)
EXTENDS Integers, SequencesExt, FiniteSetsExt

Byte(bytes, i) == IF i \in DOMAIN bytes THEN bytes[i] ELSE 0

Bit(bytes, b) == (Byte(bytes, b \div 8) \div 2 ^ (7 - (b % 8))) % 2

Value(bytes, bits) ==
  LET v[i \in 0 .. Len(bits)] == IF i = 0 THEN 0 ELSE 2 * v[i - 1] + Bit(bytes, bits[i])
  IN v[Len(bits)]

Bits(at, n) == [i \in 1 .. n |-> at + i - 1]

If(condition, sequence) == IF condition THEN sequence ELSE <<>>

\* No field has been read.
NoFields == [n \in {} |-> <<>>]

\* The fields read now, and those from before that are not read again.
Over(read, before) ==
  [n \in DOMAIN read \cup DOMAIN before |-> IF n \in DOMAIN read THEN read[n] ELSE before[n]]

-------------------------------------------------------------------------------
(* BitBuffer.                                                                *)

\* Mutant: the bits before the position are not masked out of the first byte.
ReadBits_WholeFirstByte(at, n) ==
  LET head == IF at % 8 > 0 THEN Min({8 - (at % 8), n}) ELSE 0
  IN (IF head > 0 THEN Bits(at - (at % 8), (at % 8) + head) ELSE <<>>) \o Bits(at + head, n - head)

\* readBits: what is left of the first byte, whole bytes, and the first bits of
\* the last one.
ReadBits(at, n) ==
  LET head  == IF at % 8 > 0 THEN Min({8 - (at % 8), n}) ELSE 0
      byte  == at \div 8 + (IF at % 8 > 0 THEN 1 ELSE 0)
      whole == (n - head) \div 8
  IN Bits(at, head) \o Bits(8 * byte, 8 * whole) \o Bits(8 * (byte + whole), (n - head) % 8)

Read(name, bits) == [name |-> name, bits |-> bits]

Skip(bits) == Read("reserved", bits)

\* Where the first i of the reads end.
EndOf(at, reads, i) ==
  LET e[k \in 0 .. i] == IF k = 0 THEN at ELSE e[k - 1] + reads[k].bits
  IN e[i]

Total(reads) == EndOf(0, reads, Len(reads))

\* The values of reads made one after the other from bit at on, up to the first
\* that is out of the range of size bytes.
ReadFields(at, reads, size) ==
  LET read == {i \in DOMAIN reads :
                 reads[i].name # "reserved" /\ EndOf(at, reads, i) <= 8 * size}
  IN [n \in {reads[i].name : i \in read} |->
        LET i == CHOOSE k \in read : reads[k].name = n
        IN ReadBits(EndOf(at, reads, i - 1), reads[i].bits)]

OutOfRange(at, reads, size) == EndOf(at, reads, Len(reads)) > 8 * size

-------------------------------------------------------------------------------
(* fieldBuilder.                                                             *)

BitsAt(offset, first, length) == [at |-> 8 * offset + first, length |-> length]

\* readBits: the runs one after the other.
Concat(runs) == FlattenSeq([i \in DOMAIN runs |-> Bits(runs[i].at, runs[i].length)])

ValueAt(bytes, run) == Value(bytes, Concat(<<run>>))

\* addBits: the bytes that cover the runs, and the runs unless they are all of
\* those bytes.
Field(name, runs) ==
  LET last   == runs[Len(runs)]
      offset == runs[1].at \div 8
      end    == (last.at + last.length + 7) \div 8
  IN [name |-> name, offset |-> offset, length |-> end - offset,
      runs |-> IF Len(Concat(runs)) = 8 * (end - offset) THEN <<>> ELSE runs]

Inside(field, size) == field.offset + field.length <= size

\* The bits a reader of the document takes the value from.
Shown(field) ==
  IF field.runs = <<>> THEN Bits(8 * field.offset, 8 * field.length) ELSE Concat(field.runs)

\* The fields of a layer that lie in a packet of size bytes.
Layer(fields, size) ==
  LET inside == {f \in ToSet(fields) : Inside(f, size)}
  IN [n \in {f.name : f \in inside} |-> Shown(CHOOSE f \in inside : f.name = n)]

Truncated(fields, size) == \E f \in ToSet(fields) : ~Inside(f, size)
===============================================================================
