------------------------------- MODULE Psi_proofs -------------------------------
(***************************************************************************)
(* Proofs about PsiReader, for every size of a packet and of the sections:   *)
(* whatever happens to the packets, the reader hands on the sections that    *)
(* arrived, as they were sent and in order.  And about PacketChecks: a        *)
(* section that is lost is told of, and continuity errors are counted for    *)
(* gaps and for nothing else.                                                *)
(***************************************************************************)
EXTENDS PacketChecks, Induction, SequenceTheorems, FunctionTheorems

-------------------------------------------------------------------------------
(* The bytes that are sent.                                                  *)

Byte == Nat \X Nat

Ids == 1 .. MaxSections

\* A section has at least a header.
LEMMA SizeIs ==
  ASSUME sizes \in [Ids -> Sizes], NEW id \in Ids
  PROVE  /\ sizes[id] \in Nat /\ sizes[id] >= HeaderSize /\ sizes[id] >= 1
         /\ HeaderSize \in Nat /\ HeaderSize >= 1
         /\ id \in Nat /\ id >= 1
<1>1. HeaderSize \in Nat /\ HeaderSize >= 1
  BY ReaderAssumption
<1>2. id \in Nat /\ id >= 1
  BY ReaderAssumption DEF Ids
<1>3. sizes[id] \in Sizes
  OBVIOUS
<1>4. sizes[id] \in Nat /\ sizes[id] >= HeaderSize
  BY <1>3, ReaderAssumption
<1>5. QED BY <1>1, <1>2, <1>4

\* The bytes of a section.
LEMMA BytesAre ==
  ASSUME sizes \in [Ids -> Sizes], NEW id \in Ids
  PROVE  /\ Bytes(id) \in Seq(Byte)
         /\ Len(Bytes(id)) = sizes[id]
         /\ \A i \in 1 .. sizes[id] : Bytes(id)[i] = <<id, i>>
<1>1. sizes[id] \in Nat /\ id \in Nat
  BY SizeIs
<1>2. \A i \in 1 .. sizes[id] : <<id, i>> \in Byte
  BY <1>1 DEF Byte
<1>3. QED BY <1>1, <1>2 DEF Bytes

\* The bytes of the next n sections.
Upcoming(n) == Begins(NextIds(n))
Ends(n) == Len(Upcoming(n))

\* One section comes after the others.
LEMMA NextSections ==
  ASSUME sizes \in [Ids -> Sizes], sending \in 0 .. MaxSections
  PROVE  /\ Upcoming(0) = <<>>
         /\ \A n \in 0 .. MaxSections - sending : Upcoming(n) \in Seq(Byte)
         /\ \A n \in 1 .. MaxSections - sending : Upcoming(n) = Upcoming(n - 1) \o Bytes(sending + n)
<1>1. MaxSections \in Nat /\ sending \in Nat /\ MaxSections - sending \in Nat
  BY ReaderAssumption
<1> DEFINE N == MaxSections - sending
           f == [k \in 1 .. N |-> Bytes(sending + k)]
<1>2. f \in [1 .. N -> Seq(Byte)]
  <2>1. ASSUME NEW k \in 1 .. N PROVE Bytes(sending + k) \in Seq(Byte)
    <3>1. sending + k \in Ids
      BY <1>1 DEF Ids
    <3>2. QED BY <3>1, BytesAre
  <2>2. QED BY <2>1
<1>3. ASSUME NEW n \in 0 .. N
      PROVE  Upcoming(n) = FlattenSeq([k \in 1 .. n |-> f[k]])
  <2>1. n \in Nat /\ \A k \in 1 .. n : k \in 1 .. N
    BY <1>1
  <2>2. DOMAIN NextIds(n) = 1 .. n /\ \A k \in 1 .. n : NextIds(n)[k] = sending + k
    BY <2>1 DEF NextIds
  <2>3. [k \in DOMAIN NextIds(n) |-> Bytes(NextIds(n)[k])] = [k \in 1 .. n |-> f[k]]
    BY <2>1, <2>2
  <2> HIDE DEF f
  <2>4. QED BY <2>3 DEF Upcoming, Begins
<1>4. \A n \in 1 .. N : f[n] = Bytes(sending + n)
  OBVIOUS
<1>5. \A n \in 1 .. N : n \in 0 .. N /\ n - 1 \in 0 .. N
  BY <1>1
<1>6. N \in Nat /\ 0 \in 0 .. N
  BY <1>1
<1> HIDE DEF f, N
<1>7. /\ FlattenSeq([k \in 1 .. 0 |-> f[k]]) = <<>>
      /\ \A n \in 0 .. N : FlattenSeq([k \in 1 .. n |-> f[k]]) \in Seq(Byte)
      /\ \A n \in 1 .. N :
           FlattenSeq([k \in 1 .. n |-> f[k]]) = FlattenSeq([k \in 1 .. n - 1 |-> f[k]]) \o f[n]
  BY <1>2, <1>6, FlattenStep
<1>8. \A n \in 1 .. N : Upcoming(n) = Upcoming(n - 1) \o Bytes(sending + n)
  BY <1>3, <1>4, <1>5, <1>7
<1>9. QED BY <1>3, <1>6, <1>7, <1>8 DEF N

\* Where the next sections end.
LEMMA EndsAre ==
  ASSUME sizes \in [Ids -> Sizes], sending \in 0 .. MaxSections
  PROVE  /\ Ends(0) = 0
         /\ \A n \in 0 .. MaxSections - sending : Ends(n) \in Nat
         /\ \A n \in 1 .. MaxSections - sending :
              /\ sending + n \in Ids
              /\ Ends(n) = Ends(n - 1) + sizes[sending + n]
              /\ Ends(n) > Ends(n - 1)
<1>0. MaxSections \in Nat /\ sending \in Nat /\ MaxSections - sending \in Nat
  BY ReaderAssumption
<1>1. Ends(0) = 0
  BY NextSections DEF Ends
<1>2. \A n \in 0 .. MaxSections - sending : Ends(n) \in Nat
  BY NextSections DEF Ends
<1>3. ASSUME NEW n \in 1 .. MaxSections - sending
      PROVE  /\ sending + n \in Ids
             /\ Ends(n) = Ends(n - 1) + sizes[sending + n]
             /\ Ends(n) > Ends(n - 1)
  <2>1. sending + n \in Ids /\ n - 1 \in 0 .. MaxSections - sending
    BY <1>0 DEF Ids
  <2>2. /\ Upcoming(n - 1) \in Seq(Byte) /\ Bytes(sending + n) \in Seq(Byte)
        /\ Upcoming(n) = Upcoming(n - 1) \o Bytes(sending + n)
        /\ Len(Bytes(sending + n)) = sizes[sending + n]
    BY <2>1, NextSections, BytesAre
  <2>3. Ends(n) = Ends(n - 1) + sizes[sending + n]
    BY <2>2, ConcatProperties DEF Ends
  <2>4. sizes[sending + n] \in Nat /\ sizes[sending + n] >= 1 /\ Ends(n - 1) \in Nat
    BY <1>2, <2>1, SizeIs
  <2>5. QED BY <2>1, <2>3, <2>4
<1>4. QED BY <1>1, <1>2, <1>3

\* Which byte of the next sections is where.
LEMMA BytesOfNext ==
  ASSUME sizes \in [Ids -> Sizes], sending \in 0 .. MaxSections,
         NEW n \in 0 .. MaxSections - sending
  PROVE  /\ \A k \in 1 .. n :
              /\ Ends(k) <= Ends(n)
              /\ \A j \in 1 .. sizes[sending + k] : Upcoming(n)[Ends(k - 1) + j] = <<sending + k, j>>
         /\ \A i \in 1 .. Ends(n) :
              \E k \in 1 .. n : \E j \in 1 .. sizes[sending + k] : i = Ends(k - 1) + j
<1>0. MaxSections \in Nat /\ sending \in Nat /\ MaxSections - sending \in Nat
  BY ReaderAssumption
<1> DEFINE M == MaxSections - sending
           Good(m) ==
             /\ \A k \in 1 .. m :
                  /\ Ends(k) <= Ends(m)
                  /\ \A j \in 1 .. sizes[sending + k] : Upcoming(m)[Ends(k - 1) + j] = <<sending + k, j>>
             /\ \A i \in 1 .. Ends(m) :
                  \E k \in 1 .. m : \E j \in 1 .. sizes[sending + k] : i = Ends(k - 1) + j
           Q == {m \in Nat : m <= M => Good(m)}
<1>1. 0 \in Q
  BY EndsAre
<1>2. ASSUME NEW m \in Nat, m \in Q PROVE m + 1 \in Q
  <2>1. SUFFICES ASSUME m + 1 <= M PROVE Good(m + 1)
    <3> HIDE DEF Good
    <3> QED OBVIOUS
  <2>0. m + 1 \in 1 .. M /\ m \in 0 .. M /\ m + 1 \in 0 .. M /\ (m + 1) - 1 = m
    BY <1>0, <2>1
  <2>2. Good(m)
    <3> HIDE DEF Good
    <3> QED BY <1>2, <2>0
  <2> DEFINE id == sending + (m + 1)
  <2>3. /\ Upcoming(m) \in Seq(Byte) /\ Bytes(id) \in Seq(Byte) /\ id \in Ids
        /\ Upcoming(m + 1) = Upcoming(m) \o Bytes(id)
        /\ Ends(m + 1) = Ends(m) + sizes[id] /\ sizes[id] \in Nat /\ Len(Bytes(id)) = sizes[id]
        /\ Ends(m) \in Nat /\ Len(Upcoming(m)) = Ends(m)
        /\ \A j \in 1 .. sizes[id] : Bytes(id)[j] = <<id, j>>
    <3>1. id \in Ids /\ Ends(m) \in Nat /\ Ends(m + 1) = Ends(m) + sizes[id]
      BY <2>0, EndsAre
    <3>2. Upcoming(m) \in Seq(Byte) /\ Upcoming(m + 1) = Upcoming(m) \o Bytes(id)
      BY <2>0, NextSections
    <3> HIDE DEF id
    <3>3. QED BY <3>1, <3>2, SizeIs, BytesAre DEF Ends
  <2>4. \A i \in 1 .. Ends(m) + sizes[id] :
          Upcoming(m + 1)[i] = IF i <= Ends(m) THEN Upcoming(m)[i] ELSE Bytes(id)[i - Ends(m)]
    <3> HIDE DEF id
    <3> QED BY <2>3, ConcatProperties
  <2>5. ASSUME NEW k \in 1 .. m + 1
        PROVE  /\ Ends(k) <= Ends(m + 1)
               /\ \A j \in 1 .. sizes[sending + k] : Upcoming(m + 1)[Ends(k - 1) + j] = <<sending + k, j>>
    <3>1. CASE k = m + 1
      <4>1. ASSUME NEW j \in 1 .. sizes[id] PROVE Upcoming(m + 1)[Ends(m) + j] = <<id, j>>
        <5>1. /\ Ends(m) + j \in 1 .. Ends(m) + sizes[id] /\ ~(Ends(m) + j <= Ends(m))
              /\ Ends(m) + j - Ends(m) = j
          <6> HIDE DEF id
          <6> QED BY <2>3
        <5> DEFINE e == Ends(m) + j
        <5>2. e \in 1 .. Ends(m) + sizes[id] /\ ~(e <= Ends(m)) /\ e - Ends(m) = j
          <6> HIDE DEF id
          <6> QED BY <2>3, <5>1
        <5> HIDE DEF id, e
        <5>3. Upcoming(m + 1)[e] = Bytes(id)[e - Ends(m)]
          BY <2>4, <5>2
        <5>4. Upcoming(m + 1)[e] = <<id, j>>
          BY <2>3, <5>2, <5>3
        <5>5. QED BY <5>4 DEF e
      <4>2. Ends(m + 1) <= Ends(m + 1) /\ k - 1 = m
        <5> HIDE DEF id
        <5>1. Ends(m + 1) \in Nat
          BY <2>3
        <5>2. QED BY <3>1, <5>1
      <4>3. QED BY <3>1, <4>1, <4>2
    <3>2. CASE k # m + 1
      <4>1. k \in 1 .. m /\ k \in 1 .. M /\ k - 1 \in 0 .. M
        BY <1>0, <2>0, <3>2
      <4>2. /\ Ends(k) <= Ends(m) /\ Ends(k) = Ends(k - 1) + sizes[sending + k] /\ sending + k \in Ids
            /\ Ends(k - 1) \in Nat /\ Ends(k) \in Nat
        BY <1>0, <2>0, <2>2, <4>1, EndsAre
      <4>3. sizes[sending + k] \in Nat
        BY <4>2, SizeIs
      <4>4. ASSUME NEW j \in 1 .. sizes[sending + k]
            PROVE  Upcoming(m + 1)[Ends(k - 1) + j] = <<sending + k, j>>
        <5>1. Ends(k - 1) + j \in 1 .. Ends(m) + sizes[id] /\ Ends(k - 1) + j <= Ends(m)
          <6> HIDE DEF id
          <6> QED BY <2>3, <4>2, <4>3
        <5>2. Upcoming(m)[Ends(k - 1) + j] = <<sending + k, j>>
          BY <2>2, <4>1
        <5>3. Upcoming(m + 1)[Ends(k - 1) + j] = Upcoming(m)[Ends(k - 1) + j]
          <6> HIDE DEF id
          <6> QED BY <2>4, <5>1
        <5>4. QED BY <5>2, <5>3
      <4>5. Ends(k) <= Ends(m + 1)
        <5> HIDE DEF id
        <5> QED BY <2>3, <4>2
      <4>6. QED BY <4>4, <4>5
    <3>3. QED BY <3>1, <3>2
  <2>6. ASSUME NEW i \in 1 .. Ends(m + 1)
        PROVE  \E k \in 1 .. m + 1 : \E j \in 1 .. sizes[sending + k] : i = Ends(k - 1) + j
    <3>1. CASE i <= Ends(m)
      <4>1. i \in 1 .. Ends(m)
        BY <2>3, <3>1
      <4>2. PICK k \in 1 .. m : \E j \in 1 .. sizes[sending + k] : i = Ends(k - 1) + j
        BY <2>2, <4>1
      <4>3. k \in 1 .. m + 1
        OBVIOUS
      <4>4. QED BY <4>2, <4>3
    <3>2. CASE ~(i <= Ends(m))
      <4>1. i - Ends(m) \in 1 .. sizes[id] /\ i = Ends(m) + (i - Ends(m))
        <5> HIDE DEF id
        <5> QED BY <2>3, <3>2
      <4>2. m + 1 \in 1 .. m + 1 /\ (m + 1) - 1 = m
        OBVIOUS
      <4>3. QED BY <4>1, <4>2
    <3>3. QED BY <3>1, <3>2
  <2>7. QED BY <2>5, <2>6
<1>3. \A m \in Nat : m \in Q
  <2> HIDE DEF Q
  <2> QED BY <1>1, <1>2, SetInduction
<1>4. n \in Nat /\ n <= M
  BY <1>0
<1>5. QED BY <1>3, <1>4

-------------------------------------------------------------------------------
(* What the reader makes of a packet in which sections start.                *)

\* A section as it is handed on.
Handed(id, offset) == [data |-> Bytes(id), at |-> offset]

\* The sections from the k-th to the last one that begin in a packet.
HandedFrom(k, last, offset) == [i \in 1 .. last - k + 1 |-> Handed(sending + (k + i - 1), offset)]

LastWhole(n, room) == IF Ends(n) <= room THEN n ELSE n - 1

\* The bytes of n sections that start in a packet, the last at least with its first
\* byte, up to the end of the packet.
Carries(data, n) ==
  /\ n \in 1 .. MaxSections - sending
  /\ data \in Seq(Byte) /\ Len(data) > Ends(n - 1)
  /\ \A i \in 1 .. Len(data) : data[i] = IF i <= Ends(n) THEN Upcoming(n)[i] ELSE Stuffing

\* Which bytes those are.
LEMMA BytesCarried ==
  ASSUME sizes \in [Ids -> Sizes], sending \in 0 .. MaxSections, NEW n, NEW data, Carries(data, n)
  PROVE  /\ \A k \in 1 .. n : \A j \in 1 .. sizes[sending + k] :
              Ends(k - 1) + j <= Len(data) => data[Ends(k - 1) + j] = <<sending + k, j>>
         /\ \A i \in 1 .. Len(data) :
              data[i] = Stuffing \/ \E id \in Ids : \E j \in Nat : data[i] = <<id, j>>
<1>0. /\ MaxSections \in Nat /\ sending \in Nat /\ MaxSections - sending \in Nat
      /\ n \in 1 .. MaxSections - sending /\ n \in 0 .. MaxSections - sending
  BY ReaderAssumption DEF Carries
<1>1. ASSUME NEW k \in 1 .. n, NEW j \in 1 .. sizes[sending + k]
      PROVE  /\ Ends(k - 1) + j \in Nat \ {0} /\ Ends(k - 1) + j <= Ends(n)
             /\ Upcoming(n)[Ends(k - 1) + j] = <<sending + k, j>>
  <2>1. k \in 1 .. MaxSections - sending /\ k - 1 \in 0 .. MaxSections - sending
    BY <1>0
  <2>2. /\ Ends(k) = Ends(k - 1) + sizes[sending + k] /\ sending + k \in Ids
        /\ Ends(k - 1) \in Nat /\ Ends(n) \in Nat
    BY <1>0, <2>1, EndsAre
  <2>3. Ends(k) <= Ends(n) /\ Upcoming(n)[Ends(k - 1) + j] = <<sending + k, j>>
    BY <1>0, BytesOfNext
  <2>4. sizes[sending + k] \in Nat
    BY <2>2, SizeIs
  <2>5. QED BY <2>2, <2>3, <2>4
<1>2. ASSUME NEW k \in 1 .. n, NEW j \in 1 .. sizes[sending + k], Ends(k - 1) + j <= Len(data)
      PROVE  data[Ends(k - 1) + j] = <<sending + k, j>>
  <2> DEFINE e == Ends(k - 1) + j
  <2>1. Len(data) \in Nat
    BY DEF Carries
  <2>2. e \in Nat \ {0} /\ e <= Ends(n) /\ e <= Len(data) /\ Upcoming(n)[e] = <<sending + k, j>>
    BY <1>1, <1>2
  <2> HIDE DEF e
  <2>3. e \in 1 .. Len(data)
    BY <2>1, <2>2
  <2>4. data[e] = <<sending + k, j>>
    BY <2>2, <2>3 DEF Carries
  <2>5. QED BY <2>4 DEF e
<1>3. ASSUME NEW i \in 1 .. Len(data)
      PROVE  data[i] = Stuffing \/ \E id \in Ids : \E j \in Nat : data[i] = <<id, j>>
  <2>1. CASE i <= Ends(n)
    <3>1. i \in 1 .. Ends(n) /\ data[i] = Upcoming(n)[i]
      <4>1. Ends(n) \in Nat /\ Len(data) \in Nat
        BY <1>0, EndsAre DEF Carries
      <4>2. QED BY <2>1, <4>1 DEF Carries
    <3>2. PICK k \in 1 .. n : \E j \in 1 .. sizes[sending + k] : i = Ends(k - 1) + j
      BY <1>0, <3>1, BytesOfNext
    <3>3. PICK j \in 1 .. sizes[sending + k] : i = Ends(k - 1) + j
      BY <3>2
    <3>4. data[i] = <<sending + k, j>>
      BY <1>1, <3>1, <3>3
    <3>5. sending + k \in Ids
      BY <1>0 DEF Ids
    <3>6. j \in Nat
      BY <3>5, SizeIs
    <3>7. QED BY <3>4, <3>5, <3>6
  <2>2. CASE ~(i <= Ends(n))
    BY <2>2 DEF Carries
  <2>3. QED BY <2>1, <2>2
<1>4. QED BY <1>2, <1>3

\* A section that starts anywhere in the packet ends after where it starts.
LEMMA SectionGoesOn ==
  ASSUME sizes \in [Ids -> Sizes], sending \in 0 .. MaxSections, NEW n, NEW data, Carries(data, n),
         NEW i \in 1 .. Len(data), Complete(SubSeq(data, i, Len(data))), NEW offset
  PROVE  i + Len(Section(SubSeq(data, i, Len(data)), offset).data) \in i + 1 .. Len(data) + 1
<1> DEFINE N == Len(data)
           left == SubSeq(data, i, N)
<1>1. data \in Seq(Byte) /\ N \in Nat /\ \A j \in 1 .. N : data[j] \in Byte
  BY DEF Carries
<1>2. HeaderSize \in Nat /\ HeaderSize >= 1
  BY ReaderAssumption
<1>3. left \in Seq(Byte) /\ Len(left) = N - i + 1 /\ \A j \in 1 .. N - i + 1 : left[j] = data[i + j - 1]
  <2> HIDE DEF N
  <2>1. \A j \in i .. N : data[j] \in Byte
    BY <1>1
  <2>2. i \in Int /\ N \in Int /\ i <= N
    BY <1>1 DEF N
  <2>3. QED BY <2>1, <2>2, SubSeqProperties
<1> HIDE DEF left
<1>4. Len(left) >= HeaderSize /\ left[HeaderSize] # Stuffing /\ Len(left) >= sizes[left[HeaderSize][1]]
  BY DEF Complete, left
<1>5. HeaderSize \in 1 .. N - i + 1 /\ i + HeaderSize - 1 \in 1 .. N
  BY <1>1, <1>2, <1>3, <1>4
<1>6. left[HeaderSize] = data[i + HeaderSize - 1]
  BY <1>3, <1>5
<1>7. PICK id \in Ids : \E j \in Nat : left[HeaderSize] = <<id, j>>
  <2> DEFINE e == i + HeaderSize - 1
  <2>1. e \in 1 .. Len(data) /\ left[HeaderSize] = data[e]
    BY <1>5, <1>6
  <2> HIDE DEF e, N
  <2>2. QED BY <1>4, <2>1, BytesCarried
<1>8. left[HeaderSize][1] = id
  BY <1>7
<1>9. sizes[id] \in Nat /\ sizes[id] >= 1 /\ sizes[id] <= Len(left)
  BY <1>4, <1>8, SizeIs
<1>10. Section(left, offset).data = SubSeq(left, 1, sizes[id])
  BY <1>8 DEF Section
<1>11. Len(SubSeq(left, 1, sizes[id])) = sizes[id]
  <2>1. \A j \in 1 .. sizes[id] : left[j] \in Byte
    BY <1>3, <1>9
  <2>2. QED BY <1>9, <2>1, SubSeqProperties
<1>12. QED BY <1>1, <1>3, <1>9, <1>10, <1>11 DEF left

\* The value Begin has at a place, from those at the places after it.
ValueAt(r, data, offset, h, i) ==
  LET left == SubSeq(data, i, Len(data)) IN
  IF i > Len(data) \/ left[1] = Stuffing THEN [reader |-> r, sections |-> <<>>]
  ELSE IF ~Complete(left)
    THEN [reader |-> [r EXCEPT !.collecting = TRUE, !.buf = left, !.start = offset], sections |-> <<>>]
  ELSE LET s == Section(left, offset)
           later == h[i + Len(s.data)]
       IN [later EXCEPT !.sections = <<s>> \o @]

\* Those places are all that it depends on.
LEMMA LaterPlaces ==
  ASSUME sizes \in [Ids -> Sizes], sending \in 0 .. MaxSections, NEW n, NEW data, Carries(data, n),
         NEW r, NEW offset, NEW i \in 1 .. Len(data) + 1, NEW g, NEW h,
         \A j \in i + 1 .. Len(data) + 1 : g[j] = h[j]
  PROVE  ValueAt(r, data, offset, g, i) = ValueAt(r, data, offset, h, i)
<1> DEFINE left == SubSeq(data, i, Len(data))
<1>1. Len(data) \in Nat
  BY DEF Carries
<1>2. CASE i > Len(data) \/ left[1] = Stuffing \/ ~Complete(left)
  BY <1>2 DEF ValueAt
<1>3. CASE ~(i > Len(data) \/ left[1] = Stuffing) /\ Complete(left)
  <2>1. i \in 1 .. Len(data)
    BY <1>1, <1>3
  <2>2. i + Len(Section(left, offset).data) \in i + 1 .. Len(data) + 1
    <3> HIDE DEF left
    <3> QED BY <1>3, <2>1, SectionGoesOn DEF left
  <2> DEFINE e == i + Len(Section(left, offset).data)
  <2>3. g[e] = h[e]
    <3> HIDE DEF left
    <3> QED BY <2>2
  <2> HIDE DEF e
  <2>4. /\ ValueAt(r, data, offset, g, i) = [g[e] EXCEPT !.sections = <<Section(left, offset)>> \o @]
        /\ ValueAt(r, data, offset, h, i) = [h[e] EXCEPT !.sections = <<Section(left, offset)>> \o @]
    BY <1>3 DEF ValueAt, e
  <2>5. QED BY <2>3, <2>4
<1>4. QED BY <1>2, <1>3

\* Begin has a value at each place.
LEMMA BeginRecurs ==
  ASSUME sizes \in [Ids -> Sizes], sending \in 0 .. MaxSections, NEW n, NEW data, Carries(data, n),
         NEW r, NEW offset
  PROVE  \E from : /\ Begin(r, data, offset) = from[1]
                   /\ \A i \in 1 .. Len(data) + 1 : from[i] = ValueAt(r, data, offset, from, i)
<1> DEFINE N == Len(data)
           body(h) == [i \in 1 .. N + 1 |-> ValueAt(r, data, offset, h, i)]
           from == CHOOSE h : h = body(h)
           Solves(h, m) == \A i \in N + 1 - m .. N + 1 : h[i] = ValueAt(r, data, offset, h, i)
           Q == {m \in Nat : m <= N => \E h : Solves(h, m)}
<1>0. N \in Nat
  BY DEF Carries
<1>1. 0 \in Q
  <2> DEFINE h == [i \in {N + 1} |-> [reader |-> r, sections |-> <<>>]]
  <2>1. ASSUME NEW i \in N + 1 - 0 .. N + 1 PROVE h[i] = ValueAt(r, data, offset, h, i)
    <3>1. i = N + 1 /\ i > N
      BY <1>0
    <3>2. QED BY <3>1 DEF ValueAt
  <2>2. Solves(h, 0)
    BY <2>1
  <2> HIDE DEF h, Solves
  <2>3. QED BY <2>2
<1>2. ASSUME NEW m \in Nat, m \in Q PROVE m + 1 \in Q
  <2>1. SUFFICES ASSUME m + 1 <= N PROVE \E h : Solves(h, m + 1)
    <3> HIDE DEF Solves
    <3> QED OBVIOUS
  <2>2. PICK g : Solves(g, m)
    <3> HIDE DEF Solves
    <3>1. m <= N
      BY <1>0, <2>1
    <3>2. QED BY <1>2, <3>1
  <2> DEFINE h == [i \in 1 .. N + 1 |-> IF i = N - m THEN ValueAt(r, data, offset, g, i) ELSE g[i]]
  <2>3. ASSUME NEW i \in N + 1 - (m + 1) .. N + 1 PROVE h[i] = ValueAt(r, data, offset, h, i)
    <3>1. i \in 1 .. N + 1 /\ (i = N - m \/ i \in N + 1 - m .. N + 1)
      BY <1>0, <2>1
    <3>2. \A j \in i + 1 .. N + 1 : g[j] = h[j]
      <4>1. ASSUME NEW j \in i + 1 .. N + 1 PROVE g[j] = h[j]
        <5>1. j \in 1 .. N + 1 /\ j # N - m
          BY <1>0, <3>1
        <5>2. QED BY <5>1
      <4>2. QED BY <4>1
    <3>3. h[i] = IF i = N - m THEN ValueAt(r, data, offset, g, i) ELSE g[i]
      BY <3>1
    <3> HIDE DEF h
    <3>4. ValueAt(r, data, offset, g, i) = ValueAt(r, data, offset, h, i)
      BY <3>1, <3>2, LaterPlaces
    <3>5. i # N - m => g[i] = ValueAt(r, data, offset, g, i)
      BY <2>2, <3>1
    <3>6. QED BY <3>3, <3>4, <3>5
  <2>4. Solves(h, m + 1)
    <3> HIDE DEF h
    <3> QED BY <2>3
  <2> HIDE DEF h, Solves
  <2>5. QED BY <2>4
<1>3. \A m \in Nat : m \in Q
  <2> HIDE DEF Q
  <2> QED BY <1>1, <1>2, SetInduction
<1>4. PICK g : Solves(g, N)
  <2> HIDE DEF Solves
  <2> QED BY <1>0, <1>3
<1>5. body(g) = body(body(g))
  <2> DEFINE b == body(g)
  <2>1. ASSUME NEW i \in 1 .. N + 1 PROVE b[i] = g[i]
    <3>1. i \in N + 1 - N .. N + 1
      BY <1>0
    <3>2. g[i] = ValueAt(r, data, offset, g, i)
      BY <1>4, <3>1
    <3>3. QED BY <3>2
  <2>2. ASSUME NEW i \in 1 .. N + 1
        PROVE  ValueAt(r, data, offset, g, i) = ValueAt(r, data, offset, b, i)
    <3>1. \A j \in i + 1 .. N + 1 : j \in 1 .. N + 1
      BY <1>0
    <3>2. \A j \in i + 1 .. N + 1 : g[j] = b[j]
      BY <2>1, <3>1
    <3> HIDE DEF b
    <3>3. QED BY <3>2, LaterPlaces
  <2> HIDE DEF b
  <2>3. body(g) = body(b)
    BY <2>2
  <2>4. QED BY <2>3 DEF b
<1>6. from = body(from)
  <2> HIDE DEF body
  <2> QED BY <1>5
<1>7. Begin(r, data, offset) = from[1]
  BY DEF Begin, ValueAt
<1> HIDE DEF from
<1>8. ASSUME NEW i \in 1 .. N + 1 PROVE from[i] = ValueAt(r, data, offset, from, i)
  <2>1. body(from)[i] = ValueAt(r, data, offset, from, i)
    OBVIOUS
  <2> HIDE DEF body
  <2>2. QED BY <1>6, <2>1
<1>9. QED BY <1>7, <1>8

\* What n sections that begin in so many bytes leave the reader with.
Left(r, n, room, offset) ==
  IF Ends(n) <= room THEN r
  ELSE [r EXCEPT !.collecting = TRUE, !.buf = SubSeq(Bytes(sending + n), 1, room - Ends(n - 1)),
                 !.start = offset]

BegunFrom(r, k, n, room, offset) ==
  [reader |-> Left(r, n, room, offset), sections |-> HandedFrom(k, LastWhole(n, room), offset)]

\* One section comes before the others.
LEMMA WholeFrom ==
  ASSUME sending \in Nat, NEW last \in Nat, NEW offset
  PROVE  /\ HandedFrom(last + 1, last, offset) = <<>>
         /\ \A k \in 1 .. last :
              HandedFrom(k, last, offset) = <<Handed(sending + k, offset)>> \o HandedFrom(k + 1, last, offset)
<1> DEFINE T == {Handed(sending + i, offset) : i \in Nat}
<1>1. HandedFrom(last + 1, last, offset) = <<>>
  BY DEF HandedFrom
<1>2. ASSUME NEW k \in 1 .. last
      PROVE  HandedFrom(k, last, offset) = <<Handed(sending + k, offset)>> \o HandedFrom(k + 1, last, offset)
  <2> DEFINE head == <<Handed(sending + k, offset)>>
             later == HandedFrom(k + 1, last, offset)
             n == last - k
  <2>0. n \in Nat /\ last - k + 1 = n + 1 /\ last - (k + 1) + 1 = n
    OBVIOUS
  <2>1. head \in Seq(T) /\ Len(head) = 1 /\ head[1] = Handed(sending + k, offset)
    <3> DEFINE x == Handed(sending + k, offset)
    <3>1. x \in T
      OBVIOUS
    <3>2. head = <<x>>
      OBVIOUS
    <3> HIDE DEF T, x, head
    <3>3. head \in Seq(T) /\ Len(head) = 1 /\ head[1] = x
      BY <3>1, <3>2
    <3>4. QED BY <3>3 DEF x
  <2>2. /\ later \in Seq(T) /\ Len(later) = n
        /\ \A i \in 1 .. n : later[i] = Handed(sending + (k + 1 + i - 1), offset)
    <3>1. \A i \in 1 .. n : Handed(sending + (k + 1 + i - 1), offset) \in T
      <4>1. \A i \in 1 .. n : k + 1 + i - 1 \in Nat
        OBVIOUS
      <4> HIDE DEF n
      <4>2. QED BY <4>1
    <3>2. later = [i \in 1 .. n |-> Handed(sending + (k + 1 + i - 1), offset)]
      BY <2>0 DEF HandedFrom
    <3> HIDE DEF T, n, later
    <3>3. QED BY <2>0, <3>1, <3>2
  <2>3. /\ HandedFrom(k, last, offset) \in Seq(T) /\ Len(HandedFrom(k, last, offset)) = n + 1
        /\ \A i \in 1 .. n + 1 : HandedFrom(k, last, offset)[i] = Handed(sending + (k + i - 1), offset)
    <3>1. \A i \in 1 .. n + 1 : Handed(sending + (k + i - 1), offset) \in T
      <4>1. \A i \in 1 .. n + 1 : k + i - 1 \in Nat
        OBVIOUS
      <4> HIDE DEF n
      <4>2. QED BY <4>1
    <3>2. HandedFrom(k, last, offset) = [i \in 1 .. n + 1 |-> Handed(sending + (k + i - 1), offset)]
      BY <2>0 DEF HandedFrom
    <3> HIDE DEF T, n
    <3>3. QED BY <2>0, <3>1, <3>2
  <2> HIDE DEF T, n, head, later
  <2>4. /\ head \o later \in Seq(T) /\ Len(head \o later) = 1 + n
        /\ \A i \in 1 .. 1 + n : (head \o later)[i] = IF i <= 1 THEN head[i] ELSE later[i - 1]
    <3>1. \A i \in 1 .. Len(head) + Len(later) :
            (head \o later)[i] = IF i <= Len(head) THEN head[i] ELSE later[i - Len(head)]
      BY <2>1, <2>2, ConcatProperties
    <3>2. head \o later \in Seq(T) /\ Len(head \o later) = Len(head) + Len(later)
      BY <2>1, <2>2, ConcatProperties
    <3>3. QED BY <2>0, <2>1, <2>2, <3>1, <3>2
  <2>5. ASSUME NEW i \in 1 .. 1 + n PROVE (head \o later)[i] = HandedFrom(k, last, offset)[i]
    <3>1. CASE i = 1
      <4>1. k + i - 1 = k
        BY <3>1
      <4>2. QED BY <2>0, <2>1, <2>3, <2>4, <3>1, <4>1
    <3>2. CASE i # 1
      <4>1. i - 1 \in 1 .. n /\ k + 1 + (i - 1) - 1 = k + i - 1 /\ ~(i <= 1)
        BY <2>0, <3>2
      <4>2. later[i - 1] = Handed(sending + (k + 1 + (i - 1) - 1), offset)
        BY <2>2, <4>1
      <4>3. later[i - 1] = Handed(sending + (k + i - 1), offset)
        BY <4>1, <4>2
      <4>4. HandedFrom(k, last, offset)[i] = Handed(sending + (k + i - 1), offset)
        BY <2>0, <2>3
      <4>5. (head \o later)[i] = later[i - 1]
        BY <2>4, <4>1
      <4>6. QED BY <4>3, <4>4, <4>5
    <3>3. QED BY <3>1, <3>2
  <2>6. head \o later = HandedFrom(k, last, offset)
    <3> DEFINE all == head \o later
               w == HandedFrom(k, last, offset)
    <3>1. /\ all \in Seq(T) /\ w \in Seq(T) /\ Len(all) = Len(w)
          /\ \A i \in 1 .. Len(all) : all[i] = w[i]
      BY <2>0, <2>3, <2>4, <2>5
    <3> HIDE DEF all, w
    <3>2. all = w
      BY <3>1, SeqEqual
    <3>3. QED BY <3>2 DEF all, w
  <2>7. QED BY <2>6 DEF head, later
<1>3. QED BY <1>1, <1>2

\* The start of a sequence.
LEMMA PrefixIs ==
  ASSUME NEW T, NEW b \in Seq(T), NEW m \in Nat, m <= Len(b)
  PROVE  /\ SubSeq(b, 1, m) \in Seq(T) /\ Len(SubSeq(b, 1, m)) = m
         /\ \A j \in 1 .. m : SubSeq(b, 1, m)[j] = b[j]
<1>1. \A j \in 1 .. m : b[j] \in T
  OBVIOUS
<1>2. /\ SubSeq(b, 1, m) \in Seq(T) /\ Len(SubSeq(b, 1, m)) = IF 1 <= m THEN m - 1 + 1 ELSE 0
      /\ \A j \in 1 .. m - 1 + 1 : SubSeq(b, 1, m)[j] = b[1 + j - 1]
  BY <1>1, SubSeqProperties
<1>3. \A j \in 1 .. m : j \in 1 .. m - 1 + 1 /\ 1 + j - 1 = j
  OBVIOUS
<1>4. QED BY <1>2, <1>3

\* The rest of the packet where the k-th section starts.
From(data, k) == SubSeq(data, Ends(k - 1) + 1, Len(data))

\* What it holds.
LEMMA FromSection ==
  ASSUME sizes \in [Ids -> Sizes], sending \in 0 .. MaxSections, NEW n, NEW data, Carries(data, n),
         NEW k \in 1 .. n
  PROVE  /\ sending \in Nat /\ n \in Nat /\ sending + k \in Ids /\ Len(data) \in Nat
         /\ Ends(k - 1) \in Nat /\ Ends(k - 1) < Len(data)
         /\ Ends(k) = Ends(k - 1) + sizes[sending + k]
         /\ From(data, k) \in Seq(Byte) /\ Len(From(data, k)) = Len(data) - Ends(k - 1)
         /\ \A j \in 1 .. sizes[sending + k] :
              Ends(k - 1) + j <= Len(data) => From(data, k)[j] = <<sending + k, j>>
<1>1. /\ MaxSections \in Nat /\ sending \in Nat /\ MaxSections - sending \in Nat
      /\ n \in 1 .. MaxSections - sending /\ n \in 0 .. MaxSections - sending
      /\ n - 1 \in 0 .. MaxSections - sending /\ k \in 1 .. MaxSections - sending
      /\ k - 1 \in 0 .. MaxSections - sending
  BY ReaderAssumption DEF Carries
<1>2. /\ Ends(k - 1) \in Nat /\ Ends(k) = Ends(k - 1) + sizes[sending + k] /\ sending + k \in Ids
      /\ Ends(n - 1) \in Nat
  BY <1>1, EndsAre
<1>3. Ends(k - 1) <= Ends(n - 1)
  <2>1. CASE k = 1
    <3>1. k - 1 = 0
      BY <2>1
    <3>2. QED BY <1>2, <3>1, EndsAre
  <2>2. CASE k # 1
    <3>1. k - 1 \in 1 .. n - 1
      BY <1>1, <2>2
    <3>2. QED BY <1>1, <3>1, BytesOfNext
  <2>3. QED BY <2>1, <2>2
<1>4. data \in Seq(Byte) /\ Len(data) \in Nat /\ Len(data) > Ends(n - 1)
  BY DEF Carries
<1> DEFINE a == Ends(k - 1)
           room == Len(data) - a
<1>5. a \in Nat /\ room \in Nat /\ room >= 1
  BY <1>2, <1>3, <1>4
<1>6. /\ From(data, k) \in Seq(Byte) /\ Len(From(data, k)) = room
      /\ \A j \in 1 .. room : From(data, k)[j] = data[a + j]
  <2> DEFINE left == SubSeq(data, a + 1, Len(data))
  <2>0. From(data, k) = left
    BY DEF From
  <2> HIDE DEF a
  <2>1. \A j \in a + 1 .. Len(data) : data[j] \in Byte
    BY <1>4, <1>5
  <2>2. a + 1 \in Int /\ Len(data) \in Int /\ a + 1 <= Len(data) /\ Len(data) - (a + 1) + 1 = room
    BY <1>4, <1>5
  <2>3. \A j \in 1 .. room : a + 1 + j - 1 = a + j
    BY <1>5
  <2>4. /\ left \in Seq(Byte) /\ Len(left) = room
        /\ \A j \in 1 .. room : left[j] = data[a + 1 + j - 1]
    <3> HIDE DEF room
    <3> QED BY <2>1, <2>2, SubSeqProperties
  <2> HIDE DEF left
  <2>5. QED BY <2>0, <2>3, <2>4
<1>7. ASSUME NEW j \in 1 .. sizes[sending + k], a + j <= Len(data)
      PROVE  From(data, k)[j] = <<sending + k, j>>
  <2>1. j \in Nat /\ j >= 1
    BY <1>2, SizeIs
  <2>2. j \in 1 .. room
    <3> HIDE DEF a
    <3> QED BY <1>4, <1>5, <1>7, <2>1
  <2>3. data[a + j] = <<sending + k, j>>
    BY <1>7, BytesCarried
  <2>4. QED BY <1>6, <2>2, <2>3
<1>8. QED BY <1>1, <1>2, <1>4, <1>5, <1>6, <1>7

\* What follows a section, with it in front.
Onto(x, section) == [x EXCEPT !.sections = <<section>> \o @]

LEMMA OntoIs ==
  ASSUME NEW x, NEW y, NEW section
  PROVE  Onto([reader |-> x, sections |-> y], section) = [reader |-> x, sections |-> <<section>> \o y]
<1> DEFINE rec == [reader |-> x, sections |-> y]
           v == <<section>> \o y
<1>1. rec.sections = y
  OBVIOUS
<1>2. [rec EXCEPT !.sections = v] = [reader |-> x, sections |-> v]
  <2> HIDE DEF v
  <2> QED OBVIOUS
<1>3. Onto(rec, section) = [rec EXCEPT !.sections = v]
  <2> HIDE DEF rec
  <2> QED BY <1>1 DEF Onto
<1>4. QED BY <1>2, <1>3

\* A section is recognised when all of it is there, whatever comes after it.
LEMMA Recognised ==
  ASSUME sizes \in [Ids -> Sizes], NEW id \in Ids, NEW data \in Seq(Byte), Len(data) >= 1,
         \A j \in 1 .. sizes[id] : j <= Len(data) => data[j] = <<id, j>>
  PROVE  /\ data[1] # Stuffing
         /\ Complete(data) <=> Len(data) >= sizes[id]
         /\ \A offset : Complete(data) => Section(data, offset) = Handed(id, offset)
         /\ Len(data) <= sizes[id] => data = SubSeq(Bytes(id), 1, Len(data))
<1>1. /\ sizes[id] \in Nat /\ sizes[id] >= HeaderSize /\ sizes[id] >= 1
      /\ HeaderSize \in Nat /\ HeaderSize >= 1 /\ id \in Nat /\ id >= 1 /\ Len(data) \in Nat
  BY SizeIs
<1>2. \A j : <<id, j>> # Stuffing /\ <<id, j>>[1] = id
  BY <1>1 DEF Stuffing
<1>3. data[1] # Stuffing
  <2>1. data[1] = <<id, 1>>
    BY <1>1
  <2>2. QED BY <1>2, <2>1
<1>4. Len(data) >= HeaderSize => data[HeaderSize] # Stuffing /\ data[HeaderSize][1] = id
  <2>1. SUFFICES ASSUME Len(data) >= HeaderSize
                 PROVE  data[HeaderSize] # Stuffing /\ data[HeaderSize][1] = id
    OBVIOUS
  <2>2. data[HeaderSize] = <<id, HeaderSize>>
    BY <1>1, <2>1
  <2>3. QED BY <1>2, <2>2
<1>5. Complete(data) <=> Len(data) >= sizes[id]
  <2>1. CASE Len(data) >= HeaderSize
    BY <1>4, <2>1 DEF Complete
  <2>2. CASE ~(Len(data) >= HeaderSize)
    BY <1>1, <2>2 DEF Complete
  <2>3. QED BY <2>1, <2>2
<1> DEFINE b == Bytes(id)
<1>6. b \in Seq(Byte) /\ Len(b) = sizes[id] /\ \A j \in 1 .. sizes[id] : b[j] = <<id, j>>
  BY BytesAre
<1>7. ASSUME Complete(data) PROVE SubSeq(data, 1, sizes[id]) = b
  <2> DEFINE s == SubSeq(data, 1, sizes[id])
  <2>1. s \in Seq(Byte) /\ Len(s) = sizes[id] /\ \A j \in 1 .. sizes[id] : s[j] = data[j]
    BY <1>1, <1>5, <1>7, PrefixIs
  <2>2. \A j \in 1 .. sizes[id] : j <= Len(data)
    BY <1>1, <1>5, <1>7
  <2> HIDE DEF s, b
  <2>3. ASSUME NEW j \in 1 .. sizes[id] PROVE s[j] = b[j]
    <3>1. data[j] = <<id, j>>
      BY <2>2
    <3>2. QED BY <1>6, <2>1, <3>1
  <2>5. s = b
    BY <1>6, <2>1, <2>3, SeqEqual
  <2>6. QED BY <2>5 DEF s
<1>8. ASSUME NEW offset, Complete(data) PROVE Section(data, offset) = Handed(id, offset)
  <2>1. data[HeaderSize][1] = id
    BY <1>4, <1>8 DEF Complete
  <2>2. QED BY <1>7, <1>8, <2>1 DEF Section, Handed
<1>9. ASSUME Len(data) <= sizes[id] PROVE data = SubSeq(b, 1, Len(data))
  <2> DEFINE s == SubSeq(b, 1, Len(data))
  <2> HIDE DEF b
  <2>1. s \in Seq(Byte) /\ Len(s) = Len(data) /\ \A j \in 1 .. Len(data) : s[j] = b[j]
    BY <1>1, <1>6, <1>9, PrefixIs
  <2> HIDE DEF s
  <2>2. ASSUME NEW j \in 1 .. Len(data) PROVE data[j] = s[j]
    <3>1. j \in 1 .. sizes[id] /\ j <= Len(data)
      BY <1>1, <1>9
    <3>2. data[j] = <<id, j>>
      BY <3>1
    <3>3. QED BY <1>6, <2>1, <3>1, <3>2
  <2>3. data = s
    BY <2>1, <2>2, SeqEqual
  <2>4. QED BY <2>3 DEF s
<1>10. QED BY <1>3, <1>5, <1>8, <1>9

\* A section that ends in the packet is handed on.
LEMMA SectionWhole ==
  ASSUME sizes \in [Ids -> Sizes], sending \in 0 .. MaxSections, NEW n, NEW data, Carries(data, n),
         NEW k \in 1 .. n, Ends(k) <= Len(data), NEW r, NEW offset, NEW h
  PROVE  ValueAt(r, data, offset, h, Ends(k - 1) + 1) = Onto(h[Ends(k) + 1], Handed(sending + k, offset))
<1> DEFINE id == sending + k
           a == Ends(k - 1)
           left == From(data, k)
           N == Len(data)
<1>1. /\ id \in Ids /\ a \in Nat /\ N \in Nat /\ Ends(k) = a + sizes[id] /\ a < N
      /\ left \in Seq(Byte) /\ Len(left) = N - a
      /\ \A j \in 1 .. sizes[id] : a + j <= N => left[j] = <<id, j>>
  BY FromSection
<1>2. ValueAt(r, data, offset, h, a + 1) =
        IF a + 1 > N \/ left[1] = Stuffing THEN [reader |-> r, sections |-> <<>>]
        ELSE IF ~Complete(left)
          THEN [reader |-> [r EXCEPT !.collecting = TRUE, !.buf = left, !.start = offset], sections |-> <<>>]
        ELSE Onto(h[a + 1 + Len(Section(left, offset).data)], Section(left, offset))
  BY DEF ValueAt, From, Onto
<1>3. a + sizes[id] <= N
  BY <1>1
<1> HIDE DEF id, a, left, N
<1>4. sizes[id] \in Nat
  BY <1>1, SizeIs
<1>5. \A j \in 1 .. sizes[id] : j <= Len(left) => left[j] = <<id, j>>
  BY <1>1, <1>4
<1>6. Len(left) >= 1 /\ Len(left) >= sizes[id] /\ ~(a + 1 > N)
  BY <1>1, <1>3, <1>4
<1>7. left[1] # Stuffing /\ Complete(left) /\ Section(left, offset) = Handed(id, offset)
  BY <1>1, <1>5, <1>6, Recognised
<1>8. a + 1 + Len(Handed(id, offset).data) = Ends(k) + 1
  <2>1. Len(Handed(id, offset).data) = sizes[id]
    BY <1>1, BytesAre DEF Handed
  <2>2. QED BY <1>1, <1>4, <2>1
<1>9. ValueAt(r, data, offset, h, a + 1) = Onto(h[Ends(k) + 1], Handed(id, offset))
  BY <1>2, <1>6, <1>7, <1>8
<1>10. QED BY <1>9 DEF a, id

\* One that does not is collected.
LEMMA SectionPart ==
  ASSUME sizes \in [Ids -> Sizes], sending \in 0 .. MaxSections, NEW n, NEW data, Carries(data, n),
         ~(Ends(n) <= Len(data)), NEW r, NEW offset, NEW h
  PROVE  ValueAt(r, data, offset, h, Ends(n - 1) + 1) =
           [reader |-> Left(r, n, Len(data), offset), sections |-> <<>>]
<1> DEFINE id == sending + n
           a == Ends(n - 1)
           left == From(data, n)
           N == Len(data)
           room == N - a
<1>0. n \in 1 .. n
  BY ReaderAssumption DEF Carries
<1>1. /\ id \in Ids /\ a \in Nat /\ N \in Nat /\ Ends(n) = a + sizes[id] /\ a < N
      /\ left \in Seq(Byte) /\ Len(left) = room
      /\ \A j \in 1 .. sizes[id] : a + j <= N => left[j] = <<id, j>>
  BY <1>0, FromSection, SMTT(40)
<1>2. ValueAt(r, data, offset, h, a + 1) =
        IF a + 1 > N \/ left[1] = Stuffing THEN [reader |-> r, sections |-> <<>>]
        ELSE IF ~Complete(left)
          THEN [reader |-> [r EXCEPT !.collecting = TRUE, !.buf = left, !.start = offset], sections |-> <<>>]
        ELSE Onto(h[a + 1 + Len(Section(left, offset).data)], Section(left, offset))
  BY DEF ValueAt, From, Onto
<1>3. Left(r, n, N, offset) = [r EXCEPT !.collecting = TRUE, !.buf = SubSeq(Bytes(id), 1, room), !.start = offset]
  BY DEF Left
<1>4. ~(a + sizes[id] <= N)
  BY <1>1
<1> HIDE DEF id, a, left, N
<1>5. sizes[id] \in Nat
  BY <1>1, SizeIs
<1>6. \A j \in 1 .. sizes[id] : j <= Len(left) => left[j] = <<id, j>>
  BY <1>1, <1>5
<1>7. Len(left) >= 1 /\ ~(Len(left) >= sizes[id]) /\ Len(left) <= sizes[id] /\ ~(a + 1 > N)
  BY <1>1, <1>4, <1>5
<1>8. left[1] # Stuffing /\ ~Complete(left) /\ left = SubSeq(Bytes(id), 1, room)
  <2> HIDE DEF room
  <2> QED BY <1>1, <1>6, <1>7, Recognised
<1>9. QED BY <1>2, <1>3, <1>7, <1>8 DEF a, N

\* Nothing starts after the last one.
LEMMA NothingAfter ==
  ASSUME sizes \in [Ids -> Sizes], sending \in 0 .. MaxSections, NEW n, NEW data, Carries(data, n),
         Ends(n) <= Len(data), NEW r, NEW offset, NEW h
  PROVE  ValueAt(r, data, offset, h, Ends(n) + 1) = [reader |-> r, sections |-> <<>>]
<1> DEFINE e == Ends(n) + 1
           N == Len(data)
<1>1. n \in 0 .. MaxSections - sending
  BY ReaderAssumption DEF Carries
<1>2. Ends(n) \in Nat /\ N \in Nat /\ e \in Nat /\ e >= 1 /\ ~(e <= Ends(n)) /\ e <= N + 1
  BY <1>1, EndsAre DEF Carries
<1>3. CASE e > N
  <2> HIDE DEF e
  <2>1. ValueAt(r, data, offset, h, e) = [reader |-> r, sections |-> <<>>]
    BY <1>3 DEF ValueAt
  <2>2. QED BY <2>1 DEF e
<1>4. CASE ~(e > N)
  <2> HIDE DEF e
  <2>1. e \in 1 .. N
    BY <1>2, <1>4
  <2>2. data[e] = Stuffing
    BY <1>2, <2>1 DEF Carries
  <2>3. SubSeq(data, e, N)[1] = data[e]
    <3>1. \A j \in e .. N : data[j] \in Byte
      BY <2>1 DEF Carries
    <3>2. 1 \in 1 .. N - e + 1 /\ e + 1 - 1 = e
      BY <1>2, <2>1
    <3> HIDE DEF N
    <3>3. SubSeq(data, e, N)[1] = data[e + 1 - 1]
      BY <1>2, <2>1, <3>1, <3>2, SubSeqProperties
    <3>4. QED BY <3>2, <3>3
  <2>4. ValueAt(r, data, offset, h, e) = [reader |-> r, sections |-> <<>>]
    BY <2>2, <2>3 DEF ValueAt
  <2>5. QED BY <2>4 DEF e
<1>5. QED BY <1>3, <1>4

\* What starts at a section starts every one up to the last, which may go on in the
\* next packet.
LEMMA BeginIs ==
  ASSUME sizes \in [Ids -> Sizes], sending \in 0 .. MaxSections, NEW n, NEW data, Carries(data, n),
         NEW r, NEW offset
  PROVE  Begin(r, data, offset) = BegunFrom(r, 1, n, Len(data), offset)
<1>0. n \in Nat /\ n >= 1 /\ n \in 1 .. n /\ sending \in Nat
  BY ReaderAssumption DEF Carries
<1>1. PICK from : /\ Begin(r, data, offset) = from[1]
                  /\ \A i \in 1 .. Len(data) + 1 : from[i] = ValueAt(r, data, offset, from, i)
  BY BeginRecurs
<1> DEFINE N == Len(data)
           last == LastWhole(n, N)
           Good(k) == from[Ends(k - 1) + 1] = BegunFrom(r, k, n, N, offset)
           Q == {m \in Nat : m < n => Good(n - m)}
<1>2. last \in Nat /\ last = IF Ends(n) <= N THEN n ELSE n - 1
  BY <1>0 DEF LastWhole
<1>3. \A k \in 1 .. n : from[Ends(k - 1) + 1] = ValueAt(r, data, offset, from, Ends(k - 1) + 1)
  <2>1. ASSUME NEW k \in 1 .. n PROVE Ends(k - 1) + 1 \in 1 .. N + 1
    <3>1. N \in Nat /\ Ends(k - 1) \in Nat /\ Ends(k - 1) < N
      BY FromSection
    <3>2. QED BY <3>1
  <2>2. QED BY <1>1, <2>1
<1>4. ASSUME NEW k \in 1 .. n, Ends(k) <= N
      PROVE  from[Ends(k - 1) + 1] =
               Onto(from[Ends(k) + 1], Handed(sending + k, offset))
  <2>1. from[Ends(k - 1) + 1] = ValueAt(r, data, offset, from, Ends(k - 1) + 1)
    BY <1>3
  <2>2. ValueAt(r, data, offset, from, Ends(k - 1) + 1) =
          Onto(from[Ends(k) + 1], Handed(sending + k, offset))
    BY <1>4, SectionWhole
  <2>3. QED BY <2>1, <2>2
<1>5. \A k \in 1 .. last : HandedFrom(k, last, offset) = <<Handed(sending + k, offset)>> \o HandedFrom(k + 1, last, offset)
  <2> HIDE DEF last
  <2> QED BY <1>0, <1>2, WholeFrom
<1>6. HandedFrom(last + 1, last, offset) = <<>>
  <2> HIDE DEF last
  <2> QED BY <1>0, <1>2, WholeFrom
<1>7. Good(n)
  <2>1. CASE Ends(n) <= N
    <3> DEFINE e == Ends(n) + 1
    <3>1. e \in 1 .. N + 1
      <4>1. N \in Nat /\ Ends(n) \in Nat
        BY <1>0, EndsAre, ReaderAssumption DEF Carries
      <4>2. QED BY <2>1, <4>1
    <3>2. from[e] = [reader |-> r, sections |-> <<>>]
      BY <1>1, <2>1, <3>1, NothingAfter
    <3>3. from[Ends(n - 1) + 1] =
            Onto(from[e], Handed(sending + n, offset))
      BY <1>0, <1>4, <2>1
    <3> HIDE DEF e
    <3>4. from[Ends(n - 1) + 1] =
            [reader |-> r, sections |-> <<Handed(sending + n, offset)>> \o <<>>]
      BY <3>2, <3>3, OntoIs
    <3>5. last = n /\ n \in 1 .. last
      BY <1>0, <1>2, <2>1
    <3>6. HandedFrom(n, n, offset) = <<Handed(sending + n, offset)>> \o <<>>
      <4> HIDE DEF last
      <4> QED BY <1>5, <1>6, <3>5
    <3>7. Left(r, n, N, offset) = r
      BY <2>1 DEF Left
    <3> HIDE DEF N
    <3>8. QED BY <3>4, <3>5, <3>6, <3>7 DEF BegunFrom
  <2>2. CASE ~(Ends(n) <= N)
    <3>1. from[Ends(n - 1) + 1] = [reader |-> Left(r, n, N, offset), sections |-> <<>>]
      BY <1>0, <1>3, <2>2, SectionPart
    <3>2. last + 1 = n
      BY <1>0, <1>2, <2>2
    <3>3. HandedFrom(n, last, offset) = <<>>
      BY <1>6, <3>2
    <3> HIDE DEF N
    <3>4. QED BY <3>1, <3>3 DEF BegunFrom
  <2>3. QED BY <2>1, <2>2
<1>8. 0 \in Q
  <2>1. n - 0 = n
    BY <1>0
  <2> HIDE DEF Good
  <2>2. QED BY <1>7, <2>1
<1>9. ASSUME NEW m \in Nat, m \in Q PROVE m + 1 \in Q
  <2>1. SUFFICES ASSUME m + 1 < n PROVE Good(n - (m + 1))
    <3> HIDE DEF Good
    <3> QED OBVIOUS
  <2> DEFINE k == n - (m + 1)
  <2>2. k \in 1 .. n /\ k + 1 \in 1 .. n /\ k + 1 = n - m /\ (k + 1) - 1 = k /\ m < n /\ k \in 1 .. n - 1
    BY <1>0, <2>1
  <2>3. Good(k + 1)
    <3> HIDE DEF Good, k
    <3> QED BY <1>9, <2>2
  <2> HIDE DEF k
  <2>4. Ends(k) <= N
    <3>1. N \in Nat /\ Ends((k + 1) - 1) \in Nat /\ Ends((k + 1) - 1) < N
      BY <2>2, FromSection
    <3>2. QED BY <2>2, <3>1
  <2>5. from[Ends(k) + 1] = BegunFrom(r, k + 1, n, N, offset)
    BY <2>2, <2>3
  <2>6. from[Ends(k - 1) + 1] =
          Onto(from[Ends(k) + 1], Handed(sending + k, offset))
    BY <1>4, <2>2, <2>4
  <2> DEFINE B == BegunFrom(r, k + 1, n, N, offset)
  <2>7. B = [reader |-> Left(r, n, N, offset), sections |-> HandedFrom(k + 1, last, offset)]
    BY DEF BegunFrom
  <2>8. k \in 1 .. last
    BY <1>0, <1>2, <2>2
  <2>9. <<Handed(sending + k, offset)>> \o HandedFrom(k + 1, last, offset) = HandedFrom(k, last, offset)
    BY <1>5, <2>8
  <2>10. BegunFrom(r, k, n, N, offset) = [reader |-> Left(r, n, N, offset), sections |-> HandedFrom(k, last, offset)]
    BY DEF BegunFrom
  <2> HIDE DEF last, N, B
  <2>11. Onto(B, Handed(sending + k, offset)) =
           [reader |-> Left(r, n, N, offset), sections |-> HandedFrom(k, last, offset)]
    BY <2>7, <2>9, OntoIs
  <2>12. Good(k)
    BY <2>5, <2>6, <2>10, <2>11 DEF B
  <2>13. QED BY <2>12 DEF k
<1>10. \A m \in Nat : m \in Q
  <2> HIDE DEF Q
  <2> QED BY <1>8, <1>9, SetInduction
<1>11. Good(1)
  <2>1. n - 1 \in Nat /\ n - 1 < n /\ n - (n - 1) = 1
    BY <1>0
  <2> HIDE DEF Good
  <2>2. QED BY <1>10, <2>1
<1>12. Ends(1 - 1) + 1 = 1
  <2>1. 1 - 1 = 0
    OBVIOUS
  <2>2. QED BY <2>1, EndsAre
<1>13. QED BY <1>1, <1>11, <1>12

-------------------------------------------------------------------------------
(* The packets of the sender.                                                *)

\* What is still to be sent is the end of the last section that was begun.
SenderInv ==
  /\ sizes \in [Ids -> Sizes]
  /\ sending \in 0 .. MaxSections
  /\ rest \in Seq(Byte)
  /\ rest # <<>> =>
       /\ sending \in Ids /\ Len(rest) < sizes[sending]
       /\ \A j \in 1 .. Len(rest) : rest[j] = <<sending, sizes[sending] - Len(rest) + j>>

\* Filled with what comes first and stuffing.
FilledFrom(data, bytes) ==
  \A i \in 1 .. Len(data) : data[i] = IF i <= Len(bytes) THEN bytes[i] ELSE Stuffing

\* A packet that only goes on.
LEMMA GoingOn ==
  ASSUME SenderInv, Fits(0)
  PROVE  /\ rest # <<>> /\ Len(rest) \in Nat /\ Len(rest) >= 1 /\ PayloadSize \in Nat /\ PayloadSize > 1
         /\ Carried(0).data \in Seq(Byte) /\ Len(Carried(0).data) = PayloadSize
         /\ FilledFrom(Carried(0).data, rest)
         /\ Carried(0).left \in Seq(Byte)
         /\ Len(Carried(0).left) = IF Len(rest) <= PayloadSize THEN 0 ELSE Len(rest) - PayloadSize
         /\ \A j \in 1 .. Len(Carried(0).left) :
              Carried(0).left[j] = <<sending, sizes[sending] - Len(Carried(0).left) + j>>
<1>1. rest # <<>> /\ rest \in Seq(Byte) /\ Len(rest) \in Nat /\ Len(rest) >= 1
  BY DEF SenderInv, Fits
<1>2. sending \in Ids /\ sizes[sending] \in Nat
      /\ \A j \in 1 .. Len(rest) : rest[j] = <<sending, sizes[sending] - Len(rest) + j>>
  BY <1>1, SizeIs DEF SenderInv
<1>3. PayloadSize \in Nat /\ PayloadSize > 1
  BY ReaderAssumption
<1>4. rest \o Begins(NextIds(0)) = rest
  <2>1. Begins(NextIds(0)) = <<>>
    BY NextSections DEF SenderInv, Upcoming
  <2>2. QED BY <1>1, <2>1, ConcatEmptySeq
<1> DEFINE data == [i \in 1 .. PayloadSize |-> IF i <= Len(rest) THEN rest[i] ELSE Stuffing]
           left == SubSeq(rest, PayloadSize + 1, Len(rest))
<1>5. Carried(0).data = data /\ Carried(0).left = left
  BY <1>4 DEF Carried
<1>6. data \in Seq(Byte) /\ Len(data) = PayloadSize /\ FilledFrom(data, rest)
  <2>1. Stuffing \in Byte /\ \A i \in 1 .. Len(rest) : rest[i] \in Byte
    BY <1>1 DEF Stuffing, Byte
  <2>2. ASSUME NEW i \in 1 .. PayloadSize PROVE (IF i <= Len(rest) THEN rest[i] ELSE Stuffing) \in Byte
    <3>1. i <= Len(rest) => i \in 1 .. Len(rest)
      BY <1>1
    <3>2. QED BY <2>1, <3>1
  <2>3. data \in Seq(Byte) /\ Len(data) = PayloadSize
    BY <1>3, <2>2
  <2>4. \A i \in 1 .. PayloadSize : data[i] = IF i <= Len(rest) THEN rest[i] ELSE Stuffing
    OBVIOUS
  <2> HIDE DEF data
  <2>5. QED BY <2>3, <2>4 DEF FilledFrom
<1>7. /\ left \in Seq(Byte)
      /\ Len(left) = IF Len(rest) <= PayloadSize THEN 0 ELSE Len(rest) - PayloadSize
      /\ \A j \in 1 .. Len(left) : left[j] = rest[PayloadSize + j]
  <2>1. \A j \in PayloadSize + 1 .. Len(rest) : rest[j] \in Byte
    BY <1>1, <1>3
  <2>2. /\ left \in Seq(Byte)
        /\ Len(left) = IF PayloadSize + 1 <= Len(rest) THEN Len(rest) - (PayloadSize + 1) + 1 ELSE 0
        /\ \A j \in 1 .. Len(rest) - (PayloadSize + 1) + 1 : left[j] = rest[PayloadSize + 1 + j - 1]
    BY <1>1, <1>3, <2>1, SubSeqProperties
  <2> HIDE DEF left
  <2>3. Len(left) = IF Len(rest) <= PayloadSize THEN 0 ELSE Len(rest) - PayloadSize
    BY <1>1, <1>3, <2>2
  <2>4. ASSUME NEW j \in 1 .. Len(left) PROVE left[j] = rest[PayloadSize + j]
    <3>1. j \in 1 .. Len(rest) - (PayloadSize + 1) + 1 /\ PayloadSize + 1 + j - 1 = PayloadSize + j
      BY <1>1, <1>3, <2>3
    <3>2. QED BY <2>2, <3>1
  <2>5. QED BY <2>2, <2>3, <2>4
<1> HIDE DEF data, left
<1>8. ASSUME NEW j \in 1 .. Len(left) PROVE left[j] = <<sending, sizes[sending] - Len(left) + j>>
  <2>1. /\ Len(left) = Len(rest) - PayloadSize
        /\ PayloadSize + j \in 1 .. Len(rest)
    BY <1>1, <1>3, <1>7
  <2>2. rest[PayloadSize + j] = <<sending, sizes[sending] - Len(rest) + (PayloadSize + j)>>
    BY <1>2, <2>1
  <2>3. sizes[sending] - Len(rest) + (PayloadSize + j) = sizes[sending] - Len(left) + j
    BY <1>1, <1>2, <1>3, <2>1
  <2>4. QED BY <1>7, <2>2, <2>3
<1>9. QED BY <1>1, <1>3, <1>5, <1>6, <1>7, <1>8

\* A packet in which sections start.
LEMMA Starting ==
  ASSUME SenderInv, NEW n \in Nat \ {0}, Fits(n)
  PROVE  LET data == Carried(n).data
             left == Carried(n).left
             a    == Len(rest)
         IN /\ n \in 1 .. MaxSections - sending /\ sending \in Nat /\ sending + n \in Ids
            /\ PayloadSize \in Nat /\ PayloadSize > 1
            /\ Len(rest) \in Nat /\ Ends(n) \in Nat /\ Ends(n - 1) \in Nat
            /\ Ends(n) = Ends(n - 1) + sizes[sending + n] /\ sizes[sending + n] \in Nat
            /\ Len(rest) + Ends(n - 1) < PayloadSize - 1
            /\ data \in Seq(Byte) /\ Len(data) = PayloadSize - 1
            /\ SubSeq(data, 1, Len(rest)) = rest
            /\ Carries(SubSeq(data, Len(rest) + 1, Len(data)), n)
            /\ Len(SubSeq(data, Len(rest) + 1, Len(data))) = PayloadSize - 1 - Len(rest)
            /\ \A j \in 1 .. Len(rest) : data[j] = rest[j]
            /\ \A j \in 1 .. PayloadSize - 1 - Len(rest) :
                 data[Len(rest) + j] = IF j <= Ends(n) THEN Upcoming(n)[j] ELSE Stuffing
<1> DEFINE data == Carried(n).data
           R == PayloadSize - 1
           U == Upcoming(n)
           a == Len(rest)
           bytes == rest \o U
<1>1. /\ sizes \in [Ids -> Sizes] /\ sending \in 0 .. MaxSections /\ rest \in Seq(Byte)
      /\ PayloadSize \in Nat /\ PayloadSize > 1 /\ MaxSections \in Nat
  BY ReaderAssumption DEF SenderInv
<1>2. sending + n <= MaxSections /\ Len(rest \o Upcoming(n - 1)) < PayloadSize - 1
  BY DEF Fits, Upcoming
<1>3. n \in 1 .. MaxSections - sending /\ sending \in Nat /\ sending + n \in Ids
      /\ n \in 0 .. MaxSections - sending /\ n - 1 \in 0 .. MaxSections - sending
  BY <1>1, <1>2 DEF Ids
<1>4. /\ U \in Seq(Byte) /\ Upcoming(n - 1) \in Seq(Byte)
      /\ Len(U) = Ends(n) /\ Ends(n) \in Nat /\ Ends(n - 1) \in Nat
      /\ Ends(n) = Ends(n - 1) + sizes[sending + n] /\ sizes[sending + n] \in Nat
  <2>1. U \in Seq(Byte) /\ Upcoming(n - 1) \in Seq(Byte)
    BY <1>1, <1>3, NextSections
  <2>2. Len(U) = Ends(n)
    BY DEF Ends
  <2> HIDE DEF U
  <2>3. QED BY <1>1, <1>3, <2>1, <2>2, EndsAre, SizeIs
<1>5. a \in Nat /\ a + Ends(n - 1) < R
  <2>1. Len(rest \o Upcoming(n - 1)) = Len(rest) + Ends(n - 1)
    BY <1>1, <1>4, ConcatProperties DEF Ends
  <2>2. QED BY <1>1, <1>2, <2>1
<1> HIDE DEF U
<1>6. /\ bytes \in Seq(Byte) /\ Len(bytes) = a + Ends(n)
      /\ \A i \in 1 .. a + Ends(n) : bytes[i] = IF i <= a THEN rest[i] ELSE U[i - a]
  BY <1>1, <1>4, ConcatProperties
<1>7. data = [i \in 1 .. R |-> IF i <= Len(bytes) THEN bytes[i] ELSE Stuffing]
  BY DEF Carried, U, Upcoming
<1> HIDE DEF data, bytes
<1>8. /\ data \in Seq(Byte) /\ Len(data) = R /\ R \in Nat
      /\ \A i \in 1 .. R : data[i] = IF i <= Len(bytes) THEN bytes[i] ELSE Stuffing
  <2>1. Stuffing \in Byte /\ \A i \in 1 .. Len(bytes) : bytes[i] \in Byte
    BY <1>6 DEF Stuffing, Byte
  <2>2. ASSUME NEW i \in 1 .. R PROVE (IF i <= Len(bytes) THEN bytes[i] ELSE Stuffing) \in Byte
    <3>1. i <= Len(bytes) => i \in 1 .. Len(bytes)
      BY <1>1, <1>4, <1>5, <1>6
    <3>2. QED BY <2>1, <3>1
  <2>3. QED BY <1>1, <1>7, <2>2
<1>9. \A j \in 1 .. a : data[j] = rest[j]
  BY <1>1, <1>4, <1>5, <1>6, <1>8
<1>10. ASSUME NEW j \in 1 .. R - a
       PROVE  data[a + j] = IF j <= Ends(n) THEN U[j] ELSE Stuffing
  <2> DEFINE e == a + j
  <2>1. /\ e \in 1 .. R /\ ~(e <= a) /\ e - a = j /\ (e <= a + Ends(n) <=> j <= Ends(n)) /\ e >= 1
        /\ e \in Nat
    BY <1>1, <1>4, <1>5
  <2> HIDE DEF e
  <2>2. data[e] = IF e <= a + Ends(n) THEN bytes[e] ELSE Stuffing
    BY <1>6, <1>8, <2>1
  <2>3. e <= a + Ends(n) => bytes[e] = U[e - a]
    BY <1>4, <1>5, <1>6, <2>1
  <2>4. data[e] = IF j <= Ends(n) THEN U[j] ELSE Stuffing
    BY <2>1, <2>2, <2>3
  <2>5. QED BY <2>4 DEF e
<1>11. SubSeq(data, 1, a) = rest
  <2> DEFINE s == SubSeq(data, 1, a)
  <2>1. s \in Seq(Byte) /\ Len(s) = a /\ \A j \in 1 .. a : s[j] = data[j]
    <3>1. a <= Len(data)
      BY <1>1, <1>4, <1>5, <1>8
    <3> HIDE DEF a
    <3>2. QED BY <1>5, <1>8, <3>1, PrefixIs
  <2> HIDE DEF s
  <2>2. \A j \in 1 .. Len(s) : s[j] = rest[j]
    BY <1>9, <2>1
  <2>3. QED BY <1>1, <2>1, <2>2, SeqEqual DEF s
<1>12. LET t == SubSeq(data, a + 1, R) IN
         /\ t \in Seq(Byte) /\ Len(t) = R - a
         /\ \A j \in 1 .. R - a : t[j] = data[a + j]
  <2> DEFINE t == SubSeq(data, a + 1, R)
  <2> HIDE DEF a
  <2>1. \A j \in a + 1 .. R : data[j] \in Byte
    BY <1>5, <1>8
  <2>2. a + 1 \in Int /\ R \in Int /\ a + 1 <= R /\ R - (a + 1) + 1 = R - a
    BY <1>1, <1>4, <1>5
  <2> HIDE DEF R
  <2>3. /\ t \in Seq(Byte) /\ Len(t) = R - (a + 1) + 1
        /\ \A j \in 1 .. R - (a + 1) + 1 : t[j] = data[a + 1 + j - 1]
    BY <2>1, <2>2, SubSeqProperties
  <2>4. \A j \in 1 .. R - a : a + 1 + j - 1 = a + j
    BY <1>5, <2>2
  <2> HIDE DEF t
  <2>5. t \in Seq(Byte) /\ Len(t) = R - a /\ \A j \in 1 .. R - a : t[j] = data[a + j]
    BY <2>2, <2>3, <2>4
  <2>6. QED BY <2>5 DEF t
<1>13. Carries(SubSeq(data, a + 1, R), n)
  <2> DEFINE t == SubSeq(data, a + 1, R)
  <2> HIDE DEF t, R, a
  <2>1. t \in Seq(Byte) /\ Len(t) = R - a /\ \A j \in 1 .. R - a : t[j] = data[a + j]
    BY <1>12 DEF t
  <2>2. \A j \in 1 .. Len(t) : t[j] = IF j <= Ends(n) THEN U[j] ELSE Stuffing
    BY <1>10, <2>1
  <2>3. Len(t) > Ends(n - 1)
    BY <1>4, <1>5, <1>8, <2>1
  <2>4. Carries(t, n)
    BY <1>3, <2>1, <2>2, <2>3 DEF Carries, U
  <2>5. QED BY <2>4 DEF t
<1>14. QED
  <2> USE DEF data, U
  <2>1. Len(SubSeq(data, a + 1, R)) = R - a
    BY <1>12
  <2>2. QED BY <1>1, <1>3, <1>4, <1>5, <1>8, <1>9, <1>10, <1>11, <1>13, <2>1

\* What does not fit in a packet in which sections start.
LEMMA StartingLeaves ==
  ASSUME SenderInv, NEW n \in Nat \ {0}, Fits(n)
  PROVE  LET left == Carried(n).left IN
         /\ left \in Seq(Byte)
         /\ Len(left) = IF Ends(n) <= PayloadSize - 1 - Len(rest) THEN 0
                        ELSE Len(rest) + Ends(n) - (PayloadSize - 1)
         /\ Len(left) < sizes[sending + n]
         /\ \A j \in 1 .. Len(left) : left[j] = <<sending + n, sizes[sending + n] - Len(left) + j>>
<1> DEFINE left == Carried(n).left
           R == PayloadSize - 1
           U == Upcoming(n)
           a == Len(rest)
           b == Ends(n - 1)
           id == sending + n
           bytes == rest \o U
<1>1. /\ n \in 1 .. MaxSections - sending /\ sending \in Nat /\ id \in Ids
      /\ R \in Nat /\ a \in Nat /\ Ends(n) \in Nat /\ b \in Nat
      /\ Ends(n) = b + sizes[id] /\ sizes[id] \in Nat /\ a + b < R
      /\ rest \in Seq(Byte) /\ sizes \in [Ids -> Sizes] /\ sending \in 0 .. MaxSections
  <2>1. PayloadSize \in Nat /\ PayloadSize > 1 => R \in Nat
    OBVIOUS
  <2>2. QED BY <2>1, Starting DEF SenderInv
<1>2. n \in 0 .. MaxSections - sending
  BY <1>1
<1>3. U \in Seq(Byte) /\ Len(U) = Ends(n)
  BY <1>1, <1>2, NextSections DEF Ends
<1>4. \A j \in 1 .. sizes[id] : U[b + j] = <<id, j>>
  <2>1. n \in 1 .. n
    BY <1>1
  <2>2. QED BY <1>1, <1>2, <2>1, BytesOfNext
<1>5. left = SubSeq(bytes, R + 1, Len(bytes))
  BY DEF Carried, Upcoming
<1> HIDE DEF U, left, b, a, R, id
<1>6. /\ bytes \in Seq(Byte) /\ Len(bytes) = a + Ends(n)
      /\ \A i \in 1 .. a + Ends(n) : bytes[i] = IF i <= a THEN rest[i] ELSE U[i - a]
  BY <1>1, <1>3, ConcatProperties DEF a
<1> HIDE DEF bytes
<1>7. /\ left \in Seq(Byte)
      /\ Len(left) = IF R + 1 <= Len(bytes) THEN Len(bytes) - (R + 1) + 1 ELSE 0
      /\ \A j \in 1 .. Len(bytes) - (R + 1) + 1 : left[j] = bytes[R + 1 + j - 1]
  <2>1. \A j \in R + 1 .. Len(bytes) : bytes[j] \in Byte
    BY <1>1, <1>6
  <2>2. R + 1 \in Int /\ Len(bytes) \in Int
    BY <1>1, <1>6
  <2>3. QED BY <1>5, <2>1, <2>2, SubSeqProperties
<1>8. Len(left) = IF Ends(n) <= R - a THEN 0 ELSE a + Ends(n) - R
  BY <1>1, <1>6, <1>7
<1>9. Len(left) < sizes[id]
  <2>1. sizes[id] >= 1
    BY <1>1, SizeIs
  <2>2. QED BY <1>1, <1>8, <2>1
<1>10. ASSUME NEW j \in 1 .. Len(left) PROVE left[j] = <<id, sizes[id] - Len(left) + j>>
  <2> DEFINE k == sizes[id] - Len(left) + j
  <2>1. Len(left) = a + Ends(n) - R /\ ~(Ends(n) <= R - a)
    BY <1>1, <1>8
  <2>2. j \in 1 .. Len(bytes) - (R + 1) + 1 /\ R + 1 + j - 1 = R + j
    <3> DEFINE v == Len(left)
               w == Len(bytes)
               x == Ends(n)
    <3>1. /\ j \in 1 .. v /\ v = a + x - R /\ w = a + x /\ a \in Nat /\ x \in Nat /\ R \in Nat
      BY <1>1, <1>6, <2>1
    <3> HIDE DEF v, w, x
    <3>2. j \in 1 .. w - (R + 1) + 1 /\ R + 1 + j - 1 = R + j
      BY <3>1
    <3>3. QED BY <3>2 DEF w
  <2>3. left[j] = bytes[R + j]
    BY <1>7, <2>2
  <2> DEFINE e == R + j
             sz == sizes[id]
  <2>4. /\ R \in Nat /\ a \in Nat /\ b \in Nat /\ Ends(n) \in Nat /\ sz \in Nat /\ Ends(n) = b + sz
        /\ a + b < R /\ Len(left) < sz /\ Len(left) \in Nat
    BY <1>1, <1>7, <1>9
  <2>5. e \in 1 .. a + Ends(n) /\ ~(e <= a) /\ e - a = b + k /\ k \in 1 .. sz
    <3> HIDE DEF sz
    <3>1. k = R - a - b + j
      BY <2>1, <2>4, SMTT(40) DEF sz
    <3>2. k >= 1 /\ k <= sz
      BY <2>4 DEF sz
    <3> HIDE DEF k
    <3>3. QED BY <2>1, <2>4, <3>1, <3>2
  <2>6. U[b + k] = <<id, k>>
    BY <1>4, <2>5
  <2>7. left[j] = bytes[e]
    BY <2>3
  <2> HIDE DEF k, e
  <2>8. bytes[e] = U[e - a]
    BY <1>6, <2>5
  <2>9. left[j] = <<id, k>>
    BY <2>5, <2>6, <2>7, <2>8
  <2>10. QED BY <2>9 DEF k
<1>11. QED BY <1>7, <1>8, <1>9, <1>10 DEF left, id, R, a

\* The sections whose first byte is in a packet.
FirstBytes(data) == {data[i][1] : i \in {j \in DOMAIN data : data[j][2] = 1}}

LEMMA FirstBytesAre ==
  ASSUME SenderInv, NEW n \in Nat, Fits(n)
  PROVE  FirstBytes(Carried(n).data) = sending + 1 .. sending + n
<1> DEFINE data == Carried(n).data
           a == Len(rest)
<1>1. ASSUME NEW j \in 1 .. a, rest # <<>> PROVE rest[j][2] # 1
  <2>1. /\ sending \in Ids /\ a < sizes[sending] /\ a \in Nat /\ sizes[sending] \in Nat
        /\ rest[j] = <<sending, sizes[sending] - a + j>>
    BY <1>1, SizeIs DEF SenderInv
  <2>2. QED BY <2>1
<1>2. CASE n = 0
  <2>1. /\ rest # <<>> /\ a \in Nat /\ data \in Seq(Byte) /\ FilledFrom(data, rest)
    BY <1>2, GoingOn
  <2>2. ASSUME NEW j \in DOMAIN data PROVE data[j][2] # 1
    <3>1. j \in 1 .. Len(data)
      BY <2>1
    <3>2. CASE j <= a
      <4>1. data[j] = rest[j] /\ j \in 1 .. a
        BY <2>1, <3>1, <3>2 DEF FilledFrom
      <4> HIDE DEF data, a
      <4>2. QED BY <1>1, <2>1, <4>1
    <3>3. CASE ~(j <= a)
      <4>1. data[j] = Stuffing
        BY <2>1, <3>1, <3>3 DEF FilledFrom
      <4>2. QED BY <4>1 DEF Stuffing
    <3>4. QED BY <3>2, <3>3
  <2>3. sending + 1 .. sending + n = {}
    BY <1>2 DEF SenderInv
  <2> HIDE DEF data
  <2>4. FirstBytes(data) = {}
    BY <2>2 DEF FirstBytes
  <2>5. QED BY <2>3, <2>4 DEF data
<1>3. CASE n # 0
  <2>1. /\ n \in 1 .. MaxSections - sending /\ sending \in Nat
        /\ PayloadSize \in Nat /\ PayloadSize > 1 /\ a \in Nat /\ Ends(n) \in Nat
        /\ Ends(n - 1) \in Nat /\ a + Ends(n - 1) < PayloadSize - 1
        /\ data \in Seq(Byte) /\ Len(data) = PayloadSize - 1
        /\ \A j \in 1 .. a : data[j] = rest[j]
        /\ \A j \in 1 .. PayloadSize - 1 - a :
             data[a + j] = IF j <= Ends(n) THEN Upcoming(n)[j] ELSE Stuffing
    <3>1. n \in Nat \ {0}
      BY <1>3
    <3>2. QED BY <3>1, Starting
  <2> HIDE DEF data
  <2>0. /\ n \in Nat /\ n >= 1 /\ sending \in Nat /\ PayloadSize \in Nat /\ a \in Nat
        /\ Ends(n) \in Nat /\ Ends(n - 1) \in Nat /\ a + Ends(n - 1) < PayloadSize - 1
        /\ sending + n <= MaxSections /\ MaxSections \in Nat
    BY <2>1, ReaderAssumption
  <2>2. sizes \in [Ids -> Sizes] /\ sending \in 0 .. MaxSections /\ n \in 0 .. MaxSections - sending
        /\ MaxSections \in Nat
    BY <2>1, ReaderAssumption DEF SenderInv
  <2>3. DOMAIN data = 1 .. PayloadSize - 1
    BY <2>1
  <2>4. ASSUME NEW i \in DOMAIN data, data[i][2] = 1
        PROVE  data[i][1] \in sending + 1 .. sending + n
    <3>1. CASE i <= a
      <4>1. i \in 1 .. a /\ rest # <<>>
        BY <2>1, <2>3, <3>1
      <4>2. QED BY <1>1, <2>1, <2>4, <4>1
    <3>2. CASE ~(i <= a)
      <4> DEFINE j == i - a
      <4>1. j \in 1 .. PayloadSize - 1 - a /\ a + j = i
        BY <2>1, <2>3, <3>2
      <4> HIDE DEF j
      <4>2. data[i] = IF j <= Ends(n) THEN Upcoming(n)[j] ELSE Stuffing
        BY <2>1, <4>1
      <4>3. data[i] # Stuffing
        BY <2>4 DEF Stuffing
      <4>4. j \in 1 .. Ends(n) /\ data[i] = Upcoming(n)[j]
        BY <2>1, <4>1, <4>2, <4>3
      <4>5. PICK k \in 1 .. n : \E m \in 1 .. sizes[sending + k] : j = Ends(k - 1) + m
        BY <2>2, <4>4, BytesOfNext
      <4>6. PICK m \in 1 .. sizes[sending + k] : j = Ends(k - 1) + m
        BY <4>5
      <4>7. data[i] = <<sending + k, m>>
        BY <2>2, <4>4, <4>6, BytesOfNext
      <4>8. QED BY <2>1, <4>7
    <3>3. QED BY <3>1, <3>2
  <2>5. ASSUME NEW id \in sending + 1 .. sending + n
        PROVE  \E i \in DOMAIN data : data[i][2] = 1 /\ data[i][1] = id
    <3> DEFINE k == id - sending
    <3>1. k \in 1 .. n /\ sending + k = id /\ k - 1 \in 0 .. MaxSections - sending /\ id \in Ids
          /\ k \in 1 .. MaxSections - sending
      BY <2>1, <2>2, SMTT(40) DEF Ids
    <3> HIDE DEF k
    <3>2. Ends(k - 1) \in Nat /\ Ends(k - 1) <= Ends(n - 1)
      <4>1. Ends(k - 1) \in Nat
        BY <2>2, <3>1, EndsAre
      <4>2. CASE k = 1
        <5>1. k - 1 = 0
          BY <4>2
        <5>2. QED BY <2>1, <2>2, <5>1, EndsAre
      <4>3. CASE k # 1
        <5>1. k - 1 \in 1 .. n - 1 /\ n - 1 \in 0 .. MaxSections - sending
          BY <2>0, <3>1, <4>3
        <5>2. QED BY <2>2, <4>1, <5>1, BytesOfNext
      <4>4. QED BY <4>1, <4>2, <4>3
    <3>3. sizes[id] \in Nat /\ sizes[id] >= 1
      BY <2>2, <3>1, SizeIs
    <3>4. Upcoming(n)[Ends(k - 1) + 1] = <<id, 1>> /\ Ends(k) <= Ends(n)
          /\ Ends(k) = Ends(k - 1) + sizes[id]
      <4>1. 1 \in 1 .. sizes[sending + k]
        BY <3>1, <3>3
      <4>2. QED BY <2>2, <3>1, <4>1, BytesOfNext, EndsAre
    <3> DEFINE e == Ends(k - 1) + 1
    <3>5. e \in 1 .. PayloadSize - 1 - a /\ e <= Ends(n) /\ a + e \in 1 .. PayloadSize - 1
      <4> DEFINE x == Ends(n)
                 y == Ends(n - 1)
                 u == Ends(k - 1)
                 v == Ends(k)
                 z == sizes[id]
      <4>1. /\ PayloadSize \in Nat /\ a \in Nat /\ x \in Nat /\ y \in Nat /\ a + y < PayloadSize - 1
            /\ u \in Nat /\ u <= y /\ z \in Nat /\ z >= 1 /\ v <= x /\ v = u + z
        BY <2>0, <3>2, <3>3, <3>4
      <4> HIDE DEF x, y, u, v, z, a
      <4>2. /\ u + 1 \in 1 .. PayloadSize - 1 - a /\ u + 1 <= x /\ a + (u + 1) \in 1 .. PayloadSize - 1
        BY <4>1
      <4>3. QED BY <4>2 DEF x, u
    <3>6. Upcoming(n)[e] = <<id, 1>>
      BY <3>4
    <3> HIDE DEF e
    <3>7. data[a + e] = <<id, 1>>
      BY <2>1, <3>5, <3>6
    <3>8. QED BY <2>3, <3>5, <3>7
  <2>6. FirstBytes(data) = sending + 1 .. sending + n
    BY <2>4, <2>5 DEF FirstBytes
  <2>7. QED BY <2>6 DEF data
<1>4. QED BY <1>2, <1>3

\* The sections a packet has bytes of: the one that goes on and those that start.
LEMMA IdsCarried ==
  ASSUME SenderInv, NEW n \in Nat, Fits(n)
  PROVE  /\ sending + 1 .. sending + n \subseteq IdsOf(Carried(n).data)
         /\ rest # <<>> => sending \in IdsOf(Carried(n).data)
<1> DEFINE data == Carried(n).data
<1>1. sending \in Nat
  BY ReaderAssumption DEF SenderInv
<1>2. ASSUME NEW id \in sending + 1 .. sending + n PROVE id \in IdsOf(data)
  <2>1. id # 0
    BY <1>1
  <2>2. id \in FirstBytes(data)
    BY FirstBytesAre
  <2> HIDE DEF data
  <2>3. QED BY <2>1, <2>2 DEF FirstBytes, IdsOf
<1>3. ASSUME rest # <<>> PROVE sending \in IdsOf(data)
  <2>1. Len(rest) \in Nat /\ Len(rest) >= 1
    BY <1>3 DEF SenderInv
  <2>2. rest[1] = <<sending, sizes[sending] - Len(rest) + 1>> /\ sending # 0
    BY <1>3, <2>1 DEF SenderInv, Ids
  <2>3. 1 \in DOMAIN data /\ data[1] = rest[1]
    <3>1. CASE n = 0
      BY <2>1, <3>1, GoingOn DEF FilledFrom
    <3>2. CASE n # 0
      <4>1. n \in Nat \ {0}
        BY <3>2
      <4>2. /\ Len(rest) + Ends(n - 1) < PayloadSize - 1 /\ Ends(n - 1) \in Nat /\ PayloadSize \in Nat
            /\ data \in Seq(Byte) /\ Len(data) = PayloadSize - 1
            /\ \A j \in 1 .. Len(rest) : data[j] = rest[j]
        BY <4>1, Starting
      <4> HIDE DEF data
      <4>3. 1 \in 1 .. Len(rest) /\ 1 \in 1 .. Len(data)
        BY <2>1, <4>2
      <4>4. QED BY <4>2, <4>3
    <3>3. QED BY <3>1, <3>2
  <2> HIDE DEF data
  <2>4. data[1][1] = sending
    BY <2>2, <2>3
  <2>5. QED BY <2>2, <2>3, <2>4 DEF IdsOf
<1>4. QED BY <1>2, <1>3

-------------------------------------------------------------------------------
(* What the reader makes of a packet.                                        *)

ReaderType == [collecting : BOOLEAN, buf : Seq(Byte), start : Nat, lastCC : 0 .. CounterModulus - 1]

StartOf(buf, id) == \A j \in 1 .. Len(buf) : buf[j] = <<id, j>>

\* The counter goes on from where the reader is.
GoesOn(r, c) == r.collecting /\ c = (r.lastCC + 1) % CounterModulus

\* The reader has what was sent of the section that is not at its end.
InSync(r) ==
  /\ rest # <<>> /\ sending \in Ids
  /\ StartOf(r.buf, sending) /\ Len(r.buf) >= 1 /\ Len(r.buf) + Len(rest) = sizes[sending]

\* The record without a section in progress.
LEMMA IdleIs ==
  ASSUME NEW r \in ReaderType
  PROVE  Idle(r) \in ReaderType /\ ~Idle(r).collecting /\ Idle(r).lastCC = r.lastCC
<1> DEFINE q == Idle(r)
<1>1. <<>> \in Seq(Byte) /\ 0 \in Nat
  OBVIOUS
<1>2. q = [r EXCEPT !.collecting = FALSE, !.buf = <<>>, !.start = 0]
  BY DEF Idle
<1>3. r.lastCC \in 0 .. CounterModulus - 1
  BY DEF ReaderType
<1> HIDE DEF q
<1>4. q = [collecting |-> FALSE, buf |-> <<>>, start |-> 0, lastCC |-> r.lastCC]
  BY <1>2 DEF ReaderType
<1>5. q \in ReaderType
  BY <1>1, <1>3, <1>4 DEF ReaderType
<1>6. q.collecting = FALSE /\ q.lastCC = r.lastCC
  BY <1>4
<1>7. QED BY <1>5, <1>6 DEF q

\* A packet is counted.
LEMMA CountedIs ==
  ASSUME NEW r \in ReaderType, NEW p, p.cc \in 0 .. CounterModulus - 1
  PROVE  LET q == Counted(r, p) IN
         /\ q \in ReaderType /\ q.lastCC = p.cc
         /\ q.collecting <=> GoesOn(r, p.cc)
         /\ q.collecting => q.buf = r.buf /\ q.start = r.start
<1> DEFINE jumps == r.collecting /\ p.cc # (r.lastCC + 1) % CounterModulus
           i == IF jumps THEN Idle(r) ELSE r
           q == [i EXCEPT !.lastCC = p.cc]
<1>1. i \in ReaderType /\ (i.collecting <=> GoesOn(r, p.cc))
      /\ (i.collecting => i.buf = r.buf /\ i.start = r.start)
  <2>1. CASE jumps
    BY <2>1, IdleIs DEF GoesOn
  <2>2. CASE ~jumps
    BY <2>2 DEF GoesOn
  <2>3. QED BY <2>1, <2>2
<1>2. Counted(r, p) = q
  BY DEF Counted
<1> HIDE DEF i
<1>3. q \in ReaderType /\ q.lastCC = p.cc /\ q.collecting = i.collecting /\ q.buf = i.buf /\ q.start = i.start
  BY <1>1 DEF ReaderType
<1> HIDE DEF q
<1>4. QED BY <1>1, <1>2, <1>3

\* The section in progress and the bytes that continue it.
LEMMA InProgress ==
  ASSUME SenderInv, NEW q \in ReaderType, InSync(q), NEW data \in Seq(Byte), FilledFrom(data, rest)
  PROVE  LET all == q.buf \o data IN
         /\ all \in Seq(Byte) /\ Len(all) = Len(q.buf) + Len(data) /\ Len(all) >= 1
         /\ Len(all) >= sizes[sending] <=> Len(rest) <= Len(data)
         /\ \A j \in 1 .. sizes[sending] : j <= Len(all) => all[j] = <<sending, j>>
<1> DEFINE b == q.buf
           a == Len(b)
           all == b \o data
           sz == sizes[sending]
<1>1. /\ b \in Seq(Byte) /\ a \in Nat /\ a >= 1 /\ a + Len(rest) = sz /\ \A j \in 1 .. a : b[j] = <<sending, j>>
      /\ sending \in Ids /\ sz \in Nat /\ rest # <<>> /\ Len(rest) \in Nat /\ Len(data) \in Nat
  BY SizeIs DEF InSync, ReaderType, StartOf, SenderInv
<1>2. \A j \in 1 .. Len(rest) : rest[j] = <<sending, sz - Len(rest) + j>>
  BY <1>1 DEF SenderInv
<1> HIDE DEF b, sz
<1>3. /\ all \in Seq(Byte) /\ Len(all) = a + Len(data)
      /\ \A j \in 1 .. a + Len(data) : all[j] = IF j <= a THEN b[j] ELSE data[j - a]
  BY <1>1, ConcatProperties
<1> HIDE DEF all
<1>4. ASSUME NEW j \in 1 .. sz, j <= Len(all) PROVE all[j] = <<sending, j>>
  <2>1. CASE j <= a
    <3>1. j \in 1 .. a /\ j \in 1 .. a + Len(data)
      BY <1>1, <2>1
    <3>2. QED BY <1>1, <1>3, <2>1, <3>1
  <2>2. CASE ~(j <= a)
    <3> DEFINE k == j - a
    <3>1. /\ k \in 1 .. Len(rest) /\ k \in 1 .. Len(data) /\ sz - Len(rest) + k = j
          /\ j \in 1 .. a + Len(data)
      <4>1. /\ a \in Nat /\ a >= 1 /\ a + Len(rest) = sz /\ sz \in Nat
            /\ Len(rest) \in Nat /\ Len(data) \in Nat
        BY <1>1
      <4>2. j \in Nat /\ j >= 1 /\ j <= sz /\ j <= a + Len(data) /\ ~(j <= a)
        BY <1>3, <1>4, <2>2, <4>1
      <4> HIDE DEF a
      <4>3. QED BY <4>1, <4>2
    <3>2. all[j] = data[k]
      BY <1>3, <2>2, <3>1
    <3> HIDE DEF k
    <3>3. data[k] = rest[k]
      BY <1>1, <3>1 DEF FilledFrom
    <3>4. rest[k] = <<sending, sz - Len(rest) + k>>
      BY <1>2, <3>1
    <3>5. QED BY <3>1, <3>2, <3>3, <3>4
  <2>3. QED BY <2>1, <2>2
<1>5. Len(all) >= sz <=> Len(rest) <= Len(data)
  BY <1>1, <1>3
<1>6. Len(all) >= 1
  BY <1>1, <1>3
<1>7. QED BY <1>3, <1>4, <1>5, <1>6 DEF all, b, sz

\* What Continue makes of them.
LEMMA ContinueIs ==
  ASSUME SenderInv, NEW q \in ReaderType, q.collecting => InSync(q),
         NEW data \in Seq(Byte), FilledFrom(data, rest),
         NEW ends \in BOOLEAN, ends => Len(rest) <= Len(data)
  PROVE  LET x == Continue(q, data, ends) IN
         /\ x.reader \in ReaderType /\ x.reader.lastCC = q.lastCC
         /\ x.sections = IF q.collecting /\ Len(rest) <= Len(data)
                         THEN <<Handed(sending, q.start)>> ELSE <<>>
         /\ x.reader.collecting <=> q.collecting /\ ~(Len(rest) <= Len(data))
         /\ x.reader.collecting =>
              /\ x.reader.start = q.start /\ StartOf(x.reader.buf, sending)
              /\ Len(x.reader.buf) = Len(q.buf) + Len(data)
<1> DEFINE all == q.buf \o data
           x == Continue(q, data, ends)
<1>1. CASE ~q.collecting
  <2>1. x = [reader |-> q, sections |-> <<>>]
    BY <1>1 DEF Continue
  <2> HIDE DEF x
  <2>2. QED BY <1>1, <2>1 DEF x
<1>2. CASE q.collecting
  <2>1. InSync(q)
    BY <1>2
  <2>2. /\ all \in Seq(Byte) /\ Len(all) = Len(q.buf) + Len(data) /\ Len(all) >= 1
        /\ Len(all) >= sizes[sending] <=> Len(rest) <= Len(data)
        /\ \A j \in 1 .. sizes[sending] : j <= Len(all) => all[j] = <<sending, j>>
    BY <2>1, InProgress
  <2>3. sending \in Ids /\ sizes \in [Ids -> Sizes] /\ sizes[sending] \in Nat
    BY <2>1, SizeIs DEF InSync, SenderInv
  <2>4. x = IF Complete(all) THEN [reader |-> Idle(q), sections |-> <<Section(all, q.start)>>]
            ELSE [reader |-> IF ends THEN Idle(q) ELSE [q EXCEPT !.buf = all], sections |-> <<>>]
    BY <1>2 DEF Continue
  <2> HIDE DEF all
  <2>5. /\ Complete(all) <=> Len(all) >= sizes[sending]
        /\ \A offset : Complete(all) => Section(all, offset) = Handed(sending, offset)
    BY <2>2, <2>3, Recognised
  <2> HIDE DEF x
  <2>6. CASE Len(rest) <= Len(data)
    <3>1. x = [reader |-> Idle(q), sections |-> <<Handed(sending, q.start)>>]
      BY <2>2, <2>4, <2>5, <2>6
    <3>2. x.reader = Idle(q) /\ x.sections = <<Handed(sending, q.start)>>
      BY <3>1
    <3>3. QED BY <1>2, <2>6, <3>2, IdleIs DEF x
  <2>7. CASE ~(Len(rest) <= Len(data))
    <3> DEFINE n == [q EXCEPT !.buf = all]
    <3>1. x = [reader |-> n, sections |-> <<>>]
      BY <2>2, <2>4, <2>5, <2>7
    <3>2. n \in ReaderType /\ n.lastCC = q.lastCC /\ n.collecting /\ n.start = q.start /\ n.buf = all
      BY <1>2, <2>2 DEF ReaderType
    <3>3. StartOf(all, sending)
      <4>1. \A j \in 1 .. Len(all) : j \in 1 .. sizes[sending] /\ j <= Len(all)
        <5>1. Len(all) \in Nat /\ ~(Len(all) >= sizes[sending])
          BY <2>2, <2>7
        <5>2. QED BY <2>3, <5>1
      <4>2. QED BY <2>2, <4>1 DEF StartOf
    <3> HIDE DEF n
    <3>4. x.reader = n /\ x.sections = <<>>
      BY <3>1
    <3>5. QED BY <1>2, <2>2, <2>7, <3>2, <3>3, <3>4 DEF x
  <2>8. QED BY <2>6, <2>7
<1>3. QED BY <1>1, <1>2

\* A packet as it was sent.
Intact(p, n, c) ==
  /\ ~p.error /\ ~p.scrambled /\ p.cc = c /\ p.data = Carried(n).data
  /\ p.unitStart <=> n > 0
  /\ p.pointer = IF n > 0 THEN Len(rest) ELSE 0

\* The section that ends in it and those that begin and end in it.
Ended(r, n, c) ==
  IF GoesOn(r, c) /\ (n > 0 \/ Len(rest) <= PayloadSize) THEN <<Handed(sending, r.start)>> ELSE <<>>

Started(n, offset) == IF n = 0 THEN <<>> ELSE HandedFrom(1, LastWhole(n, PayloadSize - 1 - Len(rest)), offset)

\* What Push makes of it.
Pushed(x, r, n, c, offset) ==
  /\ x.reader \in ReaderType /\ x.reader.lastCC = c
  /\ x.sections = Ended(r, n, c) \o Started(n, offset)
  /\ x.reader.collecting <=> Carried(n).left # <<>> /\ (n > 0 \/ GoesOn(r, c))
  /\ x.reader.collecting =>
       /\ StartOf(x.reader.buf, sending + n) /\ Len(x.reader.buf) >= 1
       /\ Len(x.reader.buf) + Len(Carried(n).left) = sizes[sending + n]
       /\ x.reader.start = IF n > 0 THEN offset ELSE r.start

\* A packet that only goes on.
LEMMA PushGoingOn ==
  ASSUME SenderInv, Fits(0), NEW r \in ReaderType, NEW c \in 0 .. CounterModulus - 1,
         GoesOn(r, c) => InSync(r), ~(r.collecting /\ c = r.lastCC),
         NEW p, Intact(p, 0, c), NEW offset \in Nat
  PROVE  Pushed(Push(r, p, offset), r, 0, c, offset)
<1> DEFINE x == Push(r, p, offset)
           q == Counted(r, p)
           data == Carried(0).data
           left == Carried(0).left
<1>1. /\ rest # <<>> /\ Len(rest) \in Nat /\ Len(rest) >= 1 /\ PayloadSize \in Nat /\ PayloadSize > 1
      /\ data \in Seq(Byte) /\ Len(data) = PayloadSize /\ FilledFrom(data, rest)
      /\ left \in Seq(Byte)
      /\ Len(left) = IF Len(rest) <= PayloadSize THEN 0 ELSE Len(rest) - PayloadSize
  BY GoingOn
<1>2. /\ q \in ReaderType /\ q.lastCC = c /\ (q.collecting <=> GoesOn(r, c))
      /\ q.collecting => q.buf = r.buf /\ q.start = r.start
  BY CountedIs DEF Intact
<1>3. data # <<>>
  BY <1>1
<1>4. x = Continue(q, data, FALSE)
  <2>1. /\ ~p.error /\ p.data = data /\ ~p.scrambled /\ ~(r.collecting /\ p.cc = r.lastCC) /\ ~p.unitStart
    BY DEF Intact
  <2> HIDE DEF data, q
  <2>2. QED BY <1>3, <2>1 DEF Push, q
<1> HIDE DEF q, data, left, x
<1>5. q.collecting => InSync(q)
  BY <1>2 DEF InSync
<1>6. /\ x.reader \in ReaderType /\ x.reader.lastCC = q.lastCC
      /\ x.sections = IF q.collecting /\ Len(rest) <= Len(data) THEN <<Handed(sending, q.start)>> ELSE <<>>
      /\ x.reader.collecting <=> q.collecting /\ ~(Len(rest) <= Len(data))
      /\ x.reader.collecting =>
              /\ x.reader.start = q.start /\ StartOf(x.reader.buf, sending)
              /\ Len(x.reader.buf) = Len(q.buf) + Len(data)
  BY <1>1, <1>2, <1>4, <1>5, ContinueIs
<1>7. left = <<>> <=> Len(rest) <= PayloadSize
  BY <1>1
<1>8. x.sections = Ended(r, 0, c) \o Started(0, offset)
  <2>1. x.sections = Ended(r, 0, c)
    BY <1>1, <1>2, <1>6 DEF Ended
  <2>2. CASE Ended(r, 0, c) = <<>>
    BY <2>1, <2>2 DEF Started
  <2>3. CASE Ended(r, 0, c) = <<Handed(sending, r.start)>>
    BY <2>1, <2>3 DEF Started
  <2>4. QED BY <2>2, <2>3 DEF Ended
<1>9. x.reader.collecting <=> left # <<>> /\ (0 > 0 \/ GoesOn(r, c))
  BY <1>1, <1>2, <1>6, <1>7
<1>10. ASSUME x.reader.collecting
       PROVE  /\ StartOf(x.reader.buf, sending + 0) /\ Len(x.reader.buf) >= 1
              /\ Len(x.reader.buf) + Len(left) = sizes[sending + 0]
              /\ x.reader.start = IF 0 > 0 THEN offset ELSE r.start
  <2>1. /\ q.collecting /\ ~(Len(rest) <= PayloadSize) /\ x.reader.start = r.start
        /\ StartOf(x.reader.buf, sending) /\ Len(x.reader.buf) = Len(q.buf) + PayloadSize
    BY <1>1, <1>2, <1>6, <1>10
  <2>2. Len(q.buf) >= 1 /\ Len(q.buf) + Len(rest) = sizes[sending] /\ sending + 0 = sending
        /\ Len(q.buf) \in Nat
    BY <1>2, <1>5, <2>1 DEF InSync, ReaderType, Ids
  <2>3. Len(left) = Len(rest) - PayloadSize
    BY <1>1, <2>1
  <2>4. QED BY <1>1, <2>1, <2>2, <2>3
<1>11. x.reader \in ReaderType /\ x.reader.lastCC = c
  BY <1>2, <1>6
<1>12. Pushed(x, r, 0, c, offset)
  BY <1>8, <1>9, <1>10, <1>11 DEF Pushed, left
<1>13. QED BY <1>12 DEF x

\* A packet in which sections start.
LEMMA PushStarting ==
  ASSUME SenderInv, NEW n \in Nat \ {0}, Fits(n), NEW r \in ReaderType, NEW c \in 0 .. CounterModulus - 1,
         GoesOn(r, c) => InSync(r), ~(r.collecting /\ c = r.lastCC),
         NEW p, Intact(p, n, c), NEW offset \in Nat
  PROVE  Pushed(Push(r, p, offset), r, n, c, offset)
<1> DEFINE x == Push(r, p, offset)
           q == Counted(r, p)
           data == Carried(n).data
           left == Carried(n).left
           new == SubSeq(data, Len(rest) + 1, Len(data))
           room == PayloadSize - 1 - Len(rest)
           e == Continue(q, rest, TRUE)
<1>1. /\ n \in 1 .. MaxSections - sending /\ sending \in Nat /\ sending + n \in Ids
      /\ PayloadSize \in Nat /\ PayloadSize > 1
      /\ Len(rest) \in Nat /\ Ends(n) \in Nat /\ Ends(n - 1) \in Nat
      /\ Ends(n) = Ends(n - 1) + sizes[sending + n] /\ sizes[sending + n] \in Nat
      /\ Len(rest) + Ends(n - 1) < PayloadSize - 1
      /\ data \in Seq(Byte) /\ Len(data) = PayloadSize - 1
      /\ SubSeq(data, 1, Len(rest)) = rest
      /\ Carries(new, n) /\ Len(new) = room
  BY Starting
<1>2. /\ left \in Seq(Byte)
      /\ Len(left) = IF Ends(n) <= room THEN 0 ELSE Len(rest) + Ends(n) - (PayloadSize - 1)
  BY StartingLeaves
<1>3. /\ q \in ReaderType /\ q.lastCC = c /\ (q.collecting <=> GoesOn(r, c))
      /\ q.collecting => q.buf = r.buf /\ q.start = r.start
  BY CountedIs DEF Intact
<1>4. x = [Begin(e.reader, new, offset) EXCEPT !.sections = e.sections \o @]
  <2>1. /\ ~p.error /\ p.data = data /\ ~p.scrambled /\ ~(r.collecting /\ p.cc = r.lastCC) /\ p.unitStart
        /\ p.pointer = Len(rest)
    BY DEF Intact
  <2>2. data # <<>> /\ ~(Len(rest) > Len(data))
    <3>1. Len(data) > 0 /\ ~(Len(rest) > Len(data))
      <4>1. Ends(n - 1) \in Nat /\ Len(rest) \in Nat /\ Len(data) = PayloadSize - 1 /\ PayloadSize \in Nat
            /\ PayloadSize > 1 /\ Len(rest) + Ends(n - 1) < PayloadSize - 1
        BY <1>1
      <4> HIDE DEF data
      <4>2. QED BY <4>1
    <3>2. QED BY <3>1
  <2> DEFINE opening == SubSeq(data, 1, p.pointer)
             second == SubSeq(data, p.pointer + 1, Len(data))
  <2>3. opening = rest /\ second = new
    BY <1>1, <2>1
  <2>4. x = [Begin(Continue(q, opening, TRUE).reader, second, offset)
               EXCEPT !.sections = Continue(q, opening, TRUE).sections \o @]
    <3> HIDE DEF q, opening, second, data
    <3>1. QED BY <2>1, <2>2 DEF Push, q, opening, second, data
  <2> HIDE DEF opening, second, new, q, x
  <2>5. QED BY <2>3, <2>4
<1>5. SenderInv /\ sizes \in [Ids -> Sizes] /\ sending \in 0 .. MaxSections /\ rest \in Seq(Byte)
  BY DEF SenderInv
<1> HIDE DEF q, data, left, x, new
<1>6. q.collecting => InSync(q)
  BY <1>3 DEF InSync
<1>7. FilledFrom(rest, rest) /\ Len(rest) <= Len(rest)
  BY <1>1 DEF FilledFrom
<1>8. /\ e.reader \in ReaderType /\ e.reader.lastCC = c
      /\ e.sections = Ended(r, n, c)
      /\ ~e.reader.collecting
  <2>1. /\ e.reader \in ReaderType /\ e.reader.lastCC = q.lastCC
        /\ e.sections = IF q.collecting /\ Len(rest) <= Len(rest) THEN <<Handed(sending, q.start)>> ELSE <<>>
        /\ e.reader.collecting <=> q.collecting /\ ~(Len(rest) <= Len(rest))
    BY <1>3, <1>5, <1>6, <1>7, ContinueIs
  <2> HIDE DEF e
  <2>2. QED BY <1>3, <1>7, <2>1 DEF Ended
<1>9. Begin(e.reader, new, offset) = [reader |-> Left(e.reader, n, room, offset), sections |-> Started(n, offset)]
  <2>1. Begin(e.reader, new, offset) = BegunFrom(e.reader, 1, n, room, offset)
    <3> HIDE DEF e, room
    <3>1. QED BY <1>1, <1>5, BeginIs
  <2>2. QED BY <2>1 DEF BegunFrom, Started
<1> DEFINE l == Left(e.reader, n, room, offset)
           f == Started(n, offset)
           s == Ended(r, n, c)
<1>10. x.reader = l /\ x.sections = s \o f
  <2> HIDE DEF l, f, e, s
  <2>1. x = [[reader |-> l, sections |-> f] EXCEPT !.sections = s \o @]
    BY <1>4, <1>8, <1>9 DEF l, f, s
  <2> DEFINE t == s \o f
  <2>2. x = [reader |-> l, sections |-> t]
    BY <2>1
  <2> HIDE DEF t
  <2>3. x.reader = l /\ x.sections = t
    BY <2>2
  <2>4. QED BY <2>3 DEF t
<1> HIDE DEF e
<1>11. CASE Ends(n) <= room
  <2>1. l = e.reader /\ Len(left) = 0
    BY <1>2, <1>11 DEF Left
  <2>2. left = <<>>
    BY <1>2, <2>1
  <2> HIDE DEF l, f, s
  <2>3. QED BY <1>8, <1>10, <2>1, <2>2 DEF Pushed, x, f, s, left
<1>12. CASE ~(Ends(n) <= room)
  <2> DEFINE m == room - Ends(n - 1)
             b == SubSeq(Bytes(sending + n), 1, m)
             g == e.reader
  <2>1. l = [g EXCEPT !.collecting = TRUE, !.buf = b, !.start = offset]
    BY <1>12 DEF Left
  <2>2. m \in Nat /\ m >= 1 /\ m <= sizes[sending + n]
    <3> DEFINE z == sizes[sending + n]
    <3>1. /\ Ends(n - 1) \in Nat /\ Ends(n) \in Nat /\ Ends(n) = Ends(n - 1) + z /\ z \in Nat
          /\ Len(rest) \in Nat /\ PayloadSize \in Nat /\ Len(rest) + Ends(n - 1) < PayloadSize - 1
      BY <1>1
    <3> HIDE DEF z
    <3>2. m \in Nat /\ m >= 1 /\ m <= z
      BY <1>12, <3>1
    <3>3. QED BY <3>2 DEF z
  <2>3. /\ Bytes(sending + n) \in Seq(Byte) /\ Len(Bytes(sending + n)) = sizes[sending + n]
        /\ \A j \in 1 .. sizes[sending + n] : Bytes(sending + n)[j] = <<sending + n, j>>
    BY <1>1, <1>5, BytesAre
  <2>4. /\ b \in Seq(Byte) /\ Len(b) = m /\ \A j \in 1 .. m : b[j] = Bytes(sending + n)[j]
    <3> HIDE DEF m
    <3>1. QED BY <2>2, <2>3, PrefixIs
  <2>5. StartOf(b, sending + n)
    <3> HIDE DEF m, b
    <3>1. \A j \in 1 .. m : j \in 1 .. sizes[sending + n]
      BY <1>1, <2>2
    <3>2. QED BY <2>3, <2>4, <3>1 DEF StartOf
  <2>6. Len(left) = Len(rest) + Ends(n) - (PayloadSize - 1) /\ Len(left) \in Nat
    BY <1>2, <1>12
  <2>7. Len(b) + Len(left) = sizes[sending + n] /\ left # <<>>
    <3> DEFINE z == sizes[sending + n]
               w == Len(left)
    <3>1. /\ Ends(n - 1) \in Nat /\ Ends(n) \in Nat /\ Ends(n) = Ends(n - 1) + z /\ z \in Nat
          /\ Len(rest) \in Nat /\ PayloadSize \in Nat /\ w = Len(rest) + Ends(n) - (PayloadSize - 1)
      BY <1>1, <2>6
    <3> HIDE DEF z, w, b
    <3>2. m + w = z /\ w # 0
      BY <1>12, <3>1
    <3>3. QED BY <2>4, <3>2 DEF z, w
  <2> HIDE DEF m, b, g
  <2>8. l \in ReaderType /\ l.collecting /\ l.buf = b /\ l.start = offset /\ l.lastCC = g.lastCC
    <3>1. g \in ReaderType
      BY <1>8 DEF g
    <3> HIDE DEF l
    <3>2. QED BY <2>1, <2>4, <3>1 DEF ReaderType
  <2> HIDE DEF l, f, s
  <2>9. g.lastCC = c
    BY <1>8 DEF g
  <2>10. /\ x.reader \in ReaderType /\ x.reader.lastCC = c /\ x.reader.collecting
         /\ StartOf(x.reader.buf, sending + n) /\ Len(x.reader.buf) >= 1
         /\ Len(x.reader.buf) + Len(left) = sizes[sending + n] /\ x.reader.start = offset
    BY <1>10, <2>2, <2>4, <2>5, <2>7, <2>8, <2>9
  <2>11. n > 0
    OBVIOUS
  <2>12. QED BY <1>10, <2>7, <2>10, <2>11 DEF Pushed, x, f, s, left
<1>13. QED BY <1>11, <1>12

-------------------------------------------------------------------------------
(* The sections that are handed on.                                          *)

Found == [data : Seq(Byte), at : Nat]

Before(s, t) == s.at < t.at \/ (s.at = t.at /\ s.data[1][1] < t.data[1][1])

\* Sections as they were sent, up to the s-th, in the order of their offsets.
OutIs(o, s, b, p) ==
  /\ o \in Seq(Found)
  /\ \A i \in 1 .. Len(o) : \E id \in 1 .. s : o[i].data = Bytes(id) /\ o[i].at \in b[id] /\ o[i].at <= p
  /\ \A i, j \in 1 .. Len(o) : i < j => Before(o[i], o[j])

HasHanded(o, id) == \E i \in 1 .. Len(o) : o[i].data = Bytes(id)

\* A section that is handed on.
LEMMA HandedIs ==
  ASSUME sizes \in [Ids -> Sizes], NEW id \in Ids, NEW offset \in Nat
  PROVE  /\ Handed(id, offset) \in Found
         /\ Handed(id, offset).data = Bytes(id) /\ Handed(id, offset).at = offset
         /\ Handed(id, offset).data[1][1] = id
         /\ Bytes(id)[1][1] = id
<1>1. Bytes(id) \in Seq(Byte) /\ 1 \in 1 .. sizes[id] /\ \A i \in 1 .. sizes[id] : Bytes(id)[i] = <<id, i>>
  BY BytesAre, SizeIs
<1>2. Bytes(id)[1] = <<id, 1>>
  BY <1>1
<1>3. QED BY <1>1, <1>2 DEF Handed, Found

\* Sections are handed on after others.
LEMMA Appended ==
  ASSUME NEW o, NEW s \in Nat, NEW b, NEW p \in Nat, OutIs(o, s, b, p), NEW m, OutIs(m, s, b, p),
         \A i \in 1 .. Len(o), j \in 1 .. Len(m) : Before(o[i], m[j])
  PROVE  OutIs(o \o m, s, b, p)
<1> DEFINE a == o \o m
<1>1. /\ o \in Seq(Found) /\ m \in Seq(Found) /\ Len(o) \in Nat /\ Len(m) \in Nat
      /\ \A i \in 1 .. Len(o) : \E id \in 1 .. s : o[i].data = Bytes(id) /\ o[i].at \in b[id] /\ o[i].at <= p
      /\ \A i \in 1 .. Len(m) : \E id \in 1 .. s : m[i].data = Bytes(id) /\ m[i].at \in b[id] /\ m[i].at <= p
      /\ \A i, j \in 1 .. Len(o) : i < j => Before(o[i], o[j])
      /\ \A i, j \in 1 .. Len(m) : i < j => Before(m[i], m[j])
  BY DEF OutIs
<1>2. /\ a \in Seq(Found) /\ Len(a) = Len(o) + Len(m)
      /\ \A i \in 1 .. Len(a) : a[i] = IF i <= Len(o) THEN o[i] ELSE m[i - Len(o)]
  BY <1>1, ConcatProperties
<1> HIDE DEF a
<1>3. \A i \in 1 .. Len(a) : \/ i \in 1 .. Len(o) /\ a[i] = o[i]
                             \/ i > Len(o) /\ i - Len(o) \in 1 .. Len(m) /\ a[i] = m[i - Len(o)]
  BY <1>1, <1>2
<1>4. \A i \in 1 .. Len(a) : \E id \in 1 .. s : a[i].data = Bytes(id) /\ a[i].at \in b[id] /\ a[i].at <= p
  BY <1>1, <1>3
<1>5. ASSUME NEW i \in 1 .. Len(a), NEW j \in 1 .. Len(a), i < j
      PROVE  Before(a[i], a[j])
  <2>1. CASE j \in 1 .. Len(o)
    <3>1. i \in 1 .. Len(o) /\ ~(i > Len(o)) /\ ~(j > Len(o))
      BY <1>1, <1>2, <1>5, <2>1
    <3>2. a[i] = o[i] /\ a[j] = o[j]
      BY <1>3, <3>1
    <3>3. QED BY <1>1, <1>5, <2>1, <3>1, <3>2
  <2>2. CASE j \notin 1 .. Len(o)
    <3> DEFINE l == j - Len(o)
    <3>1. l \in 1 .. Len(m) /\ a[j] = m[l]
      BY <1>3, <2>2
    <3>2. CASE i \in 1 .. Len(o)
      <4>1. ~(i > Len(o))
        BY <1>1, <3>2
      <4>2. a[i] = o[i]
        BY <1>3, <4>1
      <4> HIDE DEF l
      <4>3. QED BY <3>1, <3>2, <4>2
    <3>3. CASE i \notin 1 .. Len(o)
      <4> DEFINE k == i - Len(o)
      <4>1. k \in 1 .. Len(m) /\ a[i] = m[k]
        BY <1>3, <3>3
      <4>2. k < l
        BY <1>1, <1>2, <1>5
      <4> HIDE DEF k, l
      <4>3. QED BY <1>1, <3>1, <4>1, <4>2
    <3>4. QED BY <3>2, <3>3
  <2>3. QED BY <2>1, <2>2
<1>6. QED BY <1>2, <1>4, <1>5 DEF OutIs, a

\* More sections are sent, and more packets.
LEMMA StillOut ==
  ASSUME NEW o, NEW s \in Nat, NEW b, NEW p \in Nat, OutIs(o, s, b, p),
         NEW t \in Nat, NEW c, NEW q \in Nat, s <= t, p <= q, \A id \in 1 .. s : c[id] = b[id]
  PROVE  OutIs(o, t, c, q)
<1>1. ASSUME NEW i \in 1 .. Len(o)
      PROVE  \E id \in 1 .. t : o[i].data = Bytes(id) /\ o[i].at \in c[id] /\ o[i].at <= q
  <2>1. PICK id \in 1 .. s : o[i].data = Bytes(id) /\ o[i].at \in b[id] /\ o[i].at <= p
    BY DEF OutIs
  <2>2. id \in 1 .. t /\ c[id] = b[id]
    BY <2>1
  <2>3. o[i].at \in Nat
    <3>1. o[i] \in Found
      BY ElementOfSeq DEF OutIs
    <3>2. QED BY <3>1 DEF Found
  <2>4. o[i].at <= q
    BY <2>1, <2>3
  <2>5. QED BY <2>1, <2>2, <2>4
<1>2. QED BY <1>1 DEF OutIs

\* One section.
LEMMA OneOut ==
  ASSUME sizes \in [Ids -> Sizes], NEW s \in 0 .. MaxSections, NEW id \in 1 .. s, NEW offset \in Nat, NEW b, offset \in b[id],
         NEW p \in Nat, offset <= p
  PROVE  OutIs(<<Handed(id, offset)>>, s, b, p)
<1> DEFINE h == Handed(id, offset)
<1>1. id \in Ids
  BY ReaderAssumption DEF Ids
<1>2. h \in Found /\ h.data = Bytes(id) /\ h.at = offset
  BY <1>1, HandedIs
<1> HIDE DEF h
<1>3. <<h>> \in Seq(Found) /\ Len(<<h>>) = 1 /\ <<h>>[1] = h
  BY <1>2
<1> DEFINE o == <<h>>
<1> HIDE DEF o
<1>4. o \in Seq(Found) /\ Len(o) = 1 /\ o[1] = h
  BY <1>3 DEF o
<1>5. \A i \in 1 .. Len(o) : o[i].data = Bytes(id) /\ o[i].at \in b[id] /\ o[i].at <= p
  BY <1>2, <1>4
<1>6. \A i, j \in 1 .. Len(o) : ~(i < j)
  BY <1>4
<1>7. OutIs(o, s, b, p)
  BY <1>4, <1>5, <1>6 DEF OutIs
<1>8. QED BY <1>7 DEF o, h

\* None.
LEMMA NoneOut ==
  ASSUME NEW s, NEW b, NEW p
  PROVE  OutIs(<<>>, s, b, p)
<1>1. <<>> \in Seq(Found) /\ Len(<<>>) = 0
  OBVIOUS
<1>2. QED BY <1>1 DEF OutIs

\* The sections that begin and end in a packet.
LEMMA WholeOut ==
  ASSUME sizes \in [Ids -> Sizes], sending \in 0 .. MaxSections, NEW last \in Nat, sending + last <= MaxSections,
         NEW offset \in Nat, NEW b, \A id \in sending + 1 .. sending + last : offset \in b[id],
         NEW p \in Nat, offset <= p
  PROVE  /\ OutIs(HandedFrom(1, last, offset), sending + last, b, p)
         /\ \A i \in 1 .. Len(HandedFrom(1, last, offset)) : HandedFrom(1, last, offset)[i].at = offset
         /\ \A id \in sending + 1 .. sending + last : HasHanded(HandedFrom(1, last, offset), id)
<1> DEFINE w == HandedFrom(1, last, offset)
<1>1. /\ w = [i \in 1 .. last |-> Handed(sending + i, offset)]
  <2>1. last - 1 + 1 = last /\ \A i \in 1 .. last : sending + (1 + i - 1) = sending + i
    BY ReaderAssumption
  <2>2. w = [i \in 1 .. last - 1 + 1 |-> Handed(sending + (1 + i - 1), offset)]
    BY DEF HandedFrom
  <2> HIDE DEF w
  <2>3. w = [i \in 1 .. last |-> Handed(sending + (1 + i - 1), offset)]
    BY <2>1, <2>2
  <2>4. \A i \in 1 .. last : Handed(sending + (1 + i - 1), offset) = Handed(sending + i, offset)
    BY <2>1
  <2>5. QED BY <2>3, <2>4
<1> HIDE DEF w
<1>2. \A i \in 1 .. last : /\ sending + i \in Ids /\ sending + i \in 1 .. sending + last
                           /\ sending + i \in sending + 1 .. sending + last
  BY ReaderAssumption DEF Ids
<1>3. \A i \in 1 .. last : /\ w[i] = Handed(sending + i, offset)
                           /\ w[i] \in Found /\ w[i].data = Bytes(sending + i) /\ w[i].at = offset
                           /\ w[i].data[1][1] = sending + i
  BY <1>1, <1>2, HandedIs
<1>4. w \in Seq(Found) /\ Len(w) = last
  <2>1. \A i \in 1 .. last : Handed(sending + i, offset) \in Found
    BY <1>2, HandedIs
  <2>2. w \in [1 .. last -> Found]
    BY <1>1, <2>1
  <2>3. QED BY <2>2
<1>5. ASSUME NEW i \in 1 .. Len(w)
      PROVE  \E id \in 1 .. sending + last : w[i].data = Bytes(id) /\ w[i].at \in b[id] /\ w[i].at <= p
  <2>1. i \in 1 .. last
    BY <1>4
  <2>2. w[i].data = Bytes(sending + i) /\ w[i].at \in b[sending + i] /\ w[i].at <= p
    BY <1>2, <1>3, <2>1
  <2>3. QED BY <1>2, <2>1, <2>2
<1>6. ASSUME NEW i \in 1 .. Len(w), NEW j \in 1 .. Len(w), i < j
      PROVE  Before(w[i], w[j])
  <2>1. i \in 1 .. last /\ j \in 1 .. last
    BY <1>4
  <2>2. w[i].at = offset /\ w[j].at = offset /\ w[i].data[1][1] = sending + i /\ w[j].data[1][1] = sending + j
    BY <1>3, <2>1
  <2>3. sending + i < sending + j
    BY <1>6, <2>1, ReaderAssumption
  <2>4. QED BY <2>2, <2>3 DEF Before
<1>7. ASSUME NEW id \in sending + 1 .. sending + last
      PROVE  HasHanded(w, id)
  <2> DEFINE k == id - sending
  <2>1. k \in 1 .. Len(w) /\ k \in 1 .. last /\ sending + k = id
    BY <1>4, ReaderAssumption
  <2> HIDE DEF k
  <2>2. w[k].data = Bytes(id)
    BY <1>3, <2>1
  <2>3. QED BY <2>1, <2>2 DEF HasHanded
<1>8. QED BY <1>3, <1>4, <1>5, <1>6, <1>7 DEF OutIs, w

-------------------------------------------------------------------------------
(* What a packet adds to the sections that were handed on.                   *)

\* How many of the sections that begin in a packet end there.
Got(n) == IF n = 0 THEN 0 ELSE LastWhole(n, PayloadSize - 1 - Len(rest))

LEMMA GotIs ==
  ASSUME SenderInv, NEW n \in Nat, Fits(n)
  PROVE  /\ sending \in Nat /\ sending + n \in 0 .. MaxSections
         /\ Got(n) \in Nat /\ Got(n) <= n /\ sending + Got(n) <= MaxSections
         /\ n > 0 /\ Carried(n).left # <<>> => Got(n) = n - 1
         /\ Carried(n).left = <<>> => Got(n) = n
         /\ Carried(n).left # <<>> /\ n = 0 => ~(Len(rest) <= PayloadSize)
         /\ Carried(n).left = <<>> /\ n = 0 => Len(rest) <= PayloadSize
<1> DEFINE left == Carried(n).left
           room == PayloadSize - 1 - Len(rest)
<1>1. sending \in 0 .. MaxSections /\ MaxSections \in Nat
  BY ReaderAssumption DEF SenderInv
<1>2. CASE n = 0
  <2>1. /\ left \in Seq(Byte) /\ Len(rest) \in Nat /\ PayloadSize \in Nat
        /\ Len(left) = IF Len(rest) <= PayloadSize THEN 0 ELSE Len(rest) - PayloadSize
    BY <1>2, GoingOn
  <2> HIDE DEF left
  <2>2. left = <<>> <=> Len(rest) <= PayloadSize
    BY <2>1
  <2>3. Got(n) = 0
    BY <1>2 DEF Got
  <2>4. QED BY <1>1, <1>2, <2>2, <2>3 DEF left
<1>3. CASE n # 0
  <2>1. /\ n \in 1 .. MaxSections - sending /\ Ends(n) \in Nat /\ PayloadSize \in Nat /\ Len(rest) \in Nat
        /\ Len(rest) + Ends(n - 1) < PayloadSize - 1
    BY <1>3, Starting
  <2>2. /\ left \in Seq(Byte)
        /\ Len(left) = IF Ends(n) <= room THEN 0 ELSE Len(rest) + Ends(n) - (PayloadSize - 1)
    BY <1>3, StartingLeaves
  <2> HIDE DEF left
  <2>3. left = <<>> <=> Ends(n) <= room
    BY <2>1, <2>2
  <2>4. Got(n) = IF Ends(n) <= room THEN n ELSE n - 1
    BY <1>3 DEF Got, LastWhole
  <2> HIDE DEF room
  <2>5. QED BY <1>1, <1>3, <2>1, <2>3, <2>4 DEF left
<1>4. QED BY <1>2, <1>3

\* The section that ends in a packet.
LEMMA EndedAfter ==
  ASSUME SenderInv, NEW b, NEW p \in Nat, OutIs(out, sending, b, p), NEW r \in ReaderType, NEW n, NEW c,
         GoesOn(r, c) => /\ sending \in Ids /\ r.start \in b[sending] /\ r.start <= p
                         /\ \A i \in 1 .. Len(out) : Before(out[i], Handed(sending, r.start))
  PROVE  /\ OutIs(out \o Ended(r, n, c), sending, b, p) /\ Ended(r, n, c) \in Seq(Found)
         /\ GoesOn(r, c) /\ (n > 0 \/ Len(rest) <= PayloadSize) => HasHanded(out \o Ended(r, n, c), sending)
         /\ ~(GoesOn(r, c) /\ (n > 0 \/ Len(rest) <= PayloadSize)) => out \o Ended(r, n, c) = out
<1> DEFINE e == Ended(r, n, c)
           h == Handed(sending, r.start)
<1>1. out \in Seq(Found) /\ Len(out) \in Nat /\ sending \in 0 .. MaxSections /\ sizes \in [Ids -> Sizes]
      /\ sending \in Nat
  BY ReaderAssumption DEF OutIs, SenderInv
<1>2. CASE ~(GoesOn(r, c) /\ (n > 0 \/ Len(rest) <= PayloadSize))
  <2>1. e = <<>>
    BY <1>2 DEF Ended
  <2> HIDE DEF e
  <2>2. out \o e = out /\ e \in Seq(Found)
    BY <1>1, <2>1
  <2>3. QED BY <1>2, <2>2 DEF e
<1>3. CASE GoesOn(r, c) /\ (n > 0 \/ Len(rest) <= PayloadSize)
  <2>1. e = <<h>>
    BY <1>3 DEF Ended
  <2> HIDE DEF e
  <2>2. sending \in 1 .. sending /\ r.start \in Nat
    BY <1>3 DEF Ids, ReaderType
  <2>3. OutIs(<<h>>, sending, b, p)
    BY <1>1, <1>3, <2>2, OneOut
  <2>4. h.data = Bytes(sending)
    BY DEF Handed
  <2>5. \A i \in 1 .. Len(out) : Before(out[i], h)
    BY <1>3
  <2> HIDE DEF h
  <2>6. Len(e) = 1 /\ e[1] = h
    BY <2>1
  <2>7. \A i \in 1 .. Len(out), j \in 1 .. Len(e) : Before(out[i], e[j])
    BY <2>5, <2>6
  <2>8. OutIs(out \o e, sending, b, p)
    BY <1>1, <2>1, <2>3, <2>7, Appended
  <2>9. HasHanded(out \o e, sending)
    <3> DEFINE a == out \o e
    <3>1. e \in Seq(Found)
      BY <2>1, <2>3 DEF OutIs
    <3>2. /\ Len(a) = Len(out) + Len(e)
          /\ \A i \in 1 .. Len(out) + Len(e) : a[i] = IF i <= Len(out) THEN out[i] ELSE e[i - Len(out)]
      BY <1>1, <3>1, ConcatProperties
    <3>3. /\ Len(out) + 1 - Len(out) = 1 /\ Len(out) + 1 \in 1 .. Len(out) + Len(e)
          /\ ~(Len(out) + 1 <= Len(out))
      BY <1>1, <2>6
    <3> HIDE DEF a
    <3>4. a[Len(out) + 1] = h /\ Len(out) + 1 \in 1 .. Len(a)
      BY <2>6, <3>2, <3>3
    <3>5. QED BY <2>4, <3>4 DEF HasHanded, a
  <2>10. e \in Seq(Found)
    BY <2>1, <2>3 DEF OutIs
  <2>11. QED BY <1>3, <2>8, <2>9, <2>10 DEF e
<1>4. QED BY <1>2, <1>3

\* The sections that begin and end in it.
LEMMA FreshAfter ==
  ASSUME SenderInv, NEW n \in Nat, Fits(n), NEW o, NEW s \in Nat, s <= sending + Got(n), NEW b,
         NEW p \in Nat, OutIs(o, s, b, p), NEW offset \in Nat, p < offset,
         \A id \in sending + 1 .. sending + n : offset \in b[id]
  PROVE  /\ OutIs(o \o Started(n, offset), sending + Got(n), b, offset) /\ Started(n, offset) \in Seq(Found)
         /\ \A id \in sending + 1 .. sending + Got(n) : HasHanded(o \o Started(n, offset), id)
<1> DEFINE f == Started(n, offset)
           t == sending + Got(n)
<1>1. /\ sending \in Nat /\ Got(n) \in Nat /\ Got(n) <= n /\ t <= MaxSections /\ t \in Nat
      /\ sizes \in [Ids -> Sizes] /\ sending \in 0 .. MaxSections
  BY GotIs DEF SenderInv
<1>2. o \in Seq(Found) /\ Len(o) \in Nat
  BY DEF OutIs
<1>3. /\ OutIs(f, t, b, offset) /\ \A i \in 1 .. Len(f) : f[i].at = offset
      /\ \A id \in sending + 1 .. t : HasHanded(f, id)
  <2>1. CASE n = 0
    <3>1. f = <<>> /\ t = sending
      BY <1>1, <2>1 DEF Started, Got
    <3>2. Len(<<>>) = 0
      OBVIOUS
    <3> HIDE DEF f, t
    <3>3. 1 .. Len(f) = {} /\ sending + 1 .. t = {}
      BY <1>1, <3>1, <3>2
    <3>4. QED BY <3>1, <3>3, NoneOut
  <2>2. CASE n # 0
    <3>1. f = HandedFrom(1, Got(n), offset)
      BY <2>2 DEF Started, Got
    <3>2. offset <= offset /\ \A id \in sending + 1 .. sending + Got(n) : offset \in b[id]
      BY <1>1
    <3> HIDE DEF f
    <3>3. /\ OutIs(HandedFrom(1, Got(n), offset), sending + Got(n), b, offset)
          /\ \A i \in 1 .. Len(HandedFrom(1, Got(n), offset)) : HandedFrom(1, Got(n), offset)[i].at = offset
          /\ \A id \in sending + 1 .. sending + Got(n) : HasHanded(HandedFrom(1, Got(n), offset), id)
      BY <1>1, <3>2, WholeOut
    <3>4. QED BY <3>1, <3>3
  <2>3. QED BY <2>1, <2>2
<1> HIDE DEF f
<1>4. OutIs(o, t, b, offset)
  BY <1>1, StillOut
<1>5. ASSUME NEW i \in 1 .. Len(o), NEW j \in 1 .. Len(f)
      PROVE  Before(o[i], f[j])
  <2>1. PICK id \in 1 .. s : o[i].at <= p
    BY DEF OutIs
  <2>2. o[i].at \in Nat
    <3>1. o[i] \in Found
      BY <1>2, ElementOfSeq
    <3>2. QED BY <3>1 DEF Found
  <2>3. o[i].at < f[j].at
    BY <1>3, <2>1, <2>2
  <2>4. QED BY <2>3 DEF Before
<1> HIDE DEF t
<1>6. OutIs(o \o f, t, b, offset)
  BY <1>1, <1>3, <1>4, <1>5, Appended
<1>7. ASSUME NEW id \in sending + 1 .. t
      PROVE  HasHanded(o \o f, id)
  <2> DEFINE a == o \o f
  <2>1. PICK k \in 1 .. Len(f) : f[k].data = Bytes(id)
    BY <1>3 DEF HasHanded
  <2>2. f \in Seq(Found) /\ Len(f) \in Nat
    BY <1>3 DEF OutIs
  <2>3. /\ Len(a) = Len(o) + Len(f)
        /\ \A i \in 1 .. Len(o) + Len(f) : a[i] = IF i <= Len(o) THEN o[i] ELSE f[i - Len(o)]
    BY <1>2, <2>2, ConcatProperties
  <2>4. Len(o) + k \in 1 .. Len(o) + Len(f) /\ ~(Len(o) + k <= Len(o)) /\ Len(o) + k - Len(o) = k
    BY <1>2, <2>2
  <2> HIDE DEF a
  <2>5. a[Len(o) + k] = f[k] /\ Len(o) + k \in 1 .. Len(a)
    BY <2>3, <2>4
  <2>6. QED BY <2>1, <2>5 DEF HasHanded, a
<1>8. f \in Seq(Found)
  BY <1>3 DEF OutIs
<1>9. QED BY <1>6, <1>7, <1>8 DEF f, t

\* What was handed on stays so.
LEMMA StaysHanded ==
  ASSUME NEW o \in Seq(Found), NEW m \in Seq(Found), NEW id, HasHanded(o, id)
  PROVE  HasHanded(o \o m, id)
<1> DEFINE a == o \o m
<1>1. PICK k \in 1 .. Len(o) : o[k].data = Bytes(id)
  BY DEF HasHanded
<1>2. /\ Len(a) = Len(o) + Len(m)
      /\ \A i \in 1 .. Len(o) + Len(m) : a[i] = IF i <= Len(o) THEN o[i] ELSE m[i - Len(o)]
  BY ConcatProperties
<1>3. k \in 1 .. Len(o) + Len(m) /\ k <= Len(o)
  BY ElementOfSeq
<1> HIDE DEF a
<1>4. a[k] = o[k] /\ k \in 1 .. Len(a)
  BY <1>2, <1>3
<1>5. QED BY <1>1, <1>4 DEF HasHanded, a

\* What began before comes before.
LEMMA AllBefore ==
  ASSUME sizes \in [Ids -> Sizes], NEW o, NEW s \in Nat, NEW b, NEW p \in Nat, OutIs(o, s, b, p), NEW id \in Ids, s < id
  PROVE  \A i \in 1 .. Len(o) : Before(o[i], Handed(id, p))
<1> SUFFICES ASSUME NEW i \in 1 .. Len(o) PROVE Before(o[i], Handed(id, p))
  OBVIOUS
<1>1. PICK k \in 1 .. s : o[i].data = Bytes(k) /\ o[i].at <= p
  BY DEF OutIs
<1>2. o[i].at \in Nat
  <2>1. o \in Seq(Found)
    BY DEF OutIs
  <2>2. o[i] \in Found
    BY <2>1, ElementOfSeq
  <2>3. QED BY <2>2 DEF Found
<1>3. k \in Ids /\ k < id /\ k \in Nat /\ id \in Nat
  BY ReaderAssumption DEF Ids
<1>4. Bytes(k)[1][1] = k /\ Handed(id, p).at = p /\ Handed(id, p).data[1][1] = id
  BY <1>3, HandedIs
<1>5. o[i].data[1][1] < Handed(id, p).data[1][1]
  BY <1>1, <1>3, <1>4
<1>6. o[i].at < Handed(id, p).at \/ o[i].at = Handed(id, p).at
  BY <1>1, <1>2, <1>4
<1>7. QED BY <1>5, <1>6 DEF Before

-------------------------------------------------------------------------------
(* The reader and the sender.                                                *)

\* What the counter of the last packet sent is, while a section is in progress.
CounterIs(c, m, r) == c = r.lastCC + m \/ c = r.lastCC + m - CounterModulus

\* The section in progress is the one that is not at its end, unless its packets were
\* lost.
CollectInv ==
  reader.collecting =>
    /\ CounterIs(cc, missed, reader)
    /\ missed = 0 =>
         /\ InSync(reader) /\ reader.start \in begun[sending] /\ reader.start <= pos
         /\ \A i \in 1 .. Len(out) : Before(out[i], Handed(sending, reader.start))

NotMissed ==
  /\ rest # <<>> /\ sending \notin hit => reader.collecting /\ missed = 0
  /\ \A id \in 1 .. sending : id \notin hit /\ ~(rest # <<>> /\ id = sending) => HasHanded(out, id)

CountsInv ==
  /\ cc \in 0 .. CounterModulus - 1 /\ missed \in Nat /\ missed + 1 < CounterModulus /\ pos \in Nat
  /\ reader \in ReaderType /\ begun \in [Ids -> SUBSET Nat]

ReaderInv ==
  /\ SenderInv /\ CountsInv /\ OutIs(out, sending, begun, pos) /\ CollectInv /\ NotMissed

\* The counter wraps.
LEMMA NextIs ==
  ASSUME NEW c \in 0 .. CounterModulus - 1
  PROVE  /\ (c + 1) % CounterModulus = IF c + 1 < CounterModulus THEN c + 1 ELSE 0
         /\ (c + 1) % CounterModulus \in 0 .. CounterModulus - 1
<1>1. CASE c + 1 < CounterModulus
  BY <1>1, ReaderAssumption
<1>2. CASE c + 1 = CounterModulus
  <2>1. CounterModulus % CounterModulus = 0
    BY ReaderAssumption
  <2>2. QED BY <1>2, <2>1, ReaderAssumption
<1>3. QED BY <1>1, <1>2, ReaderAssumption

\* After the last packet the counter goes on from where the reader is when no packet was
\* lost, and only then.
LEMMA CounterGoesOn ==
  ASSUME CountsInv, CounterIs(cc, missed, reader)
  PROVE  /\ NextCC # reader.lastCC
         /\ NextCC = (reader.lastCC + 1) % CounterModulus <=> missed = 0
         /\ CounterIs(NextCC, missed + 1, reader)
<1> DEFINE l == reader.lastCC
<1>1. /\ l \in 0 .. CounterModulus - 1 /\ cc \in 0 .. CounterModulus - 1 /\ missed \in Nat
      /\ missed + 1 < CounterModulus /\ CounterModulus \in Nat
      /\ cc = l + missed \/ cc = l + missed - CounterModulus
  BY ReaderAssumption DEF CountsInv, ReaderType, CounterIs
<1>2. NextCC = IF cc + 1 < CounterModulus THEN cc + 1 ELSE 0
  BY <1>1, NextIs DEF NextCC
<1>3. (l + 1) % CounterModulus = IF l + 1 < CounterModulus THEN l + 1 ELSE 0
  <2> HIDE DEF l
  <2>1. QED BY <1>1, NextIs
<1> DEFINE m == (l + 1) % CounterModulus
<1>4. m = IF l + 1 < CounterModulus THEN l + 1 ELSE 0
  BY <1>3
<1> HIDE DEF l, m
<1>5. NextCC # l /\ (NextCC = m <=> missed = 0)
      /\ (NextCC = l + (missed + 1) \/ NextCC = l + (missed + 1) - CounterModulus)
  BY <1>1, <1>2, <1>4
<1>6. QED BY <1>5 DEF l, m, CounterIs

\* The section that still has bytes to send.
LEMMA IdsOfRest ==
  ASSUME SenderInv
  PROVE  IdsOf(rest) = IF rest = <<>> THEN {} ELSE {sending}
<1>1. CASE rest = <<>>
  <2>1. DOMAIN rest = {}
    BY <1>1
  <2>2. QED BY <1>1, <2>1 DEF IdsOf
<1>2. CASE rest # <<>>
  <2>1. /\ DOMAIN rest = 1 .. Len(rest) /\ Len(rest) \in Nat /\ Len(rest) >= 1 /\ sending \in Ids /\ sending # 0
        /\ \A j \in 1 .. Len(rest) : rest[j] = <<sending, sizes[sending] - Len(rest) + j>>
    BY <1>2, ReaderAssumption DEF SenderInv, Ids
  <2>2. \A j \in 1 .. Len(rest) : rest[j][1] = sending
    BY <2>1
  <2>3. 1 \in 1 .. Len(rest)
    BY <2>1
  <2>4. {rest[i][1] : i \in DOMAIN rest} = {sending}
    BY <2>1, <2>2, <2>3
  <2>5. QED BY <1>2, <2>1, <2>4 DEF IdsOf
<1>3. QED BY <1>1, <1>2

\* What the sender does.
LEMMA SendsIs ==
  ASSUME SenderInv, NEW n \in Nat, Sends(n)
  PROVE  /\ SenderInv' /\ Fits(n)
         /\ sending' = sending + n /\ rest' = Carried(n).left /\ sizes' = sizes
         /\ sending \in Nat /\ sending + n \in 0 .. MaxSections
<1>1. /\ Fits(n) /\ sending' = sending + n /\ rest' = Carried(n).left /\ sizes' = sizes
      /\ sizes \in [Ids -> Sizes] /\ sending \in Nat /\ sending + n \in 0 .. MaxSections
  BY GotIs DEF Sends, SenderInv
<1> DEFINE left == Carried(n).left
           id == sending + n
<1>2. /\ left \in Seq(Byte)
      /\ left # <<>> => id \in Ids /\ Len(left) < sizes[id]
      /\ \A j \in 1 .. Len(left) : left[j] = <<id, sizes[id] - Len(left) + j>>
  <2>1. CASE n = 0
    <3>1. id = sending
      BY <1>1, <2>1
    <3>2. /\ rest # <<>> /\ Len(rest) \in Nat /\ PayloadSize \in Nat /\ PayloadSize > 1 /\ left \in Seq(Byte)
          /\ Len(left) = IF Len(rest) <= PayloadSize THEN 0 ELSE Len(rest) - PayloadSize
          /\ \A j \in 1 .. Len(left) : left[j] = <<sending, sizes[sending] - Len(left) + j>>
      BY <1>1, <2>1, GoingOn
    <3>3. sending \in Ids /\ Len(rest) < sizes[sending] /\ sizes[sending] \in Nat /\ Len(rest) >= 1
      BY <3>2, SizeIs DEF SenderInv
    <3>4. Len(left) < sizes[sending]
      BY <3>2, <3>3
    <3> HIDE DEF left, id
    <3>5. QED BY <3>1, <3>2, <3>3, <3>4
  <2>2. CASE n # 0
    <3>1. id \in Ids
      BY <1>1, <2>2, Starting
    <3>2. QED BY <1>1, <2>2, <3>1, StartingLeaves
  <2>3. QED BY <2>1, <2>2
<1> HIDE DEF left
<1>3. QED BY <1>1, <1>2 DEF SenderInv, left, id

\* Where the file has the first bytes of the sections.
LEMMA BegunIs ==
  ASSUME ReaderInv, NEW n \in Nat, Fits(n), NEW copies \in {1, 2}, NEW p, p.data = Carried(n).data,
         Arrives(p, copies)
  PROVE  /\ begun' \in [Ids -> SUBSET Nat]
         /\ \A id \in 1 .. sending : begun'[id] = begun[id]
         /\ \A id \in sending + 1 .. sending + n : begun'[id] = pos + 1 .. pos + copies
         /\ pos' = pos + copies /\ pos' \in Nat
<1>1. /\ SenderInv /\ begun \in [Ids -> SUBSET Nat] /\ pos \in Nat /\ sending \in Nat
      /\ sending + n \in 0 .. MaxSections /\ MaxSections \in Nat
  BY GotIs, ReaderAssumption DEF ReaderInv, CountsInv
<1> DEFINE started == FirstBytes(p.data)
<1>2. begun' = [id \in DOMAIN begun |-> IF id \in started THEN pos + 1 .. pos + copies ELSE begun[id]]
  BY DEF Arrives, FirstBytes
<1>3. started = sending + 1 .. sending + n
  BY <1>1, FirstBytesAre
<1> HIDE DEF started
<1>4. pos' = pos + copies /\ pos' \in Nat
  BY <1>1 DEF Arrives
<1>5. (pos + 1 .. pos + copies) \in SUBSET Nat
  BY <1>1
<1>6. \A id \in 1 .. sending : id \in Ids /\ id \notin started
  BY <1>1, <1>3 DEF Ids
<1>7. \A id \in sending + 1 .. sending + n : id \in Ids /\ id \in started
  BY <1>1, <1>3 DEF Ids
<1>8. QED BY <1>1, <1>2, <1>4, <1>5, <1>6, <1>7

\* What Push makes of a packet.
LEMMA PushIs ==
  ASSUME SenderInv, NEW n \in Nat, Fits(n), NEW r \in ReaderType, NEW c \in 0 .. CounterModulus - 1,
         GoesOn(r, c) => InSync(r), ~(r.collecting /\ c = r.lastCC),
         NEW p, Intact(p, n, c), NEW offset \in Nat
  PROVE  Pushed(Push(r, p, offset), r, n, c, offset)
<1>1. CASE n = 0
  BY <1>1, PushGoingOn
<1>2. CASE n # 0
  BY <1>2, PushStarting
<1>3. QED BY <1>1, <1>2

\* What Push makes of a copy: nothing while a section is in progress, and the same
\* again when none is.
LEMMA CopyIs ==
  ASSUME SenderInv, NEW n \in Nat, Fits(n), NEW r \in ReaderType, NEW c \in 0 .. CounterModulus - 1,
         r.lastCC = c, NEW p, Intact(p, n, c), NEW offset \in Nat, Started(n, offset) \in Seq(Found)
  PROVE  LET x == Push(r, p, offset) IN
         /\ r.collecting => x.reader = r /\ x.sections = <<>>
         /\ ~r.collecting => Pushed(x, r, n, c, offset) /\ x.sections = Started(n, offset)
<1> DEFINE x == Push(r, p, offset)
           data == Carried(n).data
<1>1. CASE r.collecting
  <2>1. data # <<>>
    <3>1. Len(data) >= 1
      BY GoingOn, Starting
    <3>2. QED BY <3>1
  <2>2. /\ ~p.error /\ p.data = data /\ ~p.scrambled /\ r.collecting /\ p.cc = r.lastCC
    BY <1>1 DEF Intact
  <2> HIDE DEF data
  <2>3. x = [reader |-> r, sections |-> <<>>]
    BY <2>1, <2>2 DEF Push
  <2> HIDE DEF x
  <2>4. QED BY <1>1, <2>3 DEF x
<1>2. CASE ~r.collecting
  <2>1. ~GoesOn(r, c)
    BY <1>2 DEF GoesOn
  <2>2. Pushed(x, r, n, c, offset)
    BY <1>2, <2>1, PushIs
  <2>3. x.sections = <<>> \o Started(n, offset)
    BY <2>1, <2>2 DEF Pushed, Ended
  <2>4. x.sections = Started(n, offset)
    BY <2>3
  <2>5. QED BY <1>2, <2>2, <2>4
<1>3. QED BY <1>1, <1>2

\* A packet that arrives as it was sent, once or twice.
LEMMA Delivered ==
  ASSUME ReaderInv, NEW n \in Nat, Sends(n), cc' \in 0 .. CounterModulus - 1,
         reader.collecting => cc' # reader.lastCC, GoesOn(reader, cc') => missed = 0,
         NEW p, Intact(p, n, cc'), NEW copies \in {1, 2}, Arrives(p, copies), missed' = 0
  PROVE  /\ SenderInv' /\ CountsInv' /\ OutIs(out', sending', begun', pos') /\ CollectInv'
         /\ reader'.collecting <=> rest' # <<>> /\ (n > 0 \/ GoesOn(reader, cc'))
         /\ \A id \in 1 .. sending : HasHanded(out, id) => HasHanded(out', id)
         /\ GoesOn(reader, cc') /\ (n > 0 \/ rest' = <<>>) => HasHanded(out', sending)
         /\ \A id \in sending + 1 .. sending' : ~(rest' # <<>> /\ id = sending') => HasHanded(out', id)
<1> DEFINE c == cc'
           b == begun'
           E == Ended(reader, n, c)
           F == Started(n, pos + 1)
           G == Started(n, pos + 2)
           once == Push(reader, p, pos + 1)
           again == Push(once.reader, p, pos + 2)
           left == Carried(n).left
           t == sending + Got(n)
           o1 == out \o E
           o2 == o1 \o F
           o3 == o2 \o G
<1>1. /\ SenderInv /\ CountsInv /\ OutIs(out, sending, begun, pos) /\ CollectInv
      /\ pos \in Nat /\ reader \in ReaderType /\ sizes \in [Ids -> Sizes]
  BY DEF ReaderInv, CountsInv, SenderInv
<1>2. /\ SenderInv' /\ Fits(n) /\ sending' = sending + n /\ rest' = left /\ sizes' = sizes
      /\ sending \in Nat /\ sending + n \in 0 .. MaxSections
  BY <1>1, SendsIs
<1>3. /\ b \in [Ids -> SUBSET Nat] /\ \A id \in 1 .. sending : b[id] = begun[id]
      /\ \A id \in sending + 1 .. sending + n : b[id] = pos + 1 .. pos + copies
      /\ pos' = pos + copies /\ pos' \in Nat
  BY <1>2, BegunIs DEF Intact
<1>4. /\ Got(n) \in Nat /\ Got(n) <= n /\ t \in Nat
      /\ n > 0 /\ left # <<>> => Got(n) = n - 1
      /\ left = <<>> => Got(n) = n
      /\ left # <<>> /\ n = 0 => ~(Len(rest) <= PayloadSize)
      /\ left = <<>> /\ n = 0 => Len(rest) <= PayloadSize
  BY <1>1, <1>2, GotIs
<1>5. GoesOn(reader, c) => /\ InSync(reader) /\ sending \in Ids /\ reader.start \in begun[sending]
                           /\ reader.start <= pos
                           /\ \A i \in 1 .. Len(out) : Before(out[i], Handed(sending, reader.start))
  BY <1>1 DEF CollectInv, GoesOn, InSync
<1>6. Pushed(once, reader, n, c, pos + 1)
  <2>1. pos + 1 \in Nat /\ ~(reader.collecting /\ c = reader.lastCC)
    BY <1>1
  <2> HIDE DEF c, once
  <2>2. QED BY <1>1, <1>2, <1>5, <2>1, PushIs DEF once, c
<1>7. /\ OutIs(o1, sending, begun, pos) /\ E \in Seq(Found)
      /\ GoesOn(reader, c) /\ (n > 0 \/ Len(rest) <= PayloadSize) => HasHanded(o1, sending)
      /\ ~(GoesOn(reader, c) /\ (n > 0 \/ Len(rest) <= PayloadSize)) => o1 = out
  <2> HIDE DEF c
  <2>1. QED BY <1>1, <1>5, EndedAfter
<1>8. \A id \in sending + 1 .. sending + n :
        /\ id \in Ids /\ pos + 1 \in b[id]
        /\ copies = 2 => pos + 2 \in b[id]
  BY <1>1, <1>2, <1>3, ReaderAssumption DEF Ids
<1>9. OutIs(o2, t, b, pos + 1) /\ F \in Seq(Found) /\ \A id \in sending + 1 .. t : HasHanded(o2, id)
  <2> HIDE DEF o1, b
  <2>1. OutIs(o1, sending, b, pos)
    <3>1. sending <= sending /\ pos <= pos
      BY <1>1, <1>2
    <3>2. QED BY <1>1, <1>2, <1>3, <1>7, <3>1, StillOut
  <2>2. sending <= t /\ pos < pos + 1 /\ pos + 1 \in Nat
    BY <1>1, <1>2, <1>4
  <2>3. \A id \in sending + 1 .. sending + n : pos + 1 \in b[id]
    BY <1>8
  <2> HIDE DEF t, F, o2
  <2>4. OutIs(o1 \o F, t, b, pos + 1) /\ F \in Seq(Found)
        /\ \A id \in sending + 1 .. t : HasHanded(o1 \o F, id)
    <3>1. sending <= sending + Got(n)
      BY <2>2 DEF t
    <3>2. QED BY <1>1, <1>2, <2>1, <2>2, <2>3, <3>1, FreshAfter DEF F, t
  <2>5. QED BY <2>4 DEF o2
<1>10. copies = 2 => OutIs(o3, t, b, pos + 2) /\ G \in Seq(Found)
  <2> SUFFICES ASSUME copies = 2 PROVE OutIs(o3, t, b, pos + 2) /\ G \in Seq(Found)
    OBVIOUS
  <2>1. t <= t /\ pos + 1 < pos + 2 /\ pos + 1 \in Nat /\ pos + 2 \in Nat
    BY <1>1, <1>4
  <2>2. \A id \in sending + 1 .. sending + n : pos + 2 \in b[id]
    BY <1>8
  <2> HIDE DEF t, G, o2, b
  <2>3. OutIs(o2 \o G, t, b, pos + 2) /\ G \in Seq(Found)
    <3>1. t <= sending + Got(n)
      BY <2>1 DEF t
    <3>2. QED BY <1>1, <1>2, <1>4, <1>9, <2>1, <2>2, <3>1, FreshAfter DEF G, t
  <2>4. QED BY <2>3 DEF o3
<1> HIDE DEF E, F, G, b, left, once, t, o1, o2, o3, c
<1>11. out \o once.sections = o2
  <2>1. once.sections = E \o F
    BY <1>6 DEF Pushed, E, F, c
  <2>2. out \in Seq(Found)
    BY <1>1 DEF OutIs
  <2>3. out \o (E \o F) = (out \o E) \o F
    BY <1>7, <1>9, <2>2, ConcatAssociative
  <2>4. QED BY <2>1, <2>3 DEF o1, o2
<1>12. o2 \in Seq(Found)
  BY <1>9 DEF OutIs
<1>13. /\ once.reader \in ReaderType /\ once.reader.lastCC = c
       /\ once.reader.collecting <=> left # <<>> /\ (n > 0 \/ GoesOn(reader, c))
  BY <1>6 DEF Pushed, left
<1>14. \/ reader' = once.reader /\ out' = o2
       \/ /\ copies = 2 /\ out' = o3 /\ ~once.reader.collecting
          /\ reader' \in ReaderType /\ reader'.lastCC = c /\ ~reader'.collecting
  <2>1. CASE copies = 1
    <3>1. reader' = once.reader /\ out' = (out \o once.sections) \o <<>>
      BY <2>1 DEF Arrives, once
    <3>2. QED BY <1>11, <1>12, <3>1
  <2>2. CASE copies = 2
    <3>1. reader' = again.reader /\ out' = (out \o once.sections) \o again.sections
      BY <2>2 DEF Arrives, once, again
    <3>2. /\ once.reader.collecting => again.reader = once.reader /\ again.sections = <<>>
          /\ ~once.reader.collecting => Pushed(again, once.reader, n, c, pos + 2) /\ again.sections = G
      <4>1. pos + 2 \in Nat /\ Started(n, pos + 2) \in Seq(Found) /\ c \in 0 .. CounterModulus - 1
            /\ Intact(p, n, c)
        BY <1>1, <1>10, <2>2 DEF G, c
      <4> DEFINE r == once.reader
      <4>2. r \in ReaderType /\ r.lastCC = c
        BY <1>13
      <4> HIDE DEF r
      <4>3. /\ r.collecting => Push(r, p, pos + 2).reader = r /\ Push(r, p, pos + 2).sections = <<>>
            /\ ~r.collecting => /\ Pushed(Push(r, p, pos + 2), r, n, c, pos + 2)
                                /\ Push(r, p, pos + 2).sections = Started(n, pos + 2)
        BY <1>1, <1>2, <4>1, <4>2, CopyIs
      <4>4. QED BY <4>3 DEF r, again, G
    <3> HIDE DEF again
    <3>3. CASE once.reader.collecting
      BY <1>11, <1>12, <3>1, <3>2, <3>3
    <3>4. CASE ~once.reader.collecting
      <4>1. out' = o3
        BY <1>11, <3>1, <3>2, <3>4 DEF o3
      <4>2. Pushed(again, once.reader, n, c, pos + 2) /\ ~GoesOn(once.reader, c)
        BY <3>2, <3>4 DEF GoesOn
      <4>3. /\ again.reader \in ReaderType /\ again.reader.lastCC = c
            /\ again.reader.collecting <=> left # <<>> /\ (n > 0 \/ GoesOn(once.reader, c))
        BY <4>2 DEF Pushed, left
      <4>4. ~again.reader.collecting
        BY <1>13, <3>4, <4>2, <4>3
      <4>5. QED BY <2>2, <3>1, <3>4, <4>1, <4>3, <4>4
    <3>5. QED BY <3>3, <3>4
  <2>3. QED BY <2>1, <2>2
<1> HIDE DEF again
<1>15. reader' \in ReaderType /\ reader'.lastCC = c
       /\ (reader'.collecting <=> left # <<>> /\ (n > 0 \/ GoesOn(reader, c)))
  BY <1>13, <1>14
<1>16. CountsInv'
  BY <1>1, <1>3, <1>15, ReaderAssumption DEF CountsInv, b
<1>17. OutIs(out', sending', begun', pos')
  <2>1. t <= sending + n /\ pos + 1 <= pos' /\ (copies = 2 => pos + 2 <= pos') /\ sending + n \in Nat
        /\ pos + 1 \in Nat /\ pos + 2 \in Nat
    BY <1>1, <1>2, <1>3, <1>4 DEF t
  <2>2. \A id \in 1 .. t : b[id] = b[id]
    OBVIOUS
  <2>3. OutIs(o2, sending + n, b, pos')
    BY <1>3, <1>4, <1>9, <2>1, <2>2, StillOut
  <2>4. copies = 2 => OutIs(o3, sending + n, b, pos')
    BY <1>3, <1>4, <1>10, <2>1, <2>2, StillOut
  <2>5. QED BY <1>2, <1>14, <2>3, <2>4 DEF b
<1>18. ASSUME NEW id, HasHanded(o2, id) PROVE HasHanded(out', id)
  BY <1>10, <1>12, <1>14, <1>18, StaysHanded DEF o3
<1>19. ASSUME NEW id, HasHanded(o1, id) PROVE HasHanded(out', id)
  <2>1. o1 \in Seq(Found)
    BY <1>7 DEF OutIs
  <2>2. HasHanded(o2, id)
    BY <1>9, <1>19, <2>1, StaysHanded DEF o2
  <2>3. QED BY <1>18, <2>2
<1>20. ASSUME NEW id, HasHanded(out, id) PROVE HasHanded(out', id)
  <2>1. out \in Seq(Found)
    BY <1>1 DEF OutIs
  <2>2. HasHanded(o1, id)
    BY <1>7, <1>20, <2>1, StaysHanded DEF o1
  <2>3. QED BY <1>19, <2>2
<1>21. GoesOn(reader, c) /\ (n > 0 \/ rest' = <<>>) => HasHanded(out', sending)
  BY <1>2, <1>4, <1>7, <1>19
<1>22. ASSUME NEW id \in sending + 1 .. sending', ~(rest' # <<>> /\ id = sending')
       PROVE  HasHanded(out', id)
  <2>1. id \in sending + 1 .. t
    BY <1>2, <1>4, <1>22 DEF t
  <2>2. QED BY <1>9, <1>18, <2>1
<1>23. CollectInv'
  <2> SUFFICES ASSUME reader'.collecting PROVE CollectInv'
    BY DEF CollectInv
  <2>1. left # <<>> /\ (n > 0 \/ GoesOn(reader, c)) /\ reader' = once.reader /\ out' = o2
    BY <1>14, <1>15
  <2>2. /\ StartOf(reader'.buf, sending + n) /\ Len(reader'.buf) >= 1
        /\ Len(reader'.buf) + Len(left) = sizes[sending + n]
        /\ reader'.start = IF n > 0 THEN pos + 1 ELSE reader.start
    BY <1>6, <2>1 DEF Pushed, left
  <2>3. sending + n \in Ids
    BY <1>2, <2>1 DEF SenderInv
  <2>4. InSync(reader)'
    BY <1>2, <2>1, <2>2, <2>3 DEF InSync, StartOf
  <2>5. CounterIs(cc, missed, reader)'
    <3>1. reader'.lastCC = cc'
      BY <1>15 DEF c
    <3>2. cc' + 0 = cc'
      <4>1. cc' \in Int
        BY ReaderAssumption
      <4>2. \A k \in Int : k + 0 = k
        OBVIOUS
      <4>3. QED BY <4>1, <4>2
    <3>3. QED BY <3>1, <3>2 DEF CounterIs
  <2>6. /\ reader'.start \in begun'[sending'] /\ reader'.start <= pos'
        /\ \A i \in 1 .. Len(out') : Before(out'[i], Handed(sending', reader'.start))
    <3>1. CASE n > 0
      <4>1. t < sending + n /\ sending + n \in sending + 1 .. sending + n /\ pos + 1 <= pos' /\ pos + 1 \in Nat
        BY <1>1, <1>2, <1>3, <1>4, <2>1, <3>1 DEF t
      <4>2. \A i \in 1 .. Len(o2) : Before(o2[i], Handed(sending + n, pos + 1))
        BY <1>1, <1>4, <1>9, <2>3, <4>1, AllBefore
      <4>3. reader'.start = pos + 1 /\ pos + 1 \in b[sending + n]
        BY <1>8, <2>2, <3>1, <4>1
      <4>4. QED BY <1>2, <2>1, <4>1, <4>2, <4>3 DEF b
    <3>2. CASE ~(n > 0)
      <4>1. n = 0 /\ sending + n = sending /\ sending \in 1 .. sending
        BY <1>2, <2>3, <3>2 DEF Ids
      <4>2. F = <<>> /\ reader'.start = reader.start /\ GoesOn(reader, c)
        BY <2>1, <2>2, <4>1 DEF F, Started
      <4>3. o1 = out
        BY <1>4, <1>7, <2>1, <4>1
      <4>4. o2 = out
        <5>1. out \in Seq(Found)
          BY <1>1 DEF OutIs
        <5>2. o2 = out \o <<>>
          BY <4>2, <4>3 DEF o2
        <5>3. QED BY <5>1, <5>2
      <4>5. reader.start \in Nat /\ pos <= pos'
        BY <1>1, <1>3 DEF ReaderType
      <4>6. reader.start <= pos'
        BY <1>1, <1>3, <1>5, <4>2, <4>5
      <4>7. reader.start \in b[sending]
        BY <1>3, <1>5, <4>1, <4>2
      <4>8. \A i \in 1 .. Len(out) : Before(out[i], Handed(sending, reader.start))
        BY <1>5, <4>2
      <4>9. QED BY <1>2, <2>1, <4>1, <4>2, <4>4, <4>6, <4>7, <4>8 DEF b
    <3>3. QED BY <3>1, <3>2
  <2>7. Handed(sending', reader'.start) = Handed(sending, reader.start)'
    BY <1>2 DEF Handed, Bytes
  <2>8. QED BY <2>4, <2>5, <2>6, <2>7 DEF CollectInv, Before
<1>24. QED BY <1>2, <1>15, <1>16, <1>17, <1>20, <1>21, <1>22, <1>23 DEF c

\* The sections have the same bytes in the next state.
LEMMA SameBytes ==
  ASSUME sizes' = sizes
  PROVE  /\ OutIs(out, sending, begun, pos)' <=> OutIs(out', sending', begun', pos')
         /\ \A id : HasHanded(out, id)' <=> HasHanded(out', id)
<1>1. \A id : Bytes(id)' = Bytes(id)
  BY DEF Bytes
<1>2. QED BY <1>1 DEF OutIs, HasHanded, Before

\* A packet whose sections are lost, and with them the one in progress.
LEMMA Spoiled ==
  ASSUME ReaderInv, NEW n \in Nat, Sends(n), NEW p, Arrives(p, 1), p.data = Carried(n).data,
         Push(reader, p, pos + 1).sections = <<>>, Push(reader, p, pos + 1).reader \in ReaderType,
         ~Push(reader, p, pos + 1).reader.collecting,
         cc' = NextCC, missed' = 0, hit' = hit \cup IdsOf(Carried(n).data)
  PROVE  ReaderInv'
<1>1. /\ SenderInv /\ CountsInv /\ OutIs(out, sending, begun, pos) /\ NotMissed
      /\ pos \in Nat /\ cc \in 0 .. CounterModulus - 1
  BY DEF ReaderInv, CountsInv
<1>2. /\ SenderInv' /\ Fits(n) /\ sending' = sending + n /\ rest' = Carried(n).left /\ sizes' = sizes
      /\ sending \in Nat /\ sending + n \in 0 .. MaxSections
  BY <1>1, SendsIs
<1>3. /\ begun' \in [Ids -> SUBSET Nat] /\ \A id \in 1 .. sending : begun'[id] = begun[id]
      /\ pos' \in Nat /\ pos <= pos'
  <2>1. 1 \in {1, 2}
    OBVIOUS
  <2>2. /\ begun' \in [Ids -> SUBSET Nat] /\ \A id \in 1 .. sending : begun'[id] = begun[id]
        /\ pos' = pos + 1
    BY <1>2, <2>1, BegunIs
  <2>3. QED BY <1>1, <2>2
<1>4. out' = out /\ reader' \in ReaderType /\ ~reader'.collecting
  <2> DEFINE x == Push(reader, p, pos + 1)
  <2>1. reader' = x.reader /\ out' = (out \o x.sections) \o <<>>
    BY DEF Arrives
  <2>2. out \in Seq(Found)
    BY <1>1 DEF OutIs
  <2> HIDE DEF x
  <2>3. x.sections = <<>> /\ x.reader \in ReaderType /\ ~x.reader.collecting
    BY DEF x
  <2>4. QED BY <2>1, <2>2, <2>3
<1>5. CountsInv'
  <2>1. cc' \in 0 .. CounterModulus - 1
    BY <1>1, NextIs DEF NextCC
  <2>2. QED BY <1>3, <1>4, <2>1, ReaderAssumption DEF CountsInv
<1>6. OutIs(out', sending', begun', pos')
  BY <1>1, <1>2, <1>3, <1>4, StillOut
<1>7. CollectInv'
  BY <1>4 DEF CollectInv
<1>8. sending + 1 .. sending + n \subseteq hit' /\ (rest # <<>> => sending \in hit')
  BY <1>1, <1>2, IdsCarried
<1>9. NotMissed'
  <2>1. rest' # <<>> => sending' \in hit'
    <3>1. CASE n = 0
      BY <1>2, <1>8, <3>1 DEF Fits
    <3>2. CASE n # 0
      <4>1. sending + n \in sending + 1 .. sending + n
        BY <1>2, <3>2
      <4>2. QED BY <1>2, <1>8, <4>1
    <3>3. QED BY <3>1, <3>2
  <2>2. ASSUME NEW id \in 1 .. sending', id \notin hit'
        PROVE  HasHanded(out', id)
    <3>1. id \in 1 .. sending
      BY <1>2, <1>8, <2>2
    <3>2. id \notin hit /\ ~(rest # <<>> /\ id = sending)
      BY <1>8, <2>2
    <3>3. QED BY <1>1, <1>4, <3>1, <3>2 DEF NotMissed
  <2>3. QED BY <1>2, <2>1, <2>2, SameBytes DEF NotMissed
<1>10. QED BY <1>2, <1>5, <1>6, <1>7, <1>9, SameBytes DEF ReaderInv

\* A packet that arrives as it was sent.
LEMMA WholePreserves ==
  ASSUME ReaderInv, NEW n \in Nat, SendWhole(n)
  PROVE  ReaderInv'
<1>1. /\ Sends(n) /\ cc' = NextCC /\ missed' = 0 /\ hit' = hit
      /\ SenderInv /\ CountsInv /\ OutIs(out, sending, begun, pos) /\ CollectInv /\ NotMissed
  BY DEF SendWhole, ReaderInv
<1>2. PICK copies \in {1, 2} : Arrives(Packet(n), copies)
  BY DEF SendWhole
<1>3. cc' \in 0 .. CounterModulus - 1
  BY <1>1, NextIs DEF NextCC, CountsInv
<1>4. reader.collecting => /\ cc' # reader.lastCC /\ (GoesOn(reader, cc') <=> missed = 0)
  BY <1>1, CounterGoesOn DEF CollectInv, GoesOn
<1>5. GoesOn(reader, cc') => missed = 0
  BY <1>4 DEF GoesOn
<1> DEFINE p == Packet(n)
<1>6. Intact(p, n, cc')
  BY DEF Packet, Intact
<1>7. Arrives(p, copies)
  BY <1>2
<1> HIDE DEF p
<1>8. /\ SenderInv' /\ CountsInv' /\ OutIs(out', sending', begun', pos') /\ CollectInv'
      /\ reader'.collecting <=> rest' # <<>> /\ (n > 0 \/ GoesOn(reader, cc'))
      /\ \A id \in 1 .. sending : HasHanded(out, id) => HasHanded(out', id)
      /\ GoesOn(reader, cc') /\ (n > 0 \/ rest' = <<>>) => HasHanded(out', sending)
      /\ \A id \in sending + 1 .. sending' : ~(rest' # <<>> /\ id = sending') => HasHanded(out', id)
  BY <1>1, <1>3, <1>4, <1>5, <1>6, <1>7, Delivered
<1>9. /\ Fits(n) /\ sending' = sending + n /\ sizes' = sizes /\ sending \in Nat
  BY <1>1, SendsIs
<1>10. rest # <<>> /\ sending \notin hit => GoesOn(reader, cc')
  BY <1>1, <1>4 DEF NotMissed
<1>11. rest' # <<>> /\ sending' \notin hit => reader'.collecting
  <2>1. CASE n = 0
    <3>1. rest # <<>> /\ sending' = sending
      BY <1>9, <2>1 DEF Fits
    <3>2. QED BY <1>8, <1>10, <3>1
  <2>2. CASE n # 0
    BY <1>8, <2>2
  <2>3. QED BY <2>1, <2>2
<1>12. ASSUME NEW id \in 1 .. sending', id \notin hit, ~(rest' # <<>> /\ id = sending')
       PROVE  HasHanded(out', id)
  <2>1. CASE id \in sending + 1 .. sending'
    BY <1>8, <1>12, <2>1
  <2>2. CASE id \in 1 .. sending /\ ~(rest # <<>> /\ id = sending)
    BY <1>1, <1>8, <1>12, <2>2 DEF NotMissed
  <2>3. CASE rest # <<>> /\ id = sending
    <3>1. n > 0 \/ rest' = <<>>
      BY <1>9, <1>12, <2>3
    <3>2. QED BY <1>8, <1>10, <1>12, <2>3, <3>1
  <2>4. id \in sending + 1 .. sending' \/ id \in 1 .. sending
    BY <1>9
  <2>5. QED BY <2>1, <2>2, <2>3, <2>4
<1>13. NotMissed'
  BY <1>1, <1>9, <1>11, <1>12, SameBytes DEF NotMissed
<1>14. QED BY <1>8, <1>9, <1>13, SameBytes DEF ReaderInv

\* A packet that announces a jump of the counter.
LEMMA AnnouncedPreserves ==
  ASSUME ReaderInv, NEW n \in Nat, SendAnnounced(n)
  PROVE  ReaderInv'
<1>1. /\ Sends(n) /\ missed' = 0 /\ hit' = hit \cup IdsOf(rest)
      /\ cc' \in 0 .. CounterModulus - 1
      /\ cc' # reader.lastCC /\ cc' # (reader.lastCC + 1) % CounterModulus
      /\ SenderInv /\ CountsInv /\ OutIs(out, sending, begun, pos) /\ CollectInv /\ NotMissed
  BY DEF SendAnnounced, ReaderInv
<1>2. ~GoesOn(reader, cc')
  BY <1>1 DEF GoesOn
<1> DEFINE p == [Packet(n) EXCEPT !.discontinuity = TRUE]
<1>3. Intact(p, n, cc')
  BY DEF Packet, Intact
<1>4. Arrives(p, 1) /\ 1 \in {1, 2}
  BY DEF SendAnnounced
<1> HIDE DEF p
<1>5. /\ SenderInv' /\ CountsInv' /\ OutIs(out', sending', begun', pos') /\ CollectInv'
      /\ reader'.collecting <=> rest' # <<>> /\ (n > 0 \/ GoesOn(reader, cc'))
      /\ \A id \in 1 .. sending : HasHanded(out, id) => HasHanded(out', id)
      /\ \A id \in sending + 1 .. sending' : ~(rest' # <<>> /\ id = sending') => HasHanded(out', id)
  BY <1>1, <1>2, <1>3, <1>4, Delivered
<1>6. /\ Fits(n) /\ sending' = sending + n /\ sizes' = sizes /\ sending \in Nat
  BY <1>1, SendsIs
<1>7. rest # <<>> => sending \in hit'
  BY <1>1, IdsOfRest
<1>8. rest' # <<>> /\ sending' \notin hit' => reader'.collecting
  <2>1. CASE n = 0
    <3>1. rest # <<>> /\ sending' = sending
      BY <1>6, <2>1 DEF Fits
    <3>2. QED BY <1>7, <3>1
  <2>2. CASE n # 0
    BY <1>5, <2>2
  <2>3. QED BY <2>1, <2>2
<1>9. ASSUME NEW id \in 1 .. sending', id \notin hit', ~(rest' # <<>> /\ id = sending')
      PROVE  HasHanded(out', id)
  <2>1. CASE id \in sending + 1 .. sending'
    BY <1>5, <1>9, <2>1
  <2>2. CASE id \in 1 .. sending
    BY <1>1, <1>5, <1>7, <1>9, <2>2 DEF NotMissed
  <2>3. QED BY <1>6, <2>1, <2>2
<1>10. NotMissed'
  BY <1>1, <1>6, <1>8, <1>9, SameBytes DEF NotMissed
<1>11. QED BY <1>5, <1>6, <1>10, SameBytes DEF ReaderInv

\* A packet that is marked as damaged or scrambled, or points nowhere.
LEMMA UnusablePreserves ==
  ASSUME ReaderInv, NEW n \in Nat, SendUnusable(n)
  PROVE  ReaderInv'
<1>1. /\ Sends(n) /\ cc' = NextCC /\ missed' = 0 /\ hit' = hit \cup IdsOf(Carried(n).data)
      /\ SenderInv /\ CountsInv /\ CollectInv /\ reader \in ReaderType /\ pos \in Nat
  BY DEF SendUnusable, ReaderInv, CountsInv
<1>2. Fits(n)
  BY <1>1 DEF Sends
<1> DEFINE data == Carried(n).data
<1>3. data # <<>> /\ (n > 0 => Len(data) = PayloadSize - 1)
  <2>1. Len(data) >= 1 /\ (n > 0 => Len(data) = PayloadSize - 1)
    BY <1>1, <1>2, GoingOn, Starting
  <2>2. QED BY <2>1
<1>4. Idle(reader) \in ReaderType /\ ~Idle(reader).collecting
  BY <1>1, IdleIs
<1>5. SUFFICES ASSUME NEW p, Arrives(p, 1), p.data = data,
                      NEW r \in ReaderType, ~r.collecting,
                      Push(reader, p, pos + 1) = [reader |-> r, sections |-> <<>>]
               PROVE  ReaderInv'
  <2>1. CASE Arrives([Packet(n) EXCEPT !.error = TRUE], 1)
    <3> DEFINE p == [Packet(n) EXCEPT !.error = TRUE]
    <3>1. p.error /\ p.data = data
      BY DEF Packet
    <3>2. Arrives(p, 1)
      BY <2>1
    <3> HIDE DEF p, data
    <3>3. Push(reader, p, pos + 1) = [reader |-> Idle(reader), sections |-> <<>>]
      BY <3>1 DEF Push
    <3>4. QED BY <1>4, <1>5, <3>1, <3>2, <3>3
  <2>2. CASE Arrives([Packet(n) EXCEPT !.scrambled = TRUE], 1)
    <3> DEFINE p == [Packet(n) EXCEPT !.scrambled = TRUE]
    <3>1. ~p.error /\ p.scrambled /\ p.data = data
      BY DEF Packet
    <3>2. Arrives(p, 1)
      BY <2>2
    <3> HIDE DEF p, data
    <3>3. Push(reader, p, pos + 1) = [reader |-> Idle(reader), sections |-> <<>>]
      BY <1>3, <3>1 DEF Push
    <3>4. QED BY <1>4, <1>5, <3>1, <3>2, <3>3
  <2>3. CASE n > 0 /\ Arrives([Packet(n) EXCEPT !.pointer = PayloadSize], 1)
    <3> DEFINE p == [Packet(n) EXCEPT !.pointer = PayloadSize]
               q == Counted(reader, p)
    <3>1. ~p.error /\ ~p.scrambled /\ p.data = data /\ p.cc = cc' /\ p.unitStart /\ p.pointer = PayloadSize
      BY <2>3 DEF Packet
    <3>2. Arrives(p, 1)
      BY <2>3
    <3> HIDE DEF p
    <3>3. ~(reader.collecting /\ p.cc = reader.lastCC)
      BY <1>1, <3>1, CounterGoesOn DEF CollectInv
    <3>4. PayloadSize > Len(data)
      BY <1>3, <2>3, ReaderAssumption
    <3> HIDE DEF data
    <3>5. Push(reader, p, pos + 1) = [reader |-> Idle(q), sections |-> <<>>]
      BY <1>3, <3>1, <3>3, <3>4 DEF Push
    <3>6. q \in ReaderType
      <4>1. p.cc \in 0 .. CounterModulus - 1
        BY <1>1, <3>1, NextIs DEF NextCC, CountsInv
      <4>2. QED BY <1>1, <4>1, CountedIs
    <3> HIDE DEF q
    <3>7. Idle(q) \in ReaderType /\ ~Idle(q).collecting
      BY <3>6, IdleIs
    <3>8. QED BY <1>5, <3>1, <3>2, <3>5, <3>7
  <2>4. QED BY <2>1, <2>2, <2>3 DEF SendUnusable
<1> DEFINE x == Push(reader, p, pos + 1)
<1>6. x.reader = r /\ x.sections = <<>>
  BY <1>5
<1>7. p.data = Carried(n).data /\ Arrives(p, 1)
  BY <1>5
<1> HIDE DEF x, data
<1>8. x.reader \in ReaderType /\ ~x.reader.collecting
  BY <1>5, <1>6
<1>9. QED BY <1>1, <1>6, <1>7, <1>8, Spoiled DEF x

\* A packet that is lost.
LEMMA LostPreserves ==
  ASSUME ReaderInv, NEW n \in Nat, SendLost(n)
  PROVE  ReaderInv'
<1>1. /\ missed + 2 < CounterModulus /\ Sends(n) /\ cc' = NextCC /\ missed' = missed + 1
      /\ hit' = hit \cup IdsOf(Carried(n).data)
      /\ pos' = pos /\ reader' = reader /\ out' = out /\ begun' = begun
      /\ SenderInv /\ CountsInv /\ OutIs(out, sending, begun, pos) /\ CollectInv /\ NotMissed
  BY DEF SendLost, ReaderInv
<1>2. /\ SenderInv' /\ Fits(n) /\ sending' = sending + n /\ sizes' = sizes
      /\ sending \in Nat /\ sending + n \in 0 .. MaxSections /\ pos \in Nat /\ missed \in Nat
  BY <1>1, SendsIs DEF CountsInv
<1>3. CountsInv'
  <2>1. cc' \in 0 .. CounterModulus - 1
    BY <1>1, NextIs DEF NextCC, CountsInv
  <2>2. missed' \in Nat /\ missed' + 1 < CounterModulus
    BY <1>1, <1>2, ReaderAssumption
  <2>3. QED BY <1>1, <2>1, <2>2 DEF CountsInv
<1>4. OutIs(out', sending', begun', pos')
  <2>1. sending <= sending + n /\ pos <= pos /\ \A id \in 1 .. sending : begun[id] = begun[id]
    BY <1>2
  <2>2. OutIs(out, sending + n, begun, pos)
    BY <1>1, <1>2, <2>1, StillOut
  <2>3. QED BY <1>1, <1>2, <2>2
<1>5. CollectInv'
  <2>1. missed' # 0
    BY <1>1, <1>2
  <2>2. reader.collecting => CounterIs(cc', missed', reader')
    BY <1>1, CounterGoesOn DEF CollectInv, CounterIs
  <2>3. QED BY <1>1, <2>1, <2>2 DEF CollectInv, CounterIs
<1>6. sending + 1 .. sending + n \subseteq hit' /\ (rest # <<>> => sending \in hit')
  BY <1>1, <1>2, IdsCarried
<1>7. NotMissed'
  <2>1. rest' # <<>> => sending' \in hit'
    <3>1. CASE n = 0
      BY <1>2, <1>6, <3>1 DEF Fits
    <3>2. CASE n # 0
      <4>1. sending + n \in sending + 1 .. sending + n
        BY <1>2, <3>2
      <4>2. QED BY <1>2, <1>6, <4>1
    <3>3. QED BY <3>1, <3>2
  <2>2. ASSUME NEW id \in 1 .. sending', id \notin hit'
        PROVE  HasHanded(out', id)
    <3>1. id \in 1 .. sending
      BY <1>2, <1>6, <2>2
    <3>2. id \notin hit /\ ~(rest # <<>> /\ id = sending)
      BY <1>1, <1>6, <2>2
    <3>3. QED BY <1>1, <3>1, <3>2 DEF NotMissed
  <2>3. QED BY <1>2, <2>1, <2>2, SameBytes DEF NotMissed
<1>8. QED BY <1>2, <1>3, <1>4, <1>5, <1>7, SameBytes DEF ReaderInv

\* A packet without a payload.
LEMMA EmptyPreserves ==
  ASSUME ReaderInv, NEW error \in BOOLEAN, SendEmpty(error)
  PROVE  ReaderInv'
<1> DEFINE p == [error |-> error, scrambled |-> FALSE, cc |-> cc, unitStart |-> FALSE,
                 discontinuity |-> FALSE, pcr |-> 0, pointer |-> 0, data |-> <<>>]
           x == Push(reader, p, pos + 1)
           started == FirstBytes(p.data)
<1>1. /\ Arrives(p, 1) /\ hit' = (IF error THEN hit \cup IdsOf(rest) ELSE hit)
      /\ sizes' = sizes /\ sending' = sending /\ rest' = rest /\ cc' = cc /\ missed' = missed
      /\ SenderInv /\ CountsInv /\ OutIs(out, sending, begun, pos) /\ CollectInv /\ NotMissed
  BY DEF SendEmpty, ReaderInv
<1>2. /\ pos \in Nat /\ reader \in ReaderType /\ begun \in [Ids -> SUBSET Nat] /\ out \in Seq(Found)
      /\ sending \in Nat
  BY <1>1, ReaderAssumption DEF CountsInv, OutIs, SenderInv
<1>3. pos' = pos + 1 /\ pos' \in Nat /\ pos <= pos'
  BY <1>1, <1>2 DEF Arrives
<1>4. begun' = begun
  <2>1. begun' = [id \in DOMAIN begun |-> IF id \in started THEN pos + 1 .. pos + 1 ELSE begun[id]]
    BY <1>1 DEF Arrives, FirstBytes
  <2>2. started = {}
    BY DEF FirstBytes
  <2> HIDE DEF started
  <2>3. QED BY <1>2, <2>1, <2>2
<1>5. reader' = x.reader /\ out' = (out \o x.sections) \o <<>>
  BY <1>1 DEF Arrives
<1>6. x = IF error THEN [reader |-> Idle(reader), sections |-> <<>>]
          ELSE [reader |-> reader, sections |-> <<>>]
  <2>1. p.error = error /\ p.data = <<>>
    OBVIOUS
  <2> HIDE DEF p
  <2>2. QED BY <2>1 DEF Push
<1> HIDE DEF x
<1>7. out' = out /\ reader' = IF error THEN Idle(reader) ELSE reader
  <2>1. x.sections = <<>> /\ x.reader = IF error THEN Idle(reader) ELSE reader
    BY <1>6
  <2>2. QED BY <1>2, <1>5, <2>1
<1>8. reader' \in ReaderType /\ (error => ~reader'.collecting)
  BY <1>2, <1>7, IdleIs
<1>9. CountsInv'
  BY <1>1, <1>2, <1>3, <1>4, <1>8 DEF CountsInv
<1>10. OutIs(out', sending', begun', pos')
  <2>1. sending <= sending /\ \A id \in 1 .. sending : begun[id] = begun[id]
    BY <1>2
  <2>2. OutIs(out, sending, begun, pos')
    BY <1>1, <1>2, <1>3, <2>1, StillOut
  <2>3. QED BY <1>1, <1>4, <1>7, <2>2
<1>11. SenderInv'
  BY <1>1 DEF SenderInv
<1>12. CollectInv'
  <2>1. CASE error
    BY <1>8, <2>1 DEF CollectInv
  <2>2. CASE ~error
    <3>1. reader' = reader /\ out' = out /\ begun' = begun
      BY <1>4, <1>7, <2>2
    <3>2. reader.start \in Nat /\ (reader.start <= pos => reader.start <= pos')
      BY <1>2, <1>3 DEF ReaderType
    <3>3. \A id, offset : Handed(id, offset)' = Handed(id, offset)
      BY <1>1 DEF Handed, Bytes
    <3>4. InSync(reader) => InSync(reader)'
      BY <1>1, <3>1 DEF InSync, StartOf
    <3>5. Handed(sending, reader.start)' = Handed(sending, reader.start)
      BY <1>1, <3>1 DEF Handed, Bytes
    <3>6. QED BY <1>1, <3>1, <3>2, <3>4, <3>5 DEF CollectInv, CounterIs, Before
  <2>3. QED BY <2>1, <2>2
<1>13. NotMissed'
  <2>1. rest # <<>> /\ sending \notin hit' => ~error
    BY <1>1, IdsOfRest
  <2>2. hit \subseteq hit'
    BY <1>1
  <2>3. rest' # <<>> /\ sending' \notin hit' => reader'.collecting /\ missed' = 0
    BY <1>1, <1>7, <2>1, <2>2 DEF NotMissed
  <2>4. \A id \in 1 .. sending' : id \notin hit' /\ ~(rest' # <<>> /\ id = sending') => HasHanded(out', id)
    BY <1>1, <1>7, <2>2 DEF NotMissed
  <2>5. QED BY <1>1, <2>3, <2>4, SameBytes DEF NotMissed
<1>14. QED BY <1>1, <1>9, <1>10, <1>11, <1>12, <1>13, SameBytes DEF ReaderInv

\* The invariant holds from the start.
LEMMA ReaderInitInv ==
  ASSUME ReaderInit
  PROVE  ReaderInv
<1>1. /\ sizes \in [Ids -> Sizes] /\ sending = 0 /\ rest = <<>> /\ cc = 0 /\ missed = 0 /\ pos = 0
      /\ reader = [collecting |-> FALSE, buf |-> <<>>, start |-> 0, lastCC |-> 0]
      /\ out = <<>> /\ begun = [id \in Ids |-> {}] /\ hit = {}
  BY DEF ReaderInit, Ids
<1>2. SenderInv
  <2>1. rest \in Seq(Byte)
    BY <1>1
  <2>2. QED BY <1>1, <2>1, ReaderAssumption DEF SenderInv
<1>3. CountsInv
  <2>1. reader \in ReaderType
    <3>1. <<>> \in Seq(Byte) /\ 0 \in Nat /\ 0 \in 0 .. CounterModulus - 1
      BY ReaderAssumption
    <3>2. QED BY <1>1, <3>1 DEF ReaderType
  <2>2. QED BY <1>1, <2>1, ReaderAssumption DEF CountsInv
<1>4. OutIs(out, sending, begun, pos)
  BY <1>1, NoneOut
<1>5. CollectInv
  BY <1>1 DEF CollectInv
<1>6. NotMissed
  BY <1>1 DEF NotMissed
<1>7. QED BY <1>2, <1>3, <1>4, <1>5, <1>6 DEF ReaderInv

\* Every step keeps it.
LEMMA ReaderNextInv ==
  ASSUME ReaderInv, [ReaderNext]_readerVars
  PROVE  ReaderInv'
<1>1. CASE ReaderNext
  <2>1. CASE \E n \in 0 .. PayloadSize : SendWhole(n) \/ SendAnnounced(n) \/ SendUnusable(n) \/ SendLost(n)
    <3>1. PICK n \in 0 .. PayloadSize : SendWhole(n) \/ SendAnnounced(n) \/ SendUnusable(n) \/ SendLost(n)
      BY <2>1
    <3>2. n \in Nat
      BY ReaderAssumption
    <3>3. QED BY <3>1, <3>2, WholePreserves, AnnouncedPreserves, UnusablePreserves, LostPreserves
  <2>2. CASE \E error \in BOOLEAN : SendEmpty(error)
    BY <2>2, EmptyPreserves
  <2>3. QED BY <1>1, <2>1, <2>2 DEF ReaderNext
<1>2. CASE UNCHANGED readerVars
  <2>1. /\ sizes' = sizes /\ sending' = sending /\ rest' = rest /\ cc' = cc /\ missed' = missed /\ pos' = pos
        /\ reader' = reader /\ out' = out /\ begun' = begun /\ hit' = hit
    BY <1>2 DEF readerVars
  <2>2. SenderInv' /\ CountsInv'
    BY <2>1 DEF ReaderInv, SenderInv, CountsInv
  <2>3. OutIs(out, sending, begun, pos)' /\ NotMissed'
    BY <2>1, SameBytes DEF ReaderInv, NotMissed
  <2>4. CollectInv'
    <3>1. Handed(sending, reader.start)' = Handed(sending, reader.start)
      BY <2>1 DEF Handed, Bytes
    <3>2. InSync(reader) => InSync(reader)'
      BY <2>1 DEF InSync, StartOf
    <3>3. QED BY <2>1, <3>1, <3>2 DEF ReaderInv, CollectInv, CounterIs, Before
  <2>5. QED BY <2>2, <2>3, <2>4 DEF ReaderInv
<1>3. QED BY <1>1, <1>2

\* It implies the property.
LEMMA ReaderInvImplies ==
  ASSUME ReaderInv
  PROVE  SectionsExactly
<1>1. /\ SenderInv /\ sizes \in [Ids -> Sizes] /\ OutIs(out, sending, begun, pos) /\ NotMissed
      /\ sending \in 0 .. MaxSections /\ out \in Seq(Found) /\ Len(out) \in Nat
  BY DEF ReaderInv, SenderInv, OutIs
<1>2. DOMAIN out = 1 .. Len(out)
  BY <1>1
<1>3. SectionsAsSent
  <2>1. ASSUME NEW i \in 1 .. Len(out)
        PROVE  LET id == out[i].data[1][1] IN out[i].data = Bytes(id) /\ out[i].at \in begun[id]
    <3>1. PICK id \in 1 .. sending : out[i].data = Bytes(id) /\ out[i].at \in begun[id]
      BY <1>1 DEF OutIs
    <3>2. id \in Ids
      BY <1>1, ReaderAssumption DEF Ids
    <3>3. Bytes(id)[1][1] = id
      BY <1>1, <3>2, HandedIs
    <3>4. QED BY <3>1, <3>3
  <2>2. QED BY <1>1, <1>2, <2>1 DEF SectionsAsSent, OutIs, Before
<1>4. NoSectionMissed
  <2>1. \A id \in 1 .. sending : id \notin IdsOf(rest) => ~(rest # <<>> /\ id = sending)
    BY <1>1, IdsOfRest
  <2>2. QED BY <1>1, <1>2, <2>1 DEF NoSectionMissed, NotMissed, HasHanded
<1>5. QED BY <1>3, <1>4 DEF SectionsExactly

\* The reader hands on the sections that arrived and nothing else.
THEOREM ReadsSectionsExactly == ReaderSpec => []SectionsExactly
<1>1. ReaderInit => ReaderInv
  BY ReaderInitInv
<1>2. ReaderInv /\ [ReaderNext]_readerVars => ReaderInv'
  BY ReaderNextInv
<1>3. ReaderInv => SectionsExactly
  BY ReaderInvImplies
<1>4. QED BY <1>1, <1>2, <1>3, PTL DEF ReaderSpec

-------------------------------------------------------------------------------
(* PacketChecks: the checks of the packets of a step.                        *)

\* The fold over the packets of a step: a value for every subset of their indices, from
\* the one without the last.
FoldsChecks(h, base, a) ==
  h = [s \in SUBSET DOMAIN a |-> IF s = {} THEN base ELSE Checked(h[s \ {Max(s)}], a[Max(s)])]

CheckedAll(base, a) == (CHOOSE h : FoldsChecks(h, base, a))[DOMAIN a]

Unchecked == [previous |-> previous, event |-> FALSE, excluded |-> FALSE]

\* What the checks of a step are.
LEMMA ChecksAre ==
  ASSUME ChecksNext
  PROVE  LET c == CheckedAll(Unchecked, arrived') IN
         previous' = c.previous /\ event' = c.event /\ excluded' = c.excluded
BY DEF ChecksNext, FoldLeft, MapThenFoldSet, CheckedAll, FoldsChecks, Unchecked

\* The greatest of one index and of two.
LEMMA Greatest == Max({1}) = 1 /\ Max({2}) = 2 /\ Max({1, 2}) = 2
<1>1. \A x \in {1} : (\A y \in {1} : x >= y) => x = 1
  OBVIOUS
<1>2. QED BY DEF Max

\* Up to two packets are folded one by one.
LEMMA CheckedOne ==
  ASSUME NEW base, NEW a, DOMAIN a = {1}
  PROVE  CheckedAll(base, a) = Checked(base, a[1])
<1> DEFINE h == [s \in SUBSET {1} |-> IF s = {} THEN base ELSE Checked(base, a[1])]
           g == CHOOSE f : FoldsChecks(f, base, a)
<1>1. SUBSET {1} = {{}, {1}} /\ {1} \ {1} = {}
  OBVIOUS
<1>2. h[{}] = base
  BY <1>1
<1>3. FoldsChecks(h, base, a)
  <2>1. ASSUME NEW s \in SUBSET {1}
        PROVE  h[s] = IF s = {} THEN base ELSE Checked(h[s \ {Max(s)}], a[Max(s)])
    <3>1. CASE s = {}
      BY <3>1
    <3>2. CASE s = {1}
      <4>1. Max(s) = 1 /\ s \ {Max(s)} = {} /\ s # {}
        BY <3>2, Greatest
      <4>2. h[s] = Checked(base, a[1])
        BY <4>1
      <4> HIDE DEF h
      <4>3. QED BY <1>2, <4>1, <4>2
    <3>3. QED BY <1>1, <3>1, <3>2
  <2> DEFINE k == [s \in SUBSET {1} |-> IF s = {} THEN base ELSE Checked(h[s \ {Max(s)}], a[Max(s)])]
  <2>2. h \in [SUBSET {1} -> {h[s] : s \in SUBSET {1}}] /\ DOMAIN k = SUBSET {1}
    OBVIOUS
  <2>3. \A s \in SUBSET {1} : h[s] = k[s]
    BY <2>1
  <2>4. h = k
    BY <2>3
  <2> HIDE DEF h
  <2>5. QED BY <2>4 DEF FoldsChecks
<1> HIDE DEF h
<1>4. FoldsChecks(g, base, a)
  BY <1>3
<1> HIDE DEF g
<1>5. \A s \in SUBSET {1} : g[s] = IF s = {} THEN base ELSE Checked(g[s \ {Max(s)}], a[Max(s)])
  BY <1>4 DEF FoldsChecks
<1>6. g[{}] = base
  BY <1>5
<1>7. g[{1}] = Checked(g[{1} \ {1}], a[1])
  BY <1>5, Greatest
<1>8. g[{1}] = Checked(base, a[1])
  BY <1>1, <1>6, <1>7
<1>9. QED BY <1>8 DEF CheckedAll, g

\* And a packet and its copy.
LEMMA CheckedTwo ==
  ASSUME NEW base, NEW a, DOMAIN a = {1, 2}
  PROVE  CheckedAll(base, a) = Checked(Checked(base, a[1]), a[2])
<1> DEFINE one == Checked(base, a[1])
           h == [s \in SUBSET {1, 2} |->
                   IF s = {} THEN base
                   ELSE IF s = {1} THEN one
                   ELSE IF s = {2} THEN Checked(base, a[2])
                   ELSE Checked(one, a[2])]
           g == CHOOSE f : FoldsChecks(f, base, a)
<1>1. /\ SUBSET {1, 2} = {{}, {1}, {2}, {1, 2}}
      /\ {1} \ {1} = {} /\ {2} \ {2} = {} /\ {1, 2} \ {2} = {1}
      /\ {1} # {} /\ {2} # {} /\ {1, 2} # {} /\ {1} # {2} /\ {1, 2} # {1} /\ {1, 2} # {2}
  OBVIOUS
<1> HIDE DEF one
<1>2. h[{}] = base /\ h[{1}] = one /\ h[{2}] = Checked(base, a[2]) /\ h[{1, 2}] = Checked(one, a[2])
  BY <1>1
<1>3. FoldsChecks(h, base, a)
  <2> DEFINE k == [s \in SUBSET {1, 2} |-> IF s = {} THEN base ELSE Checked(h[s \ {Max(s)}], a[Max(s)])]
  <2>1. h[{}] = k[{}]
    BY <1>2
  <2>2. h[{1}] = k[{1}]
    <3>1. k[{1}] = Checked(h[{1} \ {Max({1})}], a[Max({1})])
      BY <1>1
    <3> HIDE DEF h, k
    <3>2. k[{1}] = Checked(h[{1} \ {1}], a[1])
      BY <3>1, Greatest
    <3>3. k[{1}] = Checked(h[{}], a[1])
      BY <1>1, <3>2
    <3>4. QED BY <1>2, <3>3 DEF one
  <2>3. h[{2}] = k[{2}]
    <3>1. k[{2}] = Checked(h[{2} \ {Max({2})}], a[Max({2})])
      BY <1>1
    <3> HIDE DEF h, k
    <3>2. k[{2}] = Checked(h[{2} \ {2}], a[2])
      BY <3>1, Greatest
    <3>3. k[{2}] = Checked(h[{}], a[2])
      BY <1>1, <3>2
    <3>4. QED BY <1>2, <3>3
  <2>4. h[{1, 2}] = k[{1, 2}]
    <3>1. k[{1, 2}] = Checked(h[{1, 2} \ {Max({1, 2})}], a[Max({1, 2})])
      BY <1>1
    <3> HIDE DEF h, k
    <3>2. k[{1, 2}] = Checked(h[{1, 2} \ {2}], a[2])
      BY <3>1, Greatest
    <3>3. k[{1, 2}] = Checked(h[{1}], a[2])
      BY <1>1, <3>2
    <3>4. QED BY <1>2, <3>3
  <2>5. \A s \in SUBSET {1, 2} : h[s] = k[s]
    <3> HIDE DEF h, k
    <3>1. QED BY <1>1, <2>1, <2>2, <2>3, <2>4
  <2>6. h = k
    BY <2>5
  <2> HIDE DEF h
  <2>7. QED BY <2>6 DEF FoldsChecks
<1> HIDE DEF h
<1>4. FoldsChecks(g, base, a)
  BY <1>3
<1> HIDE DEF g
<1>5. \A s \in SUBSET {1, 2} : g[s] = IF s = {} THEN base ELSE Checked(g[s \ {Max(s)}], a[Max(s)])
  BY <1>4 DEF FoldsChecks
<1>6. g[{}] = base
  BY <1>5
<1>7. g[{1}] = Checked(g[{1} \ {1}], a[1])
  BY <1>1, <1>5, Greatest, ZenonT(60)
<1>8. g[{1}] = one
  BY <1>1, <1>6, <1>7 DEF one
<1>9. g[{1, 2}] = Checked(g[{1, 2} \ {2}], a[2])
  <2>1. {1, 2} \in SUBSET {1, 2} /\ {1, 2} # {}
    OBVIOUS
  <2>2. g[{1, 2}] = Checked(g[{1, 2} \ {Max({1, 2})}], a[Max({1, 2})])
    BY <1>5, <2>1
  <2>3. QED BY <2>2, Greatest
<1>10. g[{1, 2}] = Checked(one, a[2])
  BY <1>1, <1>8, <1>9
<1>11. QED BY <1>10 DEF CheckedAll, g, one

\* Without packets nothing changes.
LEMMA CheckedNone ==
  ASSUME NEW base, NEW a, DOMAIN a = {}
  PROVE  CheckedAll(base, a) = base
<1> DEFINE h == [s \in SUBSET {} |-> base]
           g == CHOOSE f : FoldsChecks(f, base, a)
<1>1. \A s \in SUBSET {} : s = {}
  OBVIOUS
<1>2. FoldsChecks(h, base, a)
  <2> DEFINE k == [s \in SUBSET {} |-> IF s = {} THEN base ELSE Checked(h[s \ {Max(s)}], a[Max(s)])]
  <2>1. \A s \in SUBSET {} : h[s] = k[s]
    BY <1>1
  <2>2. h = k
    BY <2>1
  <2> HIDE DEF h
  <2>3. QED BY <2>2 DEF FoldsChecks
<1> HIDE DEF h
<1>3. FoldsChecks(g, base, a)
  BY <1>2
<1> HIDE DEF g
<1>4. g[{}] = base
  BY <1>3 DEF FoldsChecks
<1>5. QED BY <1>4 DEF CheckedAll, g

PacketRecord ==
  [error : BOOLEAN, scrambled : BOOLEAN, cc : 0 .. CounterModulus - 1, unitStart : BOOLEAN,
   discontinuity : BOOLEAN, pcr : Nat, pointer : Nat, data : Seq(Byte)]

\* The counter c is k packets after l.
Ahead(c, k, l) == c = l + k \/ c = l + k - CounterModulus

\* How the counter of the last packet sent is known from the last one of the file.
PreviousInv ==
  /\ behind \in BOOLEAN
  /\ pos = 0 => previous = <<>> /\ ~behind /\ open = {}
  /\ pos # 0 => \E l \in PacketRecord : \E k \in 0 .. missed :
                  previous = <<l>> /\ Ahead(cc, k, l.cc) /\ (k = 0 <=> ~behind)

\* A step with a packet of the file.
Arrival(p, copies) ==
  /\ Arrives(p, copies) /\ p \in PacketRecord /\ copies \in {1, 2} /\ p.cc = cc'
  /\ \/ p.discontinuity
     \/ p.data # <<>> /\ cc' = NextCC
     \/ p.data = <<>> /\ cc' = cc
  /\ copies = 2 => ~p.error /\ p.data # <<>>

\* What the checks look at in a packet.
SameFields(p, q) ==
  /\ q.error = p.error /\ q.scrambled = p.scrambled /\ q.cc = p.cc /\ q.data = p.data
  /\ q.discontinuity = p.discontinuity /\ q.pointer = p.pointer

\* A copy with another PCR, and the packet the tracker remembers of it.
LEMMA CopyFields ==
  ASSUME NEW p \in PacketRecord, NEW k \in Nat
  PROVE  LET q == [p EXCEPT !.pcr = k] IN
         /\ q \in PacketRecord /\ SameFields(p, q)
         /\ Normalized(q) \in PacketRecord /\ Normalized(q).cc = p.cc
         /\ ~p.error => Normalized(q) = [p EXCEPT !.pcr = 0]
<1> DEFINE q == [p EXCEPT !.pcr = k]
<1>1. q \in PacketRecord /\ SameFields(p, q)
  BY DEF PacketRecord, SameFields
<1>2. ~p.error => [q EXCEPT !.pcr = 0] = [p EXCEPT !.pcr = 0]
  BY DEF PacketRecord
<1> HIDE DEF q
<1>3. Normalized(q) \in PacketRecord /\ Normalized(q).cc = p.cc
  <2>1. CASE q.error
    BY <1>1, <2>1 DEF Normalized, SameFields
  <2>2. CASE ~q.error
    <3> DEFINE r == [q EXCEPT !.pcr = 0]
    <3>1. r \in PacketRecord /\ r.cc = q.cc
      BY <1>1 DEF PacketRecord
    <3>2. Normalized(q) = r
      BY <2>2 DEF Normalized
    <3> HIDE DEF r
    <3>3. QED BY <1>1, <3>1, <3>2 DEF SameFields
  <2>3. QED BY <2>1, <2>2
<1>4. ~p.error => Normalized(q) = [p EXCEPT !.pcr = 0]
  BY <1>1, <1>2 DEF Normalized, SameFields
<1>5. QED BY <1>1, <1>3, <1>4 DEF q

\* The counter breaks when packets were lost before a packet that does not announce it.
LEMMA BreaksAfterLoss ==
  ASSUME NEW l \in PacketRecord, NEW p \in PacketRecord, cc \in 0 .. CounterModulus - 1,
         NEW k \in Nat, k + 1 < CounterModulus, Ahead(cc, k, l.cc),
         \/ p.discontinuity
         \/ p.data # <<>> /\ p.cc = NextCC
         \/ p.data = <<>> /\ p.cc = cc
  PROVE  BreaksContinuity(l, p) <=> ~p.discontinuity /\ k # 0
<1> DEFINE a == l.cc
<1>1. a \in 0 .. CounterModulus - 1 /\ CounterModulus \in Nat
  BY ReaderAssumption DEF PacketRecord
<1>2. NextCC = IF cc + 1 < CounterModulus THEN cc + 1 ELSE 0
  BY NextIs DEF NextCC
<1> HIDE DEF a
<1>3. (a + 1) % CounterModulus = IF a + 1 < CounterModulus THEN a + 1 ELSE 0
  BY <1>1, NextIs
<1>4. CASE p.discontinuity
  BY <1>4 DEF BreaksContinuity
<1>5. CASE ~p.discontinuity /\ p.data = <<>> /\ p.cc = cc
  <2>1. Expected(l, p) = a
    BY <1>5 DEF Expected, HasPayload, a
  <2>2. cc # a <=> k # 0
    <3>1. cc = a + k \/ cc = a + k - CounterModulus
      BY DEF Ahead, a
    <3>2. QED BY <1>1, <3>1
  <2>3. QED BY <1>5, <2>1, <2>2 DEF BreaksContinuity, HasPayload
<1>6. CASE ~p.discontinuity /\ p.data # <<>> /\ p.cc = NextCC
  <2> DEFINE e == (a + 1) % CounterModulus
  <2>1. Expected(l, p) = e
    BY <1>6 DEF Expected, HasPayload, a
  <2>2. e = IF a + 1 < CounterModulus THEN a + 1 ELSE 0
    BY <1>3
  <2> HIDE DEF e
  <2>3. (NextCC # e <=> k # 0) /\ NextCC # a
    <3>1. cc = a + k \/ cc = a + k - CounterModulus
      BY DEF Ahead, a
    <3>2. QED BY <1>1, <1>2, <2>2, <3>1
  <2>4. Normalized(p).cc = p.cc
    <3>1. p.pcr \in Nat /\ [p EXCEPT !.pcr = p.pcr] = p
      BY DEF PacketRecord
    <3>2. QED BY <3>1, CopyFields
  <2>5. Normalized(p) # l
    BY <1>6, <2>3, <2>4 DEF a
  <2>6. QED BY <1>6, <2>1, <2>3, <2>5 DEF BreaksContinuity
<1>7. QED BY <1>4, <1>5, <1>6

\* What one check does.
LEMMA CheckedIs ==
  ASSUME NEW c, NEW p
  PROVE  /\ Checked(c, p).previous = <<Normalized(p)>>
         /\ Checked(c, p).event <=> c.event \/ (c.previous # <<>> /\ BreaksContinuity(c.previous[1], p))
         /\ Checked(c, p).excluded <=> c.excluded \/ ((p.error \/ p.scrambled) /\ Excluded(p))
BY DEF Checked

\* What the checks say of a packet, sent once or twice.
LEMMA ArrivalChecked ==
  ASSUME ReaderInv, PreviousInv, ChecksNext, NEW p, NEW copies, Arrival(p, copies)
  PROVE  /\ arrived' # <<>> /\ DOMAIN arrived' = 1 .. copies /\ 1 \in 1 .. copies
         /\ \A k \in 1 .. copies : SameFields(p, arrived'[k])
         /\ \E l \in PacketRecord : previous' = <<l>> /\ l.cc = cc'
         /\ event' <=> behind /\ ~p.discontinuity
         /\ excluded' <=> (p.error \/ p.scrambled) /\ Excluded(p)
<1> DEFINE q == [p EXCEPT !.pcr = pos + 1]
           s == [p EXCEPT !.pcr = pos + 2]
           one == Checked(Unchecked, q)
           a == arrived'
<1>1. /\ p \in PacketRecord /\ copies \in {1, 2} /\ p.cc = cc' /\ pos \in Nat
      /\ cc \in 0 .. CounterModulus - 1 /\ missed \in Nat /\ missed + 1 < CounterModulus
      /\ \/ p.discontinuity
         \/ p.data # <<>> /\ cc' = NextCC
         \/ p.data = <<>> /\ cc' = cc
      /\ copies = 2 => ~p.error /\ p.data # <<>>
  BY DEF Arrival, ReaderInv, CountsInv
<1>2. a = [k \in 1 .. copies |-> [p EXCEPT !.pcr = pos + k]]
  BY DEF Arrival, Arrives
<1>3. /\ pos + 1 \in Nat /\ pos + 2 \in Nat /\ 1 \in 1 .. copies /\ (copies = 2 => 2 \in 1 .. copies)
      /\ (copies = 1 => 1 .. copies = {1}) /\ (copies = 2 => 1 .. copies = {1, 2})
  BY <1>1
<1>4. /\ a[1] = q /\ (copies = 2 => a[2] = s) /\ DOMAIN a = 1 .. copies
  BY <1>2, <1>3
<1>5. a # <<>>
  <2>1. 1 \in DOMAIN a /\ DOMAIN <<>> = {}
    BY <1>3, <1>4
  <2>2. QED BY <2>1
<1>6. \A k \in 1 .. copies : SameFields(p, a[k])
  <2>1. \A k \in 1 .. copies : pos + k \in Nat /\ a[k] = [p EXCEPT !.pcr = pos + k]
    BY <1>1, <1>2
  <2>2. QED BY <1>1, <2>1, CopyFields, ZenonT(60)
<1>7. /\ q \in PacketRecord /\ SameFields(p, q) /\ Normalized(q) \in PacketRecord /\ Normalized(q).cc = p.cc
      /\ ~p.error => Normalized(q) = [p EXCEPT !.pcr = 0]
  BY <1>1, <1>3, CopyFields
<1>8. /\ s \in PacketRecord /\ SameFields(p, s) /\ Normalized(s) \in PacketRecord /\ Normalized(s).cc = p.cc
      /\ ~p.error => Normalized(s) = [p EXCEPT !.pcr = 0]
  BY <1>1, <1>3, CopyFields
<1> DEFINE u == Unchecked
<1>9. u.previous = previous /\ u.event = FALSE /\ u.excluded = FALSE
  BY DEF Unchecked
<1>10. previous # <<>> /\ BreaksContinuity(previous[1], q) <=> behind /\ ~p.discontinuity
  <2>1. CASE pos = 0
    BY <2>1 DEF PreviousInv
  <2>2. CASE pos # 0
    <3>1. PICK l \in PacketRecord : \E k \in 0 .. missed :
            previous = <<l>> /\ Ahead(cc, k, l.cc) /\ (k = 0 <=> ~behind)
      BY <2>2 DEF PreviousInv
    <3>2. PICK k \in 0 .. missed : previous = <<l>> /\ Ahead(cc, k, l.cc) /\ (k = 0 <=> ~behind)
      BY <3>1
    <3>3. k \in Nat /\ k + 1 < CounterModulus
      BY <1>1, ReaderAssumption
    <3>4. /\ \/ q.discontinuity
             \/ q.data # <<>> /\ q.cc = NextCC
             \/ q.data = <<>> /\ q.cc = cc
          /\ q.discontinuity = p.discontinuity
      BY <1>1, <1>7 DEF SameFields
    <3> HIDE DEF q
    <3>5. BreaksContinuity(l, q) <=> ~q.discontinuity /\ k # 0
      BY <1>1, <1>7, <3>2, <3>3, <3>4, BreaksAfterLoss
    <3>6. previous # <<>> /\ previous[1] = l
      BY <3>2
    <3>7. QED BY <3>2, <3>4, <3>5, <3>6
  <2>3. QED BY <2>1, <2>2
<1> HIDE DEF q, s, a, u
<1>11. /\ one.previous = <<Normalized(q)>>
       /\ one.event <=> behind /\ ~p.discontinuity
       /\ one.excluded <=> (p.error \/ p.scrambled) /\ Excluded(p)
  <2>1. /\ one.previous = <<Normalized(q)>>
        /\ one.event <=> u.event \/ (u.previous # <<>> /\ BreaksContinuity(u.previous[1], q))
        /\ one.excluded <=> u.excluded \/ ((q.error \/ q.scrambled) /\ Excluded(q))
    BY CheckedIs DEF u
  <2>2. Excluded(q) = Excluded(p) /\ q.error = p.error /\ q.scrambled = p.scrambled
    BY <1>7 DEF Excluded, SameFields, HasPayload
  <2>3. QED BY <1>9, <1>10, <2>1, <2>2
<1> HIDE DEF one
<1>12. LET c == CheckedAll(u, a) IN previous' = c.previous /\ event' = c.event /\ excluded' = c.excluded
  BY ChecksAre DEF a, u
<1>13. CASE copies = 1
  <2>1. CheckedAll(u, a) = one
    BY <1>3, <1>4, <1>13, CheckedOne DEF one, u
  <2>2. previous' = <<Normalized(q)>> /\ (event' <=> behind /\ ~p.discontinuity)
        /\ (excluded' <=> (p.error \/ p.scrambled) /\ Excluded(p))
    BY <1>11, <1>12, <2>1
  <2>3. \E l \in PacketRecord : previous' = <<l>> /\ l.cc = cc'
    BY <1>1, <1>7, <2>2
  <2>4. QED BY <1>3, <1>4, <1>5, <1>6, <2>2, <2>3 DEF a
<1>14. CASE copies = 2
  <2> DEFINE two == Checked(one, s)
  <2>1. CheckedAll(u, a) = two
    BY <1>3, <1>4, <1>14, CheckedTwo DEF one, u
  <2>2. /\ two.previous = <<Normalized(s)>>
        /\ two.event <=> one.event \/ (one.previous # <<>> /\ BreaksContinuity(one.previous[1], s))
        /\ two.excluded <=> one.excluded \/ ((s.error \/ s.scrambled) /\ Excluded(s))
    BY CheckedIs
  <2>3. ~BreaksContinuity(Normalized(q), s)
    <3>1. Normalized(s) = Normalized(q) /\ HasPayload(s)
      BY <1>1, <1>7, <1>8, <1>14 DEF HasPayload, SameFields
    <3>2. QED BY <3>1 DEF BreaksContinuity
  <2>4. one.previous # <<>> /\ one.previous[1] = Normalized(q)
    BY <1>11
  <2>5. Excluded(s) = Excluded(p) /\ s.error = p.error /\ s.scrambled = p.scrambled
    BY <1>8 DEF Excluded, SameFields, HasPayload
  <2> HIDE DEF two
  <2>6. previous' = <<Normalized(s)>> /\ (event' <=> behind /\ ~p.discontinuity)
        /\ (excluded' <=> (p.error \/ p.scrambled) /\ Excluded(p))
    BY <1>11, <1>12, <2>1, <2>2, <2>3, <2>4, <2>5
  <2>7. \E l \in PacketRecord : previous' = <<l>> /\ l.cc = cc'
    BY <1>1, <1>8, <2>6
  <2>8. QED BY <1>3, <1>4, <1>5, <1>6, <2>6, <2>7 DEF a
<1>15. QED BY <1>1, <1>13, <1>14

\* The packet that carries what is sent.
LEMMA PacketIs ==
  ASSUME SenderInv, NEW n \in Nat, Fits(n), cc' \in 0 .. CounterModulus - 1
  PROVE  /\ Packet(n) \in PacketRecord /\ Intact(Packet(n), n, cc') /\ ~Packet(n).discontinuity
         /\ Packet(n).data # <<>>
         /\ n > 0 => PayloadSize > Len(Packet(n).data)
<1> DEFINE p == Packet(n)
           data == Carried(n).data
           opens == n > 0
           pointer == IF n > 0 THEN Len(rest) ELSE 0
<1>1. data \in Seq(Byte) /\ Len(data) >= 1 /\ (n > 0 => Len(data) = PayloadSize - 1)
  BY GoingOn, Starting
<1>2. Len(rest) \in Nat
  BY DEF SenderInv
<1>3. pointer \in Nat /\ opens \in BOOLEAN /\ FALSE \in BOOLEAN /\ 0 \in Nat
  BY <1>2
<1>4. p = [error |-> FALSE, scrambled |-> FALSE, cc |-> cc', unitStart |-> opens,
           discontinuity |-> FALSE, pcr |-> 0, pointer |-> pointer, data |-> data]
  BY DEF Packet
<1>5. Intact(p, n, cc')
  BY DEF Packet, Intact
<1>6. ~p.discontinuity /\ p.data = data
  BY <1>4
<1>7. data # <<>> /\ (n > 0 => PayloadSize > Len(data))
  BY <1>1, ReaderAssumption
<1> HIDE DEF p, data, opens, pointer
<1>8. p \in PacketRecord
  BY <1>1, <1>3, <1>4 DEF PacketRecord
<1>9. QED BY <1>5, <1>6, <1>7, <1>8 DEF p

\* A packet that arrives as it was sent.
LEMMA WholeArrives ==
  ASSUME ReaderInv, NEW n \in Nat, SendWhole(n)
  PROVE  \E p, copies : /\ Arrival(p, copies) /\ Intact(p, n, cc') /\ ~p.discontinuity /\ p.data # <<>>
                        /\ ~p.error /\ ~p.scrambled
<1>1. PICK copies \in {1, 2} : Arrives(Packet(n), copies)
  BY DEF SendWhole
<1>2. SenderInv /\ Fits(n) /\ cc' = NextCC /\ cc' \in 0 .. CounterModulus - 1
  BY NextIs DEF SendWhole, Sends, ReaderInv, CountsInv, NextCC
<1> DEFINE p == Packet(n)
<1>3. p \in PacketRecord /\ Intact(p, n, cc') /\ ~p.discontinuity /\ p.data # <<>>
  BY <1>2, PacketIs
<1>4. Arrives(p, copies)
  BY <1>1
<1> HIDE DEF p
<1>5. QED BY <1>1, <1>2, <1>3, <1>4 DEF Arrival, Intact

\* One that announces a jump of the counter.
LEMMA AnnouncedArrives ==
  ASSUME ReaderInv, NEW n \in Nat, SendAnnounced(n)
  PROVE  \E p, copies : Arrival(p, copies) /\ p.discontinuity
<1>1. Arrives([Packet(n) EXCEPT !.discontinuity = TRUE], 1)
  BY DEF SendAnnounced
<1>2. SenderInv /\ Fits(n) /\ cc' \in 0 .. CounterModulus - 1
  BY DEF SendAnnounced, Sends, ReaderInv
<1> DEFINE q == Packet(n)
           p == [q EXCEPT !.discontinuity = TRUE]
<1>3. q \in PacketRecord /\ q.cc = cc'
  BY <1>2, PacketIs DEF Intact
<1>4. Arrives(p, 1)
  BY <1>1
<1> HIDE DEF q
<1>5. p \in PacketRecord /\ p.cc = cc' /\ p.discontinuity
  BY <1>3 DEF PacketRecord
<1> HIDE DEF p
<1>6. QED BY <1>4, <1>5 DEF Arrival

\* One of which the reader can make nothing.
LEMMA SpoiledArrives ==
  ASSUME ReaderInv, NEW n \in Nat, SendUnusable(n)
  PROVE  \E p, copies : /\ Arrival(p, copies) /\ p.data # <<>>
                        /\ (p.error \/ p.scrambled \/ p.pointer > Len(p.data))
<1>1. SenderInv /\ Fits(n) /\ cc' = NextCC /\ cc' \in 0 .. CounterModulus - 1
  BY NextIs DEF SendUnusable, Sends, ReaderInv, CountsInv, NextCC
<1> DEFINE q == Packet(n)
<1>2. q \in PacketRecord /\ q.cc = cc' /\ q.data # <<>> /\ (n > 0 => PayloadSize > Len(q.data))
  BY <1>1, PacketIs DEF Intact
<1>3. \/ Arrives([q EXCEPT !.error = TRUE], 1)
      \/ Arrives([q EXCEPT !.scrambled = TRUE], 1)
      \/ n > 0 /\ Arrives([q EXCEPT !.pointer = PayloadSize], 1)
  BY DEF SendUnusable
<1> HIDE DEF q
<1>4. ASSUME NEW p \in PacketRecord, Arrives(p, 1), p.cc = cc', p.data # <<>>
      PROVE  Arrival(p, 1)
  BY <1>1, <1>4 DEF Arrival
<1>5. CASE Arrives([q EXCEPT !.error = TRUE], 1)
  <2> DEFINE p == [q EXCEPT !.error = TRUE]
  <2>1. p \in PacketRecord /\ p.cc = cc' /\ p.data # <<>> /\ p.error
    BY <1>2 DEF PacketRecord
  <2>2. Arrives(p, 1)
    BY <1>5
  <2> HIDE DEF p
  <2>3. QED BY <1>4, <2>1, <2>2
<1>6. CASE Arrives([q EXCEPT !.scrambled = TRUE], 1)
  <2> DEFINE p == [q EXCEPT !.scrambled = TRUE]
  <2>1. p \in PacketRecord /\ p.cc = cc' /\ p.data # <<>> /\ p.scrambled
    BY <1>2 DEF PacketRecord
  <2>2. Arrives(p, 1)
    BY <1>6
  <2> HIDE DEF p
  <2>3. QED BY <1>4, <2>1, <2>2
<1>7. CASE n > 0 /\ Arrives([q EXCEPT !.pointer = PayloadSize], 1)
  <2> DEFINE p == [q EXCEPT !.pointer = PayloadSize]
  <2>1. p \in PacketRecord /\ p.cc = cc' /\ p.data # <<>> /\ p.pointer > Len(p.data)
    BY <1>2, <1>7, ReaderAssumption DEF PacketRecord
  <2>2. Arrives(p, 1)
    BY <1>7
  <2> HIDE DEF p
  <2>3. QED BY <1>4, <2>1, <2>2
<1>8. QED BY <1>3, <1>5, <1>6, <1>7

\* One without a payload.
LEMMA EmptyArrives ==
  ASSUME ReaderInv, NEW error \in BOOLEAN, SendEmpty(error)
  PROVE  /\ \E p, copies : Arrival(p, copies) /\ p.data = <<>> /\ ~p.discontinuity /\ (p.error <=> error)
         /\ sending' = sending /\ rest' = rest /\ sizes' = sizes /\ missed' = missed /\ cc' = cc
         /\ reader' = IF error THEN Idle(reader) ELSE reader
<1> DEFINE p == [error |-> error, scrambled |-> FALSE, cc |-> cc, unitStart |-> FALSE,
                 discontinuity |-> FALSE, pcr |-> 0, pointer |-> 0, data |-> <<>>]
           x == Push(reader, p, pos + 1)
<1>1. /\ Arrives(p, 1)
      /\ sizes' = sizes /\ sending' = sending /\ rest' = rest /\ cc' = cc /\ missed' = missed
      /\ cc \in 0 .. CounterModulus - 1
  BY DEF SendEmpty, ReaderInv, CountsInv
<1>2. <<>> \in Seq(Byte) /\ 0 \in Nat /\ FALSE \in BOOLEAN
  OBVIOUS
<1>3. p \in PacketRecord
  BY <1>1, <1>2 DEF PacketRecord
<1>4. reader' = x.reader
  BY <1>1 DEF Arrives
<1>5. p.cc = cc /\ p.data = <<>> /\ ~p.discontinuity /\ p.error = error
  OBVIOUS
<1> HIDE DEF p
<1>6. x = IF error THEN [reader |-> Idle(reader), sections |-> <<>>]
          ELSE [reader |-> reader, sections |-> <<>>]
  BY <1>5 DEF Push
<1> HIDE DEF x
<1>7. x.reader = IF error THEN Idle(reader) ELSE reader
  BY <1>6
<1>8. Arrival(p, 1)
  BY <1>1, <1>3, <1>5 DEF Arrival
<1>9. QED BY <1>1, <1>4, <1>5, <1>7, <1>8

\* Every step loses a packet or puts one into the file.
LEMMA Kinds ==
  ASSUME ReaderInv, ReaderNext
  PROVE  (\E n \in Nat : SendLost(n)) \/ (\E p, copies : Arrival(p, copies))
<1>1. CASE \E n \in 0 .. PayloadSize : SendWhole(n) \/ SendAnnounced(n) \/ SendUnusable(n) \/ SendLost(n)
  <2>1. PICK n \in 0 .. PayloadSize : SendWhole(n) \/ SendAnnounced(n) \/ SendUnusable(n) \/ SendLost(n)
    BY <1>1
  <2>2. n \in Nat
    BY ReaderAssumption
  <2>3. QED BY <2>1, <2>2, WholeArrives, AnnouncedArrives, SpoiledArrives
<1>2. CASE \E error \in BOOLEAN : SendEmpty(error)
  BY <1>2, EmptyArrives
<1>3. QED BY <1>1, <1>2 DEF ReaderNext

\* What is said of the packets of a step, by the one that was sent.
LEMMA ArrivalSaid ==
  ASSUME ReaderInv, PreviousInv, ChecksNext, NEW p, NEW copies, Arrival(p, copies)
  PROVE  /\ Unannounced <=> ~p.discontinuity
         /\ ReadsPayload <=> ~Untrusted(p) /\ HasPayload(p)
         /\ Told <=> event' \/ excluded' \/ p.discontinuity \/ p.pointer > Len(p.data)
         /\ arrived'[1].cc = cc'
<1>1. /\ DOMAIN arrived' = 1 .. copies /\ 1 \in 1 .. copies
      /\ \A k \in 1 .. copies : SameFields(p, arrived'[k])
      /\ p.cc = cc'
  BY ArrivalChecked DEF Arrival
<1>2. Unannounced <=> ~p.discontinuity
  BY <1>1 DEF Unannounced, SameFields
<1>3. \A k \in 1 .. copies :
        (~Untrusted(arrived'[k]) /\ HasPayload(arrived'[k]) <=> ~Untrusted(p) /\ HasPayload(p))
  BY <1>1 DEF SameFields, Untrusted, HasPayload
<1>4. ReadsPayload <=> ~Untrusted(p) /\ HasPayload(p)
  BY <1>1, <1>3 DEF ReadsPayload
<1>5. (\E k \in DOMAIN arrived' : arrived'[k].pointer > Len(arrived'[k].data)) <=> p.pointer > Len(p.data)
  BY <1>1 DEF SameFields
<1>6. Told <=> event' \/ excluded' \/ p.discontinuity \/ p.pointer > Len(p.data)
  BY <1>2, <1>5 DEF Told
<1>7. QED BY <1>1, <1>2, <1>4, <1>6 DEF SameFields

\* A packet that is lost leaves the checks as they are.
LEMMA LossChecked ==
  ASSUME ChecksNext, arrived' = <<>>
  PROVE  /\ previous' = previous /\ ~event' /\ ~excluded' /\ Unannounced /\ ~ReadsPayload
<1> DEFINE a == arrived'
           u == Unchecked
<1>1. DOMAIN a = {}
  OBVIOUS
<1>2. Unannounced /\ ~ReadsPayload
  BY <1>1 DEF Unannounced, ReadsPayload
<1> HIDE DEF a, u
<1>3. CheckedAll(u, a) = u
  BY <1>1, CheckedNone
<1>4. previous' = u.previous /\ event' = u.event /\ excluded' = u.excluded
  BY <1>3, ChecksAre DEF a, u
<1>5. u.previous = previous /\ u.event = FALSE /\ u.excluded = FALSE
  BY DEF u, Unchecked
<1>6. QED BY <1>2, <1>4, <1>5

\* A section that is open is, unless packets were lost, the one in progress.
OpenInv ==
  /\ open \subseteq 1 .. sending
  /\ ~behind => \A id \in open : id = sending /\ rest # <<>> /\ reader.collecting /\ missed = 0

\* Packets that were lost since a section began are told of, or will be with the next one.
ToldInv == reader.collecting => pos # 0 /\ (missed # 0 => behind \/ broken)

ChecksInv ==
  /\ ReaderInv /\ PreviousInv /\ OpenInv /\ ToldInv
  /\ silent = {}

\* The section that has bytes to send after a step.
LEMMA RestAfter ==
  ASSUME SenderInv'
  PROVE  IdsOf(rest') = IF rest' = <<>> THEN {} ELSE {sending'}
<1> DEFINE r == rest'
           s == sending'
<1>1. r \in Seq(Byte) /\ (r # <<>> => s \in Ids /\ \A j \in 1 .. Len(r) : r[j][1] = s)
  BY DEF SenderInv
<1> HIDE DEF r, s
<1>2. CASE r = <<>>
  <2>1. DOMAIN r = {}
    BY <1>2
  <2>2. QED BY <1>2, <2>1 DEF IdsOf, r
<1>3. CASE r # <<>>
  <2>1. /\ DOMAIN r = 1 .. Len(r) /\ 1 \in 1 .. Len(r) /\ s # 0 /\ \A j \in 1 .. Len(r) : r[j][1] = s
    BY <1>1, <1>3 DEF Ids
  <2>2. {r[i][1] : i \in DOMAIN r} = {s}
    BY <2>1
  <2>3. IdsOf(r) = {s}
    BY <2>1, <2>2 DEF IdsOf
  <2>4. QED BY <1>3, <2>3 DEF r, s
<1>4. QED BY <1>2, <1>3

\* What a packet of the file leaves, whatever it is.
LEMMA AfterArrival ==
  ASSUME ReaderInv, PreviousInv, ChecksNext, NEW p, NEW copies, Arrival(p, copies)
  PROVE  PreviousInv' /\ pos' # 0 /\ ~behind' /\ arrived' # <<>>
<1>1. arrived' # <<>> /\ \E l \in PacketRecord : previous' = <<l>> /\ l.cc = cc'
  BY ArrivalChecked
<1>2. PICK l \in PacketRecord : previous' = <<l>> /\ l.cc = cc'
  BY <1>1
<1>3. ~behind' /\ behind' \in BOOLEAN
  BY <1>1 DEF ChecksNext
<1>4. pos' # 0
  <2>1. pos \in Nat /\ copies \in {1, 2} /\ pos' = pos + copies
    BY DEF ReaderInv, CountsInv, Arrival, Arrives
  <2>2. QED BY <2>1
<1>5. ReaderInv'
  BY ReaderNextInv DEF ChecksNext
<1>6. 0 \in 0 .. missed' /\ Ahead(cc', 0, l.cc)
  <2>1. missed' \in Nat /\ l.cc \in 0 .. CounterModulus - 1
    BY <1>5 DEF ReaderInv, CountsInv, PacketRecord
  <2>2. cc' = l.cc + 0
    BY <1>2, <2>1
  <2>3. 0 \in 0 .. missed'
    BY <2>1
  <2>4. QED BY <2>2, <2>3 DEF Ahead
<1>7. PreviousInv'
  BY <1>2, <1>3, <1>4, <1>6 DEF PreviousInv, Ahead, PacketRecord
<1>8. QED BY <1>1, <1>3, <1>4, <1>7

\* A packet is lost.
LEMMA LossKeeps ==
  ASSUME ChecksInv, ChecksNext, NEW n \in Nat, SendLost(n)
  PROVE  ChecksInv'
<1>1. /\ ReaderInv /\ PreviousInv /\ OpenInv /\ ToldInv /\ silent = {} /\ SenderInv
      /\ missed \in Nat /\ pos \in Nat /\ reader \in ReaderType
  BY DEF ChecksInv, ReaderInv, CountsInv
<1>2. /\ Sends(n) /\ cc' = NextCC /\ missed' = missed + 1 /\ arrived' = <<>>
      /\ pos' = pos /\ reader' = reader
  BY DEF SendLost
<1>3. ReaderInv'
  BY <1>1, LostPreserves
<1>4. sending' = sending + n /\ sending \in Nat
  BY <1>1, <1>2, SendsIs
<1>5. previous' = previous /\ (behind' <=> pos # 0) /\ behind' \in BOOLEAN
  <2>1. previous' = previous
    BY <1>2, LossChecked
  <2>2. behind' = (arrived' = <<>> /\ pos > 0)
    BY DEF ChecksNext
  <2>3. behind' \in BOOLEAN /\ (behind' <=> arrived' = <<>> /\ pos > 0)
    BY <2>2, Zenon
  <2>4. pos > 0 <=> pos # 0
    BY <1>1
  <2>5. QED BY <1>2, <2>1, <2>3, <2>4
<1>6. open' = open \cup (IF pos > 0 THEN sending + 1 .. sending' ELSE {}) /\ silent' = silent
  BY <1>2 DEF ChecksNext, Lived
<1>7. pos > 0 <=> pos # 0
  BY <1>1
<1>8. PreviousInv'
  <2>1. CASE pos = 0
    BY <1>1, <1>2, <1>5, <1>6, <1>7, <2>1 DEF PreviousInv
  <2>2. CASE pos # 0
    <3>1. PICK l \in PacketRecord : \E k \in 0 .. missed :
            previous = <<l>> /\ Ahead(cc, k, l.cc) /\ (k = 0 <=> ~behind)
      BY <1>1, <2>2 DEF PreviousInv
    <3>2. PICK k \in 0 .. missed : previous = <<l>> /\ Ahead(cc, k, l.cc) /\ (k = 0 <=> ~behind)
      BY <3>1
    <3>3. Ahead(cc', k + 1, l.cc)
      <4> DEFINE a == l.cc
      <4>1. a \in 0 .. CounterModulus - 1 /\ (cc = a + k \/ cc = a + k - CounterModulus)
        BY <3>2 DEF PacketRecord, Ahead
      <4>2. /\ cc \in 0 .. CounterModulus - 1 /\ missed + 1 < CounterModulus /\ CounterModulus \in Nat
        BY <1>1, ReaderAssumption DEF ReaderInv, CountsInv
      <4>3. cc' = IF cc + 1 < CounterModulus THEN cc + 1 ELSE 0
        BY <1>2, <4>2, NextIs DEF NextCC
      <4> HIDE DEF a
      <4>4. cc' = a + (k + 1) \/ cc' = a + (k + 1) - CounterModulus
        BY <1>1, <4>1, <4>2, <4>3
      <4>5. QED BY <4>4 DEF Ahead, a
    <3>4. k + 1 \in 0 .. missed' /\ k + 1 # 0
      BY <1>1, <1>2
    <3>5. behind'
      BY <1>5, <2>2
    <3> DEFINE m == k + 1
    <3>6. previous' = <<l>> /\ Ahead(cc', m, l.cc) /\ (m = 0 <=> ~behind') /\ m \in 0 .. missed'
      BY <1>5, <3>2, <3>3, <3>4, <3>5
    <3> HIDE DEF m
    <3>7. QED BY <1>2, <1>5, <2>2, <3>6 DEF PreviousInv, Ahead, PacketRecord
  <2>3. QED BY <2>1, <2>2
<1>9. OpenInv'
  <2>1. open' \subseteq 1 .. sending'
    BY <1>1, <1>4, <1>6 DEF OpenInv
  <2>2. ~behind' => open' = {}
    BY <1>1, <1>5, <1>6, <1>7 DEF PreviousInv
  <2>3. QED BY <2>1, <2>2 DEF OpenInv
<1>10. ToldInv'
  BY <1>1, <1>2, <1>5 DEF ToldInv
<1>11. QED BY <1>1, <1>3, <1>6, <1>8, <1>9, <1>10 DEF ChecksInv

\* A packet of the file of which something is told ends what can be lost silently.
LEMMA ToldKeeps ==
  ASSUME ChecksInv, ChecksNext, NEW p, NEW copies, Arrival(p, copies), Told,
         reader'.collecting => missed' = 0
  PROVE  ChecksInv'
<1>1. /\ ReaderInv /\ PreviousInv /\ OpenInv /\ silent = {}
  BY DEF ChecksInv
<1>2. PreviousInv' /\ pos' # 0 /\ ~behind' /\ arrived' # <<>>
  BY <1>1, AfterArrival
<1>3. ReaderInv'
  BY <1>1, ReaderNextInv DEF ChecksNext
<1>4. open' = {} /\ silent' = {}
  <2>1. open' = {} /\ UNCHANGED silent
    BY <1>2 DEF ChecksNext, Lived
  <2>2. QED BY <1>1, <2>1
<1>5. OpenInv' /\ ToldInv'
  BY <1>2, <1>4 DEF OpenInv, ToldInv
<1>6. QED BY <1>2, <1>3, <1>4, <1>5 DEF ChecksInv

\* A packet that arrives as it was sent.
LEMMA WholeKeeps ==
  ASSUME ChecksInv, ChecksNext, NEW n \in Nat, SendWhole(n)
  PROVE  ChecksInv'
<1>1. /\ ReaderInv /\ PreviousInv /\ OpenInv /\ ToldInv /\ silent = {}
      /\ SenderInv /\ CountsInv /\ CollectInv /\ sizes \in [Ids -> Sizes]
      /\ pos \in Nat /\ missed \in Nat /\ cc \in 0 .. CounterModulus - 1 /\ behind \in BOOLEAN
  BY DEF ChecksInv, ReaderInv, CountsInv, SenderInv, PreviousInv
<1>2. Sends(n) /\ cc' = NextCC /\ missed' = 0
  BY DEF SendWhole
<1>3. PICK p, copies : Arrival(p, copies) /\ Intact(p, n, cc') /\ ~p.discontinuity /\ p.data # <<>>
                       /\ ~p.error /\ ~p.scrambled
  BY <1>1, WholeArrives
<1>4. CASE Told
  BY <1>2, <1>3, <1>4, ToldKeeps
<1>5. CASE ~Told
  <2>1. ~behind
    BY <1>1, <1>3, <1>5, ArrivalChecked DEF Told
  <2>2. PreviousInv' /\ pos' # 0 /\ ~behind' /\ arrived' # <<>>
    BY <1>1, <1>3, AfterArrival
  <2>3. /\ Fits(n) /\ sending' = sending + n /\ rest' = Carried(n).left /\ sizes' = sizes
        /\ sending \in Nat /\ sending + n \in 0 .. MaxSections /\ SenderInv'
    BY <1>1, <1>2, SendsIs
  <2>4. cc' \in 0 .. CounterModulus - 1
    BY <1>1, <1>2, NextIs DEF NextCC
  <2>5. reader.collecting => cc' # reader.lastCC /\ (GoesOn(reader, cc') <=> missed = 0)
    BY <1>1, <1>2, CounterGoesOn DEF CollectInv, GoesOn
  <2>6. GoesOn(reader, cc') => missed = 0
    BY <2>5 DEF GoesOn
  <2>7. Arrives(p, copies) /\ copies \in {1, 2}
    BY <1>3 DEF Arrival
  <2>8. /\ reader'.collecting <=> rest' # <<>> /\ (n > 0 \/ GoesOn(reader, cc'))
        /\ GoesOn(reader, cc') /\ (n > 0 \/ rest' = <<>>) => HasHanded(out', sending)
        /\ \A id \in sending + 1 .. sending' : ~(rest' # <<>> /\ id = sending') => HasHanded(out', id)
        /\ OutIs(out', sending', begun', pos')
    BY <1>1, <1>2, <1>3, <2>4, <2>5, <2>6, <2>7, Delivered
  <2> DEFINE more == IF pos > 0 THEN sending + 1 .. sending' ELSE {}
             living == open \cup more
             over == living \ IdsOf(rest')
             handed == {out'[i].data[1][1] : i \in DOMAIN out'}
  <2>9. open' = living \ over /\ silent' = silent \cup (over \ handed)
    <3>1. ~(arrived' = <<>>)
      BY <2>2
    <3>2. QED BY <1>5, <3>1 DEF ChecksNext, Lived
  <2>10. IdsOf(rest') = IF rest' = <<>> THEN {} ELSE {sending'}
    BY <2>3, RestAfter
  <2>11. \A id \in more : id \in sending + 1 .. sending' /\ n > 0 /\ id \in Ids
    BY <2>3, ReaderAssumption DEF Ids
  <2>12. \A id \in open : id = sending /\ rest # <<>> /\ GoesOn(reader, cc') /\ id \in Ids
    <3>1. \A id \in open : id = sending /\ rest # <<>> /\ reader.collecting /\ missed = 0
      BY <1>1, <2>1 DEF OpenInv
    <3>2. rest # <<>> => sending \in Ids
      BY <1>1 DEF SenderInv
    <3>3. QED BY <2>5, <3>1, <3>2
  <2>13. ASSUME NEW id \in Ids, HasHanded(out', id) PROVE id \in handed
    <3>1. PICK i \in 1 .. Len(out') : out'[i].data = Bytes(id)
      BY <2>13 DEF HasHanded
    <3>2. Bytes(id)[1][1] = id
      <4>1. 0 \in Nat
        OBVIOUS
      <4>2. QED BY <1>1, <4>1, HandedIs
    <3>3. DOMAIN out' = 1 .. Len(out')
      BY <2>8 DEF OutIs
    <3>4. QED BY <3>1, <3>2, <3>3
  <2> HIDE DEF handed, more
  <2>14. over \subseteq handed
    <3>1. ASSUME NEW id \in more, id \notin IdsOf(rest') PROVE id \in handed
      <4>1. ~(rest' # <<>> /\ id = sending')
        BY <2>10, <3>1
      <4>2. id \in sending + 1 .. sending' /\ id \in Ids
        BY <2>11
      <4>3. HasHanded(out', id)
        BY <2>8, <4>1, <4>2
      <4>4. QED BY <2>13, <4>2, <4>3
    <3>2. ASSUME NEW id \in open, id \notin IdsOf(rest') PROVE id \in handed
      <4>1. id = sending /\ GoesOn(reader, cc') /\ id \in Ids
        BY <2>12
      <4>2. n > 0 \/ rest' = <<>>
        <5>1. CASE rest' = <<>>
          BY <5>1
        <5>2. CASE rest' # <<>>
          <6>1. sending # sending'
            BY <2>10, <3>2, <4>1, <5>2
          <6>2. QED BY <2>3, <6>1
        <5>3. QED BY <5>1, <5>2
      <4>3. HasHanded(out', id)
        BY <2>8, <4>1, <4>2
      <4>4. QED BY <2>13, <4>1, <4>3
    <3>3. QED BY <3>1, <3>2
  <2>15. silent' = {}
    BY <1>1, <2>9, <2>14
  <2>16. open' \subseteq IdsOf(rest')
    BY <2>9
  <2>17. ASSUME NEW id \in open'
         PROVE  id = sending' /\ rest' # <<>> /\ reader'.collecting /\ missed' = 0 /\ id \in 1 .. sending'
    <3>1. id = sending' /\ rest' # <<>>
      BY <2>10, <2>16
    <3>2. n > 0 \/ GoesOn(reader, cc')
      <4>1. id \in open \/ id \in more
        BY <2>9
      <4>2. QED BY <2>11, <2>12, <4>1
    <3>3. sending' \in 1 .. sending'
      <4>1. sending' \in Ids /\ sending' \in Nat
        BY <2>3, <3>1 DEF SenderInv
      <4>2. QED BY <4>1, ReaderAssumption DEF Ids
    <3>4. QED BY <1>2, <2>8, <3>1, <3>2, <3>3
  <2>18. OpenInv'
    BY <2>17 DEF OpenInv
  <2>19. ToldInv'
    BY <1>2, <2>2 DEF ToldInv
  <2>20. ReaderInv'
    BY <1>1, WholePreserves
  <2>21. QED BY <2>2, <2>15, <2>18, <2>19, <2>20 DEF ChecksInv
<1>6. QED BY <1>4, <1>5

\* A packet that announces a jump of the counter.
LEMMA AnnouncedKeeps ==
  ASSUME ChecksInv, ChecksNext, NEW n \in Nat, SendAnnounced(n)
  PROVE  ChecksInv'
<1>1. ReaderInv /\ PreviousInv /\ missed' = 0
  BY DEF ChecksInv, SendAnnounced
<1>2. PICK p, copies : Arrival(p, copies) /\ p.discontinuity
  BY <1>1, AnnouncedArrives
<1>3. Told
  BY <1>1, <1>2, ArrivalSaid
<1>4. QED BY <1>1, <1>2, <1>3, ToldKeeps

\* A packet of which the reader can make nothing.
LEMMA UnusableKeeps ==
  ASSUME ChecksInv, ChecksNext, NEW n \in Nat, SendUnusable(n)
  PROVE  ChecksInv'
<1>1. ReaderInv /\ PreviousInv /\ missed' = 0
  BY DEF ChecksInv, SendUnusable
<1>2. PICK p, copies : /\ Arrival(p, copies) /\ p.data # <<>>
                       /\ (p.error \/ p.scrambled \/ p.pointer > Len(p.data))
  BY <1>1, SpoiledArrives
<1>3. Told
  <2>1. Told <=> event' \/ excluded' \/ p.discontinuity \/ p.pointer > Len(p.data)
    BY <1>1, <1>2, ArrivalSaid
  <2>2. excluded' <=> (p.error \/ p.scrambled) /\ Excluded(p)
    BY <1>1, <1>2, ArrivalChecked
  <2>3. Excluded(p)
    BY <1>2 DEF Excluded, HasPayload
  <2>4. QED BY <1>2, <2>1, <2>2, <2>3
<1>4. QED BY <1>1, <1>2, <1>3, ToldKeeps

\* A packet without a payload.
LEMMA EmptyKeeps ==
  ASSUME ChecksInv, ChecksNext, NEW error \in BOOLEAN, SendEmpty(error)
  PROVE  ChecksInv'
<1>1. /\ ReaderInv /\ PreviousInv /\ OpenInv /\ ToldInv /\ silent = {} /\ SenderInv
      /\ reader \in ReaderType /\ behind \in BOOLEAN /\ sending \in Nat
  BY ReaderAssumption DEF ChecksInv, ReaderInv, CountsInv, PreviousInv, SenderInv
<1>2. /\ sending' = sending /\ rest' = rest /\ sizes' = sizes /\ missed' = missed
      /\ reader' = IF error THEN Idle(reader) ELSE reader
  BY <1>1, EmptyArrives
<1>3. PICK p, copies : Arrival(p, copies) /\ p.data = <<>> /\ ~p.discontinuity /\ (p.error <=> error)
  BY <1>1, EmptyArrives
<1>4. /\ event' <=> behind /\ ~p.discontinuity
      /\ excluded' <=> (p.error \/ p.scrambled) /\ Excluded(p)
  BY <1>1, <1>3, ArrivalChecked
<1>5. /\ ReadsPayload <=> ~Untrusted(p) /\ HasPayload(p)
      /\ Told <=> event' \/ excluded' \/ p.discontinuity \/ p.pointer > Len(p.data)
  BY <1>1, <1>3, ArrivalSaid
<1>6. PreviousInv' /\ pos' # 0 /\ ~behind' /\ arrived' # <<>>
  BY <1>1, <1>3, AfterArrival
<1>7. ReaderInv'
  BY <1>1, EmptyPreserves
<1>8. ToldInv'
  <2>1. CASE error
    BY <1>1, <1>2, <2>1, IdleIs DEF ToldInv
  <2>2. CASE ~error
    <3>1. ~ReadsPayload
      BY <1>3, <1>5 DEF HasPayload
    <3>2. broken' <=> broken \/ event' \/ ~Unannounced
      BY <3>1 DEF ChecksNext
    <3>3. QED BY <1>1, <1>2, <1>3, <1>4, <1>6, <2>2, <3>2 DEF ToldInv
  <2>3. QED BY <2>1, <2>2
<1>9. OpenInv' /\ silent' = {}
  <2>1. CASE Told
    <3>1. open' = {} /\ silent' = silent
      BY <1>6, <2>1 DEF ChecksNext, Lived
    <3>2. QED BY <1>1, <3>1 DEF OpenInv
  <2>2. CASE ~Told
    <3>1. ~behind /\ ~error
      BY <1>3, <1>4, <1>5, <2>2 DEF Excluded
    <3> DEFINE more == IF pos > 0 THEN sending + 1 .. sending' ELSE {}
               living == open \cup more
               over == living \ IdsOf(rest')
    <3>2. /\ open' = living \ over
          /\ silent' = silent \cup (over \ {out'[i].data[1][1] : i \in DOMAIN out'})
      <4>1. ~(arrived' = <<>>)
        BY <1>6
      <4>2. QED BY <2>2, <4>1 DEF ChecksNext, Lived
    <3>3. more = {}
      BY <1>1, <1>2
    <3>4. \A id \in open : id = sending /\ rest # <<>> /\ reader.collecting /\ missed = 0
      BY <1>1, <3>1 DEF OpenInv
    <3>5. \A id \in open : id \in IdsOf(rest')
      <4>1. IdsOf(rest') = IdsOf(rest)
        BY <1>2
      <4>2. QED BY <1>1, <3>4, <4>1, IdsOfRest
    <3> HIDE DEF more
    <3>6. over = {} /\ open' = open
      BY <3>2, <3>3, <3>5
    <3>7. silent' = {}
      BY <1>1, <3>2, <3>6
    <3>8. QED BY <1>1, <1>2, <3>1, <3>4, <3>6, <3>7 DEF OpenInv
  <2>3. QED BY <2>1, <2>2
<1>10. QED BY <1>6, <1>7, <1>8, <1>9 DEF ChecksInv

\* The invariant holds from the start.
LEMMA ChecksInitInv ==
  ASSUME ChecksInit
  PROVE  ChecksInv
<1>1. /\ ReaderInit /\ previous = <<>> /\ behind = FALSE /\ open = {} /\ silent = {}
  BY DEF ChecksInit
<1>2. ReaderInv
  BY <1>1, ReaderInitInv
<1>3. pos = 0 /\ ~reader.collecting
  BY <1>1 DEF ReaderInit
<1>4. QED BY <1>1, <1>2, <1>3 DEF ChecksInv, PreviousInv, OpenInv, ToldInv

\* Every step keeps it.
LEMMA ChecksNextInv ==
  ASSUME ChecksInv, [ChecksNext]_<<readerVars, packetVars>>
  PROVE  ChecksInv'
<1>1. CASE ChecksNext
  <2>1. CASE \E n \in 0 .. PayloadSize : SendWhole(n) \/ SendAnnounced(n) \/ SendUnusable(n) \/ SendLost(n)
    <3>1. PICK n \in 0 .. PayloadSize : SendWhole(n) \/ SendAnnounced(n) \/ SendUnusable(n) \/ SendLost(n)
      BY <2>1
    <3>2. n \in Nat
      BY ReaderAssumption
    <3>3. QED BY <1>1, <3>1, <3>2, WholeKeeps, AnnouncedKeeps, UnusableKeeps, LossKeeps
  <2>2. CASE \E error \in BOOLEAN : SendEmpty(error)
    BY <1>1, <2>2, EmptyKeeps
  <2>3. QED BY <1>1, <2>1, <2>2 DEF ChecksNext, ReaderNext
<1>2. CASE UNCHANGED <<readerVars, packetVars>>
  <2>1. UNCHANGED readerVars
    BY <1>2
  <2>2. ReaderInv'
    BY <2>1, ReaderNextInv DEF ChecksInv
  <2>3. /\ sending' = sending /\ rest' = rest /\ cc' = cc /\ missed' = missed /\ pos' = pos
        /\ reader' = reader
    BY <2>1 DEF readerVars
  <2>4. previous' = previous /\ behind' = behind /\ broken' = broken /\ open' = open /\ silent' = silent
    BY <1>2 DEF packetVars
  <2>5. QED BY <2>2, <2>3, <2>4 DEF ChecksInv, PreviousInv, Ahead, OpenInv, ToldInv, PacketRecord
<1>3. QED BY <1>1, <1>2

\* When a section is not handed on, something in the report tells of it.
THEOREM LossIsTold == ChecksSpec => []NothingLostSilently
<1>1. ChecksInit => ChecksInv
  BY ChecksInitInv
<1>2. ChecksInv /\ [ChecksNext]_<<readerVars, packetVars>> => ChecksInv'
  BY ChecksNextInv
<1>3. ChecksInv => NothingLostSilently
  BY DEF ChecksInv, NothingLostSilently
<1>4. QED BY <1>1, <1>2, <1>3, PTL DEF ChecksSpec

\* What a step says of the continuity of the stream.
LEMMA ContinuityOfStep ==
  ASSUME ChecksInv, ChecksNext
  PROVE  /\ event' <=> arrived' # <<>> /\ behind /\ Unannounced
         /\ Jumps => broken \/ event' \/ ~Unannounced
<1>1. ReaderInv /\ PreviousInv /\ ToldInv /\ CountsInv /\ CollectInv /\ ReaderNext
  BY DEF ChecksInv, ReaderInv, ChecksNext
<1>2. CASE \E n \in Nat : SendLost(n)
  <2>1. arrived' = <<>>
    BY <1>2 DEF SendLost
  <2>2. QED BY <2>1, LossChecked DEF Jumps
<1>3. ASSUME NEW p, NEW copies, Arrival(p, copies)
      PROVE  /\ event' <=> arrived' # <<>> /\ behind /\ Unannounced
             /\ Jumps => broken \/ event' \/ ~Unannounced
  <2>1. arrived' # <<>> /\ (event' <=> behind /\ ~p.discontinuity)
    BY <1>1, <1>3, ArrivalChecked
  <2>2. /\ Unannounced <=> ~p.discontinuity
        /\ ReadsPayload <=> ~Untrusted(p) /\ HasPayload(p)
        /\ arrived'[1].cc = cc'
    BY <1>1, <1>3, ArrivalSaid
  <2>3. ASSUME Jumps, ~p.discontinuity PROVE broken \/ event'
    <3>1. /\ HasPayload(p) /\ reader.collecting
          /\ cc' # (reader.lastCC + 1) % CounterModulus
      BY <2>2, <2>3 DEF Jumps
    <3>2. cc' = NextCC
      BY <1>3, <2>3, <3>1 DEF Arrival, HasPayload
    <3>3. missed # 0
      BY <1>1, <3>1, <3>2, CounterGoesOn DEF CollectInv
    <3>4. QED BY <1>1, <2>1, <2>3, <3>1, <3>3 DEF ToldInv
  <2>4. QED BY <2>1, <2>2, <2>3
<1>4. QED BY <1>1, <1>2, <1>3, Kinds

\* A continuity error for every gap that was not announced and for nothing else, and none
\* of the section reader's jumps goes unreported.
THEOREM ContinuityIsAsDefined == ChecksSpec => ContinuityAsDefined
<1>1. ChecksInit => ChecksInv
  BY ChecksInitInv
<1>2. ChecksInv /\ [ChecksNext]_<<readerVars, packetVars>> => ChecksInv'
  BY ChecksNextInv
<1>3. ChecksInv /\ [ChecksNext]_<<readerVars, packetVars>>
        => [/\ event' <=> arrived' # <<>> /\ behind /\ Unannounced
            /\ Jumps => broken \/ event' \/ ~Unannounced]_<<readerVars, packetVars>>
  BY ContinuityOfStep
<1>4. QED BY <1>1, <1>2, <1>3, PTL DEF ChecksSpec, ContinuityAsDefined
===============================================================================
