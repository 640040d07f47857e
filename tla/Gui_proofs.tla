------------------------------- MODULE Gui_proofs ------------------------------
(***************************************************************************)
(* Proofs about the parts of the GUI that MCGui composes: the pages of the    *)
(* Packets screen (PacketPages), for every page size, setting, file and       *)
(* range; the check of a CLI (CliCheck), which decides as it should whatever  *)
(* the program does and however long it takes; the session with the update    *)
(* beside it (Session), for every set of releases, inputs, requests and CLIs; *)
(* and the process of one CLI run (CliProcess), for every limit, pipe size    *)
(* and number of cancel calls, which is one that CliRun allows.               *)
(***************************************************************************)
EXTENDS PacketPages, CliProcess, CliCheck, Session, FiniteSetTheorems, SequenceTheorems, Induction

-------------------------------------------------------------------------------
(* Arithmetic.                                                               *)

\* The least of two numbers.
LEMMA MinOfTwo ==
  ASSUME NEW a \in Int, NEW b \in Int
  PROVE  Min({a, b}) = IF a <= b THEN a ELSE b
BY DEF Min

\* The least of three numbers.
LEMMA MinOfThree ==
  ASSUME NEW a \in Int, NEW b \in Int, NEW c \in Int
  PROVE  Min({a, b, c}) = IF a <= b THEN IF a <= c THEN a ELSE c ELSE IF b <= c THEN b ELSE c
BY DEF Min

\* The greatest of two numbers.
LEMMA MaxOfTwo ==
  ASSUME NEW a \in Int, NEW b \in Int
  PROVE  Max({a, b}) = IF a >= b THEN a ELSE b
BY DEF Max

\* Division with a remainder.
LEMMA Divided ==
  ASSUME NEW a \in Int, NEW n \in Nat \ {0}
  PROVE  /\ a \div n \in Int /\ a % n \in 0 .. n - 1
         /\ a = (a \div n) * n + (a % n)
OBVIOUS

\* Which numbers a quotient reaches.
LEMMA UpToQuotient ==
  ASSUME NEW a \in Int, NEW n \in Nat \ {0}, NEW i \in Int
  PROVE  i < a \div n <=> (i + 1) * n <= a
<1>1. /\ a \div n \in Int /\ a % n \in 0 .. n - 1
      /\ a = (a \div n) * n + (a % n)
  BY Divided
<1> DEFINE q == a \div n
<1>2. q \in Int /\ q * n <= a /\ a < q * n + n
  BY <1>1
<1> HIDE DEF q
<1>3. ASSUME i < q PROVE (i + 1) * n <= a
  <2>1. (i + 1) * n <= q * n
    BY <1>2, <1>3
  <2>2. QED BY <1>2, <2>1
<1>4. ASSUME q <= i PROVE (i + 1) * n > a
  <2>1. (i + 1) * n >= q * n + n
    BY <1>2, <1>4
  <2>2. QED BY <1>2, <2>1
<1>5. QED BY <1>2, <1>3, <1>4 DEF q

\* A multiple has no remainder.
LEMMA Multiple ==
  ASSUME NEW k \in Int, NEW n \in Nat \ {0}
  PROVE  (k * n) % n = 0 /\ (k * n) \div n = k
<1>1. /\ (k * n) \div n \in Int /\ (k * n) % n \in 0 .. n - 1
      /\ k * n = ((k * n) \div n) * n + ((k * n) % n)
  <2>1. k * n \in Int
    OBVIOUS
  <2>2. QED BY <2>1, Divided
<1> DEFINE q == (k * n) \div n
           r == (k * n) % n
<1>2. q \in Int /\ r \in 0 .. n - 1 /\ (k - q) * n = r
  BY <1>1
<1> HIDE DEF q, r
<1>3. k - q = 0
  <2>1. CASE k - q >= 1
    <3>1. (k - q) * n >= n
      BY <1>2, <2>1
    <3>2. QED BY <1>2, <3>1
  <2>2. CASE k - q <= -1
    <3>1. (k - q) * n <= -n
      BY <1>2, <2>2
    <3>2. QED BY <1>2, <3>1
  <2>3. QED BY <1>2, <2>1, <2>2
<1>4. QED BY <1>2, <1>3 DEF q, r

\* A number without a remainder is a multiple.
LEMMA NoRemainder ==
  ASSUME NEW a \in Int, NEW n \in Nat \ {0}, a % n = 0
  PROVE  a \div n \in Int /\ a = (a \div n) * n
BY Divided

-------------------------------------------------------------------------------
(* The packets of the range, by their indexes.                               *)

FileTypes ==
  /\ file.size \in Nat /\ file.phase \in 0 .. PacketSize - 1
  /\ file.offset \in Nat /\ file.limit \in Nat /\ file.offset < file.size

\* The geometry of the range: the code learns it from the first page.
First == AlignUp(file, file.offset)

G == GeometryFrom(IF First < file.size THEN First ELSE RangeEnd)

\* Aligning goes to the first packet boundary at or after an offset.
LEMMA AlignsUp ==
  ASSUME FileTypes, NEW o \in Int
  PROVE  /\ AlignUp(file, o) \in Int /\ o <= AlignUp(file, o) /\ AlignUp(file, o) < o + PacketSize
         /\ (o - file.phase) % PacketSize = 0 => AlignUp(file, o) = o
         /\ \E k \in Int : AlignUp(file, o) - file.phase = k * PacketSize
<1> DEFINE a == o - file.phase
           r == a % PacketSize
           q == a \div PacketSize
<1>1. PacketSize \in Nat \ {0} /\ a \in Int
  BY PagesAssumption DEF FileTypes
<1>2. q \in Int /\ r \in 0 .. PacketSize - 1 /\ a = q * PacketSize + r
  BY <1>1, Divided
<1>3. AlignUp(file, o) = IF r = 0 THEN o ELSE o + PacketSize - r
  BY DEF AlignUp
<1>4. o = file.phase + a /\ file.phase \in Int /\ a = o - file.phase
      /\ ((o - file.phase) % PacketSize = 0 <=> r = 0)
  BY DEF FileTypes
<1> HIDE DEF a, r, q
<1>5. /\ AlignUp(file, o) \in Int /\ o <= AlignUp(file, o) /\ AlignUp(file, o) < o + PacketSize
      /\ r = 0 => AlignUp(file, o) = o
  BY <1>1, <1>2, <1>3, <1>4
<1>6. \E k \in Int : AlignUp(file, o) - file.phase = k * PacketSize
  <2>1. CASE r = 0
    <3>1. AlignUp(file, o) - file.phase = q * PacketSize
      BY <1>1, <1>2, <1>3, <1>4, <2>1
    <3>2. QED BY <1>2, <3>1
  <2>2. CASE r # 0
    <3>1. AlignUp(file, o) - file.phase = (q + 1) * PacketSize
      BY <1>1, <1>2, <1>3, <1>4, <2>2
    <3>2. q + 1 \in Int
      BY <1>2
    <3>3. QED BY <3>1, <3>2
  <2>3. QED BY <2>1, <2>2
<1>7. QED BY <1>4, <1>5, <1>6

\* The end of the range lies in the file.
LEMMA EndOfRange ==
  ASSUME FileTypes
  PROVE  RangeEnd \in Nat /\ RangeEnd <= file.size
BY MinOfTwo DEF FileTypes, RangeEnd

\* The geometry by its fields.
LEMMA GeometryIs ==
  ASSUME FileTypes
  PROVE  /\ G.known = TRUE /\ G.first \in Int /\ G.count \in Nat
         /\ G.count = IF G.first < RangeEnd THEN (RangeEnd - G.first) \div PacketSize ELSE 0
         /\ G.first = IF First < file.size THEN First ELSE RangeEnd
<1>1. First \in Int
  BY AlignsUp DEF FileTypes, First
<1> DEFINE first == IF First < file.size THEN First ELSE RangeEnd
<1>2. first \in Int /\ RangeEnd \in Int
  BY <1>1, EndOfRange
<1>3. /\ G.known = TRUE /\ G.first = first
      /\ G.count = IF first < RangeEnd THEN (RangeEnd - first) \div PacketSize ELSE 0
  BY DEF G, GeometryFrom
<1> HIDE DEF first
<1>4. ASSUME first < RangeEnd PROVE (RangeEnd - first) \div PacketSize \in Nat
  <2>1. RangeEnd - first \in Nat /\ PacketSize \in Nat \ {0}
    BY <1>2, <1>4, PagesAssumption
  <2>2. (RangeEnd - first) \div PacketSize \in Int /\ ~((RangeEnd - first) \div PacketSize <= -1)
    <3>1. -1 < (RangeEnd - first) \div PacketSize
      BY <2>1, UpToQuotient
    <3>2. (RangeEnd - first) \div PacketSize \in Int
      BY <2>1, Divided
    <3>3. QED BY <3>1, <3>2
  <2>3. QED BY <2>2
<1>5. QED BY <1>2, <1>3, <1>4 DEF first

\* Indexes are those of the packets that lie in the range as a whole.
LEMMA IndexInRange ==
  ASSUME FileTypes, NEW i \in Nat
  PROVE  i < G.count <=> First < file.size /\ First + i * PacketSize <= RangeEnd - PacketSize
<1>1. PacketSize \in Nat \ {0} /\ First \in Int /\ RangeEnd \in Nat
  BY PagesAssumption, AlignsUp, EndOfRange DEF FileTypes, First
<1>2. i * PacketSize \in Nat /\ (i + 1) * PacketSize = i * PacketSize + PacketSize
  BY <1>1
<1>3. CASE First < file.size /\ First < RangeEnd
  <2>1. G.count = (RangeEnd - First) \div PacketSize /\ RangeEnd - First \in Int
    BY <1>1, <1>3, GeometryIs
  <2>2. i < G.count <=> (i + 1) * PacketSize <= RangeEnd - First
    BY <1>1, <2>1, UpToQuotient
  <2>3. QED BY <1>1, <1>2, <1>3, <2>2
<1>4. CASE First >= file.size
  BY <1>1, <1>4, GeometryIs
<1>5. CASE First < file.size /\ First >= RangeEnd
  BY <1>1, <1>2, <1>5, GeometryIs
<1>6. QED BY <1>1, <1>3, <1>4, <1>5 DEF FileTypes

\* The packets of the range are those of its indexes.
LEMMA RangeByIndex ==
  ASSUME FileTypes, NEW o
  PROVE  o \in RangePackets <=> \E i \in 0 .. G.count - 1 : o = G.first + i * PacketSize
<1>1. PacketSize \in Nat \ {0} /\ First \in Int /\ RangeEnd \in Nat /\ G.count \in Nat
      /\ file.offset <= First /\ First < file.offset + PacketSize /\ file.offset \in Int
      /\ RangeEnd <= file.size /\ file.size \in Nat /\ file.phase \in Int
  <2>1. file.offset \in Int /\ file.size \in Nat /\ file.phase \in Int
    BY DEF FileTypes
  <2>2. First \in Int /\ file.offset <= First /\ First < file.offset + PacketSize
    BY <2>1, AlignsUp DEF First
  <2>3. QED BY <2>1, <2>2, PagesAssumption, EndOfRange, GeometryIs
<1>2. PICK k \in Int : First - file.phase = k * PacketSize
  BY AlignsUp, <1>1 DEF First
<1>3. ASSUME NEW i \in 0 .. G.count - 1, o = G.first + i * PacketSize PROVE o \in RangePackets
  <2>1. i \in Nat /\ i < G.count
    BY <1>1
  <2>2. First < file.size /\ First + i * PacketSize <= RangeEnd - PacketSize
    BY <2>1, IndexInRange
  <2>3. o = First + i * PacketSize
    BY <1>3, <2>2, GeometryIs
  <2>4. i * PacketSize \in Nat
    BY <1>1
  <2>5. o - file.phase = (k + i) * PacketSize
    BY <1>1, <1>2, <2>3
  <2>6. k + i \in Int
    OBVIOUS
  <2>7. (o - file.phase) % PacketSize = 0
    BY <1>1, <2>5, <2>6, Multiple
  <2>8. QED BY <1>1, <2>2, <2>3, <2>4, <2>7 DEF RangePackets
<1>4. ASSUME o \in RangePackets PROVE \E i \in 0 .. G.count - 1 : o = G.first + i * PacketSize
  <2>1. o \in Int /\ file.offset <= o /\ o <= RangeEnd - PacketSize /\ (o - file.phase) % PacketSize = 0
    BY <1>1, <1>4 DEF RangePackets
  <2> DEFINE m == (o - file.phase) \div PacketSize
  <2>2. m \in Int /\ o - file.phase = m * PacketSize
    <3>1. o - file.phase \in Int
      BY <1>1, <2>1
    <3>2. QED BY <1>1, <2>1, <3>1, NoRemainder
  <2> HIDE DEF m
  <2>3. o = First + (m - k) * PacketSize
    BY <1>1, <1>2, <2>1, <2>2
  <2>4. m - k \in Nat
    <3>1. m - k > -1
      <4>1. SUFFICES ASSUME m - k <= -1 PROVE FALSE
        BY <2>2
      <4>2. (m - k) * PacketSize <= -PacketSize
        BY <1>1, <2>2, <4>1
      <4>3. QED BY <1>1, <2>1, <2>2, <2>3, <4>2
    <3>2. QED BY <2>2, <3>1
  <2>5. (m - k) * PacketSize \in Nat
    BY <1>1, <2>4
  <2>6. First < file.size /\ First + (m - k) * PacketSize <= RangeEnd - PacketSize
    BY <1>1, <2>1, <2>3, <2>5
  <2>7. m - k < G.count
    BY <2>4, <2>6, IndexInRange
  <2>8. m - k \in 0 .. G.count - 1 /\ G.first = First
    BY <1>1, <2>4, <2>6, <2>7, GeometryIs
  <2>9. QED BY <2>3, <2>8
<1>5. QED BY <1>3, <1>4

\* A packet of the range by its index, and its order.
OffsetOf(i) == G.first + i * PacketSize

\* Packets of larger indexes are further on in the file.
LEMMA OffsetsGrow ==
  ASSUME FileTypes, NEW i \in Int, NEW j \in Int
  PROVE  OffsetOf(i) \in Int /\ (i < j <=> OffsetOf(i) < OffsetOf(j)) /\ (OffsetOf(i) = OffsetOf(j) => i = j)
<1>1. G.first \in Int /\ PacketSize \in Nat \ {0}
  BY GeometryIs, PagesAssumption
<1> DEFINE d == j - i
<1>2. d \in Int /\ j * PacketSize = i * PacketSize + d * PacketSize
  BY <1>1
<1>3. i * PacketSize \in Int /\ d * PacketSize \in Int /\ (d >= 1 => d * PacketSize >= 1)
      /\ (d <= -1 => d * PacketSize <= -1) /\ (d = 0 => d * PacketSize = 0)
  BY <1>1, <1>2
<1>4. i < j <=> d >= 1
  OBVIOUS
<1>5. i = j <=> d = 0
  OBVIOUS
<1> HIDE DEF d
<1>6. QED BY <1>1, <1>2, <1>3, <1>4, <1>5 DEF OffsetOf

\* The packets before one, counted.
LEMMA CountBelow ==
  ASSUME FileTypes, NEW i \in 0 .. G.count - 1
  PROVE  Cardinality({q \in RangePackets : q < OffsetOf(i)}) = i
<1> DEFINE T == {q \in RangePackets : q < OffsetOf(i)}
           f == [j \in 0 .. i - 1 |-> OffsetOf(j)]
<1>1. i \in Nat /\ G.count \in Nat
  BY GeometryIs
<1>2. \A j \in 0 .. i - 1 : OffsetOf(j) \in T
  <2>1. ASSUME NEW j \in 0 .. i - 1 PROVE OffsetOf(j) \in T
    <3>1. j \in 0 .. G.count - 1 /\ j \in Int /\ j < i
      BY <1>1
    <3>2. OffsetOf(j) \in RangePackets
      BY <3>1, RangeByIndex DEF OffsetOf
    <3>3. OffsetOf(j) < OffsetOf(i)
      BY <1>1, <3>1, OffsetsGrow
    <3>4. QED BY <3>2, <3>3
  <2>2. QED BY <2>1
<1>3. \A q \in T : \E j \in 0 .. i - 1 : q = OffsetOf(j)
  <2>1. ASSUME NEW q \in T PROVE \E j \in 0 .. i - 1 : q = OffsetOf(j)
    <3>1. PICK j \in 0 .. G.count - 1 : q = OffsetOf(j)
      BY RangeByIndex DEF OffsetOf
    <3>2. j \in Int /\ j < i
      BY <1>1, <2>1, <3>1, OffsetsGrow
    <3>3. QED BY <1>1, <3>1, <3>2
  <2>2. QED BY <2>1
<1>4. \A j, k \in 0 .. i - 1 : OffsetOf(j) = OffsetOf(k) => j = k
  BY <1>1, OffsetsGrow
<1> HIDE DEF T
<1>5. f \in Bijection(0 .. i - 1, T)
  <2>1. f \in [0 .. i - 1 -> T]
    BY <1>2
  <2>2. f \in Injection(0 .. i - 1, T)
    BY <1>4, <2>1 DEF Injection, IsInjective
  <2>3. f \in Surjection(0 .. i - 1, T)
    BY <1>3, <2>1 DEF Surjection
  <2>4. QED BY <2>2, <2>3 DEF Bijection
<1>6. ExistsBijection(0 .. i - 1, T)
  <2> HIDE DEF f
  <2> QED BY <1>5 DEF ExistsBijection
<1>7. IsFiniteSet(0 .. i - 1) /\ Cardinality(0 .. i - 1) = i
  <2>1. 0 \in Int /\ i - 1 \in Int
    BY <1>1
  <2>2. /\ IsFiniteSet(0 .. i - 1)
        /\ Cardinality(0 .. i - 1) = IF 0 > i - 1 THEN 0 ELSE (i - 1) - 0 + 1
    BY <2>1, FS_Interval
  <2>3. QED BY <1>1, <2>2
<1>8. Cardinality(T) = i
  BY <1>6, <1>7, FS_Bijection
<1>9. QED BY <1>8 DEF T

-------------------------------------------------------------------------------
(* Pages.                                                                    *)

Pages == 0 .. PageCount(G) - 1

\* The number of packets of a page.
SizeOf(p) == Min({PageSize, G.count - PageStart(p)})

\* The packets a page should hold.
PagePackets(p) == [i \in 1 .. SizeOf(p) |-> OffsetOf(PageStart(p) + i - 1)]

\* Pages start within the range, and the last one is the first that reaches its end.
LEMMA PageStarts ==
  ASSUME FileTypes, NEW p \in Nat
  PROVE  /\ PageStart(p) \in Nat /\ PageStart(p + 1) = PageStart(p) + PageSize
         /\ p > 0 => (p \in Pages <=> PageStart(p) < G.count)
         /\ p \in Pages => PageStart(p) <= G.count
         /\ 0 \in Pages
         /\ SizeOf(p) \in Int
         /\ p \in Pages => SizeOf(p) \in Nat
<1> DEFINE n == (G.count + PageSize - 1) \div PageSize
<1>1. G.count \in Nat /\ PageSize \in Nat \ {0}
  BY GeometryIs, PagesAssumption
<1>2. PageStart(p) \in Nat /\ PageStart(p + 1) = PageStart(p) + PageSize
  BY <1>1 DEF PageStart
<1>3. n \in Int /\ (p < n <=> (p + 1) * PageSize <= G.count + PageSize - 1)
  <2>1. G.count + PageSize - 1 \in Int
    BY <1>1
  <2>2. n \in Int
    BY <1>1, <2>1, Divided
  <2>3. p < n <=> (p + 1) * PageSize <= G.count + PageSize - 1
    <3>1. p \in Int
      OBVIOUS
    <3>2. QED BY <1>1, <2>1, <3>1, UpToQuotient
  <2>4. QED BY <2>2, <2>3
<1>4. p < n <=> PageStart(p) < G.count
  BY <1>1, <1>2, <1>3 DEF PageStart
<1> HIDE DEF n
<1>5. PageCount(G) = IF n <= 1 THEN 1 ELSE n
  <2>1. PageCount(G) = Max({1, n})
    BY DEF PageCount, n
  <2>2. QED BY <1>3, <2>1, MaxOfTwo
<1>6. p > 0 => (p \in Pages <=> PageStart(p) < G.count)
  BY <1>3, <1>4, <1>5 DEF Pages
<1>7. 0 \in Pages
  BY <1>3, <1>5 DEF Pages
<1>8. p = 0 => PageStart(p) = 0
  BY <1>1 DEF PageStart
<1>9. p \in Pages => PageStart(p) <= G.count
  BY <1>1, <1>2, <1>6, <1>8
<1>10. SizeOf(p) = IF PageSize <= G.count - PageStart(p) THEN PageSize ELSE G.count - PageStart(p)
  BY <1>1, <1>2, MinOfTwo DEF SizeOf
<1>11. QED BY <1>1, <1>2, <1>6, <1>7, <1>9, <1>10

\* A page by the indexes of its packets.
LEMMA PageByIndex ==
  ASSUME FileTypes, NEW p \in Nat, NEW o
  PROVE  o \in PacketsOfPage(p) <=>
           \E i \in 0 .. G.count - 1 : /\ o = OffsetOf(i)
                                       /\ PageStart(p) <= i /\ i < PageStart(p) + PageSize
<1>1. G.count \in Nat /\ PageSize \in Nat \ {0} /\ PageStart(p) \in Nat
      /\ PageStart(p + 1) = PageStart(p) + PageSize
  BY GeometryIs, PagesAssumption, PageStarts
<1>2. ASSUME NEW i \in 0 .. G.count - 1
      PROVE  OffsetOf(i) \in PacketsOfPage(p) <=> PageStart(p) <= i /\ i < PageStart(p) + PageSize
  <2>1. OffsetOf(i) \in RangePackets
    BY RangeByIndex DEF OffsetOf
  <2>2. OffsetOf(i) \in PacketsOfPage(p) <=> i \in PageStart(p) .. PageStart(p + 1) - 1
    BY <2>1, CountBelow DEF PacketsOfPage
  <2>3. QED BY <1>1, <2>2
<1>3. o \in PacketsOfPage(p) => \E i \in 0 .. G.count - 1 : o = OffsetOf(i)
  BY RangeByIndex DEF PacketsOfPage, OffsetOf
<1>4. QED BY <1>2, <1>3

\* A page with its packets shows them, in order.
LEMMA PageShows ==
  ASSUME FileTypes, NEW p \in Pages
  PROVE  /\ ToSet(PagePackets(p)) = PacketsOfPage(p)
         /\ \A i, j \in DOMAIN PagePackets(p) : i < j => PagePackets(p)[i] < PagePackets(p)[j]
<1>1. p \in Nat
  BY DEF Pages
<1>2. G.count \in Nat /\ PageSize \in Nat \ {0} /\ PageStart(p) \in Nat /\ SizeOf(p) \in Nat
      /\ PageStart(p) <= G.count
  BY <1>1, GeometryIs, PagesAssumption, PageStarts
<1>3. SizeOf(p) = IF PageSize <= G.count - PageStart(p) THEN PageSize ELSE G.count - PageStart(p)
  BY <1>2, MinOfTwo DEF SizeOf
<1>4. DOMAIN PagePackets(p) = 1 .. SizeOf(p)
      /\ \A i \in 1 .. SizeOf(p) : PagePackets(p)[i] = OffsetOf(PageStart(p) + i - 1)
  BY DEF PagePackets
<1>5. ASSUME NEW o PROVE o \in ToSet(PagePackets(p)) <=> o \in PacketsOfPage(p)
  <2>1. o \in ToSet(PagePackets(p)) <=> \E i \in 1 .. SizeOf(p) : o = OffsetOf(PageStart(p) + i - 1)
    BY <1>4 DEF ToSet
  <2>2. ASSUME NEW i \in 1 .. SizeOf(p) PROVE OffsetOf(PageStart(p) + i - 1) \in PacketsOfPage(p)
    <3>1. /\ PageStart(p) + i - 1 \in 0 .. G.count - 1 /\ PageStart(p) <= PageStart(p) + i - 1
          /\ PageStart(p) + i - 1 < PageStart(p) + PageSize
      BY <1>2, <1>3
    <3>2. QED BY <1>1, <3>1, PageByIndex
  <2>3. ASSUME o \in PacketsOfPage(p) PROVE \E i \in 1 .. SizeOf(p) : o = OffsetOf(PageStart(p) + i - 1)
    <3>1. PICK k \in 0 .. G.count - 1 : /\ o = OffsetOf(k)
                                        /\ PageStart(p) <= k /\ k < PageStart(p) + PageSize
      BY <1>1, <2>3, PageByIndex
    <3>2. k - PageStart(p) + 1 \in 1 .. SizeOf(p) /\ PageStart(p) + (k - PageStart(p) + 1) - 1 = k
      BY <1>2, <1>3, <3>1
    <3>3. QED BY <3>1, <3>2
  <2>4. QED BY <2>1, <2>2, <2>3
<1>6. ASSUME NEW i \in 1 .. SizeOf(p), NEW j \in 1 .. SizeOf(p), i < j
      PROVE  PagePackets(p)[i] < PagePackets(p)[j]
  <2>1. PageStart(p) + i - 1 \in Int /\ PageStart(p) + j - 1 \in Int
        /\ PageStart(p) + i - 1 < PageStart(p) + j - 1
    BY <1>2, <1>6
  <2>2. QED BY <1>4, <2>1, OffsetsGrow
<1>7. QED BY <1>4, <1>5, <1>6

\* The page that holds an index.
LEMMA PageOfIndex ==
  ASSUME FileTypes, NEW i \in 0 .. G.count - 1
  PROVE  /\ i \div PageSize \in Pages
         /\ PageStart(i \div PageSize) <= i /\ i < PageStart(i \div PageSize) + PageSize
<1>1. G.count \in Nat /\ PageSize \in Nat \ {0}
  BY GeometryIs, PagesAssumption
<1> DEFINE p == i \div PageSize
<1>2. /\ p \in Int /\ i % PageSize \in 0 .. PageSize - 1
      /\ i = p * PageSize + (i % PageSize)
  BY <1>1, Divided
<1>3. p \in Nat
  <2>1. -1 < p
    BY <1>1, UpToQuotient
  <2>2. QED BY <1>2, <2>1
<1> HIDE DEF p
<1>4. PageStart(p) <= i /\ i < PageStart(p) + PageSize /\ PageStart(p) < G.count
  BY <1>1, <1>2, <1>3 DEF PageStart
<1>5. p \in Pages
  <2>1. CASE p = 0
    BY <1>3, <2>1, PageStarts
  <2>2. CASE p > 0
    BY <1>3, <1>4, <2>2, PageStarts
  <2>3. QED BY <1>3, <2>1, <2>2
<1>6. QED BY <1>4, <1>5 DEF p

\* Every packet of the range is on a page.
LEMMA PagesShowAll ==
  ASSUME FileTypes
  PROVE  UNION {PacketsOfPage(p) : p \in Pages} = RangePackets
<1>1. G.count \in Nat /\ PageSize \in Nat \ {0}
  BY GeometryIs, PagesAssumption
<1>2. \A p \in Pages : PacketsOfPage(p) \subseteq RangePackets
  BY DEF PacketsOfPage
<1>3. ASSUME NEW o \in RangePackets PROVE \E p \in Pages : o \in PacketsOfPage(p)
  <2>1. PICK i \in 0 .. G.count - 1 : o = OffsetOf(i)
    BY RangeByIndex DEF OffsetOf
  <2> DEFINE p == i \div PageSize
  <2>2. p \in Pages /\ PageStart(p) <= i /\ i < PageStart(p) + PageSize
    BY PageOfIndex
  <2> HIDE DEF p
  <2>3. p \in Nat
    BY <2>2 DEF Pages
  <2>4. o \in PacketsOfPage(p)
    BY <2>1, <2>2, <2>3, PageByIndex
  <2>5. QED BY <2>2, <2>4
<1>4. QED BY <1>2, <1>3

\* The packets that have an index are those of the range, and each is on a page.
LEMMA IndexOfPacket ==
  ASSUME FileTypes, NEW o \in Int
  PROVE  /\ IndexOf(G, o) # None <=> o \in RangePackets
         /\ o \in RangePackets => IndexOf(G, o) \div PageSize \in Pages
<1>1. G.count \in Nat /\ PacketSize \in Nat \ {0} /\ G.first \in Int
  BY GeometryIs, PagesAssumption
<1>2. ASSUME IndexOf(G, o) # None PROVE o \in RangePackets
  <2> DEFINE d == o - G.first
             i == d \div PacketSize
  <2>1. o >= G.first /\ d % PacketSize = 0 /\ i < G.count
    BY <1>2 DEF IndexOf
  <2>2. d \in Nat /\ d = o - G.first
    BY <1>1, <2>1
  <2> HIDE DEF d
  <2>3. i \in Int /\ d = i * PacketSize
    <3>1. d \in Int /\ PacketSize \in Nat \ {0} /\ d % PacketSize = 0
      BY <1>1, <2>1, <2>2
    <3>2. d \div PacketSize \in Int /\ d = (d \div PacketSize) * PacketSize
      BY <3>1, NoRemainder
    <3>3. QED BY <3>2
  <2>4. -1 < i
    BY <1>1, <2>2, UpToQuotient
  <2> HIDE DEF i
  <2>5. i \in 0 .. G.count - 1
    BY <1>1, <2>1, <2>3, <2>4
  <2>6. o = G.first + i * PacketSize
    BY <1>1, <2>2, <2>3
  <2>7. QED BY <2>5, <2>6, RangeByIndex
<1>3. ASSUME o \in RangePackets
      PROVE  IndexOf(G, o) # None /\ IndexOf(G, o) \div PageSize \in Pages
  <2>1. PICK i \in 0 .. G.count - 1 : o = G.first + i * PacketSize
    BY <1>3, RangeByIndex
  <2>2. i * PacketSize \in Nat
    BY <1>1
  <2>3. o - G.first = i * PacketSize /\ o >= G.first
    BY <1>1, <2>1, <2>2
  <2>4. (o - G.first) % PacketSize = 0 /\ (o - G.first) \div PacketSize = i
    <3>1. (i * PacketSize) % PacketSize = 0 /\ (i * PacketSize) \div PacketSize = i
      BY <1>1, Multiple
    <3>2. QED BY <2>3, <3>1
  <2>5. i \in Nat /\ i < G.count
    BY <1>1
  <2>6. IndexOf(G, o) = i
    BY <2>3, <2>4, <2>5 DEF IndexOf
  <2>7. QED BY <2>5, <2>6, PageOfIndex DEF None
<1>4. QED BY <1>2, <1>3

-------------------------------------------------------------------------------
(* What a request reads.                                                     *)

\* A request for a page reads the packets of that page.
LEMMA ReadsThePage ==
  ASSUME FileTypes, NEW p \in Pages
  PROVE  ReadPage(file, PageRequest(G, p).offset, PageRequest(G, p).count).packets = PagePackets(p)
<1> DEFINE o == OffsetOf(PageStart(p))
           n == SizeOf(p)
           first == AlignUp(file, o)
           complete == IF first < file.size THEN (file.size - first) \div PacketSize ELSE 0
<1>1. p \in Nat
  BY DEF Pages
<1>2. /\ G.count \in Nat /\ PageSize \in Nat \ {0} /\ PacketSize \in Nat \ {0} /\ G.first \in Int
      /\ PageStart(p) \in Nat /\ n \in Nat /\ PageStart(p) <= G.count /\ file.size \in Nat
  BY <1>1, GeometryIs, PagesAssumption, PageStarts DEF FileTypes
<1>3. n = IF PageSize <= G.count - PageStart(p) THEN PageSize ELSE G.count - PageStart(p)
  BY <1>2, MinOfTwo DEF SizeOf
<1>4. PageRequest(G, p).offset = o /\ PageRequest(G, p).count = n
  BY DEF PageRequest, OffsetOf, SizeOf
<1>5. ReadPage(file, o, n).packets = [i \in 1 .. Min({n, complete}) |-> first + (i - 1) * PacketSize]
  BY DEF ReadPage
<1>6. o \in Int
  BY <1>2, OffsetsGrow
<1>7. first \in Int
  BY <1>6, AlignsUp
<1>8. complete \in Int
  <2>1. file.size - first \in Int
    BY <1>2, <1>7
  <2>2. (file.size - first) \div PacketSize \in Int
    BY <1>2, <2>1, Divided
  <2>3. QED BY <2>2
<1>9. complete >= 0
  <2>1. CASE first < file.size
    <3>1. file.size - first \in Int /\ (-1 + 1) * PacketSize <= file.size - first
      BY <1>2, <1>7, <2>1
    <3>2. -1 < (file.size - first) \div PacketSize
      BY <1>2, <3>1, UpToQuotient
    <3>3. QED BY <1>8, <2>1, <3>2
  <2>2. CASE ~(first < file.size)
    BY <2>2
  <2>3. QED BY <2>1, <2>2
<1> HIDE DEF complete, n, first, o
<1>10. CASE n = 0
  <2>1. Min({n, complete}) = 0
    BY <1>8, <1>9, <1>10, MinOfTwo
  <2>2. ReadPage(file, o, n).packets = [i \in 1 .. 0 |-> first + (i - 1) * PacketSize]
    BY <1>5, <2>1
  <2>3. PagePackets(p) = [i \in 1 .. 0 |-> OffsetOf(PageStart(p) + i - 1)]
    BY <1>10 DEF PagePackets, n
  <2>4. 1 .. 0 = {}
    OBVIOUS
  <2>5. QED BY <1>4, <2>2, <2>3, <2>4
<1>11. CASE n > 0
  <2> DEFINE l == PageStart(p) + n - 1
  <2>1. l \in Nat /\ l < G.count /\ PageStart(p) \in 0 .. G.count - 1
    BY <1>2, <1>3, <1>11
  <2>2. o \in RangePackets
    BY <2>1, RangeByIndex DEF o, OffsetOf
  <2>3. first = o
    BY <1>6, <2>2, AlignsUp DEF RangePackets, first
  <2>4. First < file.size /\ First + l * PacketSize <= RangeEnd - PacketSize
    BY <2>1, IndexInRange
  <2>5. G.first = First /\ RangeEnd \in Nat /\ RangeEnd <= file.size
    BY <2>4, GeometryIs, EndOfRange
  <2>6. l * PacketSize = PageStart(p) * PacketSize + (n - 1) * PacketSize
    BY <1>2
  <2> HIDE DEF l
  <2>7. o + (n - 1) * PacketSize <= file.size - PacketSize /\ (n - 1) * PacketSize \in Nat
    BY <1>2, <1>11, <2>4, <2>5, <2>6 DEF o, OffsetOf
  <2>8. first < file.size /\ (n - 1 + 1) * PacketSize <= file.size - first
    BY <1>2, <1>6, <2>3, <2>7
  <2>9. n - 1 < complete
    <3>1. n - 1 \in Int /\ file.size - first \in Int
      BY <1>2, <1>7
    <3>2. n - 1 < (file.size - first) \div PacketSize
      BY <1>2, <2>8, <3>1, UpToQuotient
    <3>3. QED BY <2>8, <3>2 DEF complete
  <2>10. Min({n, complete}) = n
    BY <1>2, <1>8, <2>9, MinOfTwo
  <2>11. ReadPage(file, o, n).packets = [i \in 1 .. n |-> o + (i - 1) * PacketSize]
    BY <1>5, <2>3, <2>10
  <2>12. \A i \in 1 .. n : o + (i - 1) * PacketSize = OffsetOf(PageStart(p) + i - 1)
    <3>1. ASSUME NEW i \in 1 .. n PROVE o + (i - 1) * PacketSize = OffsetOf(PageStart(p) + i - 1)
      <4>1. (PageStart(p) + i - 1) * PacketSize = PageStart(p) * PacketSize + (i - 1) * PacketSize
        BY <1>2
      <4>2. /\ PageStart(p) * PacketSize \in Int /\ (i - 1) * PacketSize \in Int
        BY <1>2
      <4>3. QED BY <1>2, <4>1, <4>2 DEF o, OffsetOf
    <3>2. QED BY <3>1
  <2>13. QED BY <1>4, <2>11, <2>12 DEF PagePackets, n
<1>12. QED BY <1>2, <1>10, <1>11

\* The first request tells the geometry, and its packets are those of the first page as
\* far as they lie in the range.
LEMMA FirstReads ==
  ASSUME FileTypes, NEW answer, answer = ReadPage(file, file.offset, PageSize)
  PROVE  /\ GeometryFrom(IF answer.first = None THEN RangeEnd ELSE answer.first) = G
         /\ SubSeq(answer.packets, 1, Min({Len(answer.packets), G.count, PageSize})) = PagePackets(0)
<1> DEFINE complete == IF First < file.size THEN (file.size - First) \div PacketSize ELSE 0
           n == Min({PageSize, complete})
           s == [i \in 1 .. n |-> First + (i - 1) * PacketSize]
<1>1. /\ G.count \in Nat /\ PageSize \in Nat \ {0} /\ PacketSize \in Nat \ {0} /\ G.first \in Int
      /\ file.size \in Nat /\ file.offset \in Nat /\ RangeEnd \in Nat /\ RangeEnd <= file.size
  BY GeometryIs, PagesAssumption, EndOfRange DEF FileTypes
<1>2. First \in Int /\ file.offset <= First
  BY <1>1, AlignsUp, SMTT(40) DEF First
<1>3. answer.first = IF First < file.size THEN First ELSE None
  BY DEF ReadPage, First
<1>4. answer.packets = s
  BY DEF ReadPage, First
<1>5. GeometryFrom(IF answer.first = None THEN RangeEnd ELSE answer.first) = G
  <2>1. First # None
    BY <1>1, <1>2 DEF None
  <2>2. (IF answer.first = None THEN RangeEnd ELSE answer.first)
          = IF First < file.size THEN First ELSE RangeEnd
    BY <1>3, <2>1
  <2>3. QED BY <2>2 DEF G
<1>6. complete \in Int /\ complete >= 0
  <2>1. CASE First < file.size
    <3>1. file.size - First \in Int /\ (-1 + 1) * PacketSize <= file.size - First
      BY <1>1, <1>2, <2>1
    <3>2. -1 < (file.size - First) \div PacketSize
      BY <1>1, <3>1, UpToQuotient
    <3>3. (file.size - First) \div PacketSize \in Int
      BY <1>1, <3>1, Divided
    <3>4. QED BY <2>1, <3>2, <3>3
  <2>2. CASE ~(First < file.size)
    BY <2>2
  <2>3. QED BY <2>1, <2>2
<1>7. G.count <= complete
  <2>1. SUFFICES ASSUME G.count > 0 PROVE G.count - 1 < complete
    BY <1>1, <1>6
  <2>2. G.count - 1 \in Nat /\ G.count - 1 < G.count
    BY <1>1, <2>1
  <2>3. First < file.size /\ First + (G.count - 1) * PacketSize <= RangeEnd - PacketSize
    BY <2>2, IndexInRange
  <2>4. (G.count - 1) * PacketSize \in Nat /\ (G.count - 1 + 1) * PacketSize = (G.count - 1) * PacketSize + PacketSize
    BY <1>1, <2>2
  <2>5. (G.count - 1 + 1) * PacketSize <= file.size - First /\ file.size - First \in Int
    BY <1>1, <1>2, <2>3, <2>4
  <2>6. G.count - 1 < (file.size - First) \div PacketSize
    BY <1>1, <2>2, <2>5, UpToQuotient
  <2>7. QED BY <2>3, <2>6
<1> HIDE DEF complete
<1>8. n = IF PageSize <= complete THEN PageSize ELSE complete
  BY <1>1, <1>6, MinOfTwo
<1> HIDE DEF n
<1>9. n \in Nat
  BY <1>1, <1>6, <1>8
<1>10. s \in Seq(Int) /\ Len(s) = n /\ \A i \in 1 .. n : s[i] = First + (i - 1) * PacketSize
  <2>1. \A i \in 1 .. n : First + (i - 1) * PacketSize \in Int
    BY <1>1, <1>2
  <2>2. s \in [1 .. n -> Int]
    BY <2>1
  <2>3. QED BY <1>9, <2>2
<1> DEFINE m == Min({Len(s), G.count, PageSize})
<1>11. m = SizeOf(0) /\ m \in Nat /\ m <= n
  <2>1. PageStart(0) = 0 /\ G.count - PageStart(0) = G.count
    BY <1>1 DEF PageStart
  <2>2. SizeOf(0) = IF PageSize <= G.count THEN PageSize ELSE G.count
    BY <1>1, <2>1, MinOfTwo DEF SizeOf
  <2>3. m = IF n <= G.count THEN IF n <= PageSize THEN n ELSE PageSize
            ELSE IF G.count <= PageSize THEN G.count ELSE PageSize
    BY <1>1, <1>9, <1>10, MinOfThree
  <2> HIDE DEF m
  <2>4. QED BY <1>1, <1>6, <1>7, <1>8, <1>9, <2>2, <2>3
<1> HIDE DEF s, m
<1>12. m > 0 => First = G.first
  BY <1>1, <1>7, <1>8, <1>9, <1>11, GeometryIs DEF complete
<1>13. SubSeq(s, 1, m) \in Seq(Int) /\ Len(SubSeq(s, 1, m)) = m
       /\ \A i \in 1 .. m : SubSeq(s, 1, m)[i] = s[i]
  <2>1. 1 \in 1 .. Len(s) + 1 /\ m \in 0 .. Len(s)
    BY <1>9, <1>10, <1>11
  <2>2. QED BY <1>10, <1>11, <2>1
<1>14. \A i \in 1 .. m : s[i] = OffsetOf(PageStart(0) + i - 1)
  <2>1. ASSUME NEW i \in 1 .. m PROVE s[i] = OffsetOf(PageStart(0) + i - 1)
    <3>1. PageStart(0) + i - 1 = i - 1 /\ m > 0 /\ i \in 1 .. n
      BY <1>1, <1>9, <1>11 DEF PageStart
    <3>2. QED BY <1>10, <1>12, <3>1 DEF OffsetOf
  <2>2. QED BY <2>1
<1>15. PagePackets(0) \in Seq(Int) /\ Len(PagePackets(0)) = m
       /\ \A i \in 1 .. m : PagePackets(0)[i] = OffsetOf(PageStart(0) + i - 1)
  <2>1. \A i \in 1 .. m : OffsetOf(PageStart(0) + i - 1) \in Int
    <3>1. ASSUME NEW i \in 1 .. m PROVE OffsetOf(PageStart(0) + i - 1) \in Int
      <4>1. PageStart(0) + i - 1 \in Int
        BY <1>1 DEF PageStart
      <4>2. QED BY <4>1, OffsetsGrow
    <3>2. QED BY <3>1
  <2>2. PagePackets(0) = [i \in 1 .. m |-> OffsetOf(PageStart(0) + i - 1)]
    BY <1>11 DEF PagePackets
  <2>3. PagePackets(0) \in [1 .. m -> Int]
    BY <2>1, <2>2
  <2>4. QED BY <1>11, <2>2, <2>3
<1>16. SubSeq(s, 1, m) = PagePackets(0)
  BY <1>13, <1>14, <1>15, SeqEqual
<1>17. QED BY <1>4, <1>5, <1>16 DEF m

-------------------------------------------------------------------------------
(* The pages viewed last.                                                    *)

Distinct(s) == \A i, j \in DOMAIN s : s[i] = s[j] => i = j

\* What is left of the first n numbers.
Left(k, s, n, number) ==
  /\ k \in Seq(Nat) /\ Distinct(k)
  /\ \A x : x \in ToSet(k) <=> x # number /\ \E i \in 1 .. n : x = s[i]
  /\ n > 0 /\ s[n] # number => Len(k) > 0 /\ k[Len(k)] = s[n]

\* One more is left or left out.
LEMMA LeftOfOneMore ==
  ASSUME NEW s \in Seq(Nat), Distinct(s), NEW number, NEW n \in 1 .. Len(s),
         NEW k, Left(k, s, n - 1, number)
  PROVE  Left(IF s[n] = number THEN k ELSE Append(k, s[n]), s, n, number)
<1>1. s[n] \in Nat /\ n \in Nat /\ \A x : (\E i \in 1 .. n : x = s[i]) <=> x = s[n] \/ \E i \in 1 .. n - 1 : x = s[i]
  <2>1. s[n] \in Nat /\ n \in Nat
    OBVIOUS
  <2>2. \A i : i \in 1 .. n <=> i = n \/ i \in 1 .. n - 1
    BY <2>1
  <2>3. QED BY <2>1, <2>2
<1>2. CASE s[n] = number
  BY <1>1, <1>2 DEF Left
<1>3. CASE s[n] # number
  <2> DEFINE l == Append(k, s[n])
  <2>1. k \in Seq(Nat)
    BY DEF Left
  <2>2. /\ l \in Seq(Nat) /\ Len(l) = Len(k) + 1 /\ l[Len(l)] = s[n] /\ Len(k) \in Nat
        /\ \A i \in 1 .. Len(k) : l[i] = k[i]
        /\ DOMAIN l = 1 .. Len(k) + 1 /\ DOMAIN k = 1 .. Len(k)
    BY <1>1, <2>1
  <2> HIDE DEF l
  <2>3. \A x : x \in ToSet(l) <=> x \in ToSet(k) \/ x = s[n]
    <3>1. \A i : i \in DOMAIN l <=> i \in DOMAIN k \/ i = Len(k) + 1
      BY <2>2
    <3>2. QED BY <2>2, <3>1 DEF ToSet
  <2>4. s[n] \notin ToSet(k)
    <3>1. SUFFICES ASSUME s[n] \in ToSet(k) PROVE FALSE
      OBVIOUS
    <3>2. PICK i \in 1 .. n - 1 : s[n] = s[i]
      BY <3>1 DEF Left
    <3>3. i \in DOMAIN s /\ n \in DOMAIN s /\ i # n
      OBVIOUS
    <3>4. QED BY <3>2, <3>3 DEF Distinct
  <2>5. Distinct(l)
    <3>1. SUFFICES ASSUME NEW i \in DOMAIN l, NEW j \in DOMAIN l, l[i] = l[j] PROVE i = j
      BY DEF Distinct
    <3>2. ASSUME NEW a \in DOMAIN k PROVE k[a] # s[n]
      BY <2>4 DEF ToSet
    <3>3. (i \in DOMAIN k \/ i = Len(k) + 1) /\ (j \in DOMAIN k \/ j = Len(k) + 1)
      BY <2>2
    <3>4. CASE i \in DOMAIN k /\ j \in DOMAIN k
      BY <2>2, <3>1, <3>4 DEF Left, Distinct
    <3>5. CASE i = Len(k) + 1 /\ j \in DOMAIN k
      BY <2>2, <3>1, <3>2, <3>5
    <3>6. CASE i \in DOMAIN k /\ j = Len(k) + 1
      BY <2>2, <3>1, <3>2, <3>6
    <3>7. QED BY <3>3, <3>4, <3>5, <3>6
  <2>6. \A x : x \in ToSet(l) <=> x # number /\ \E i \in 1 .. n : x = s[i]
    BY <1>1, <1>3, <2>3 DEF Left
  <2>7. Left(l, s, n, number)
    BY <2>2, <2>5, <2>6 DEF Left
  <2>8. QED BY <1>3, <2>7 DEF l
<1>4. QED BY <1>2, <1>3

\* Retaining leaves out the number, and only that.
LEMMA Retains ==
  ASSUME NEW s \in Seq(Nat), Distinct(s), NEW number
  PROVE  Left(Retain(s, number), s, Len(s), number)
<1> DEFINE Unfolds(k) == k = [n \in 0 .. Len(s) |->
                              IF n = 0 THEN <<>>
                              ELSE IF s[n] = number THEN k[n - 1] ELSE Append(k[n - 1], s[n])]
           kept == CHOOSE k : Unfolds(k)
           step == [n \in 1 .. Len(s) |->
                      [k \in Seq(Nat) |-> IF s[n] = number THEN k ELSE Append(k, s[n])]]
<1>0. Len(s) \in Nat /\ <<>> \in Seq(Nat)
  OBVIOUS
<1>1. Retain(s, number) = kept[Len(s)]
  BY DEF Retain
<1>2. step \in [1 .. Len(s) -> [Seq(Nat) -> Seq(Nat)]]
  OBVIOUS
<1>3. PICK g \in [0 .. Len(s) -> Seq(Nat)] : IsRecursion(g, <<>>, step, Len(s))
  <2> HIDE DEF step
  <2> QED BY <1>0, <1>2, RecursionExists
<1>4. Unfolds(g)
  <2>1. ASSUME NEW n \in 0 .. Len(s)
        PROVE  g[n] = IF n = 0 THEN <<>>
                      ELSE IF s[n] = number THEN g[n - 1] ELSE Append(g[n - 1], s[n])
    <3>1. CASE n = 0
      BY <1>3, <3>1 DEF IsRecursion
    <3>2. CASE n # 0
      <4>1. n \in 1 .. Len(s) /\ n - 1 \in 0 .. Len(s)
        BY <1>0, <3>2
      <4>2. g[n - 1] \in Seq(Nat) /\ g[n] = step[n][g[n - 1]]
        BY <1>3, <3>2, <4>1 DEF IsRecursion
      <4>3. QED BY <3>2, <4>1, <4>2
    <3>3. QED BY <3>1, <3>2
  <2> HIDE DEF step
  <2>2. QED BY <2>1
<1>5. Unfolds(kept)
  <2> HIDE DEF Unfolds
  <2> QED BY <1>4
<1> HIDE DEF kept
<1> DEFINE Step(m) == kept[m] = IF m = 0 THEN <<>>
                                ELSE IF s[m] = number THEN kept[m - 1] ELSE Append(kept[m - 1], s[m])
<1>6. ASSUME NEW m \in 0 .. Len(s)
      PROVE  Step(m)
  <2> DEFINE body == [n \in 0 .. Len(s) |->
                              IF n = 0 THEN <<>>
                              ELSE IF s[n] = number THEN kept[n - 1] ELSE Append(kept[n - 1], s[n])]
  <2>1. kept = body
    BY <1>5
  <2>2. body[m] = IF m = 0 THEN <<>>
                       ELSE IF s[m] = number THEN kept[m - 1] ELSE Append(kept[m - 1], s[m])
    BY Zenon
  <2> HIDE DEF body
  <2>3. QED BY <2>1, <2>2, Zenon
<1> DEFINE T == {n \in Nat : n <= Len(s) => Left(kept[n], s, n, number)}
<1>7. 0 \in T
  <2>1. kept[0] = <<>>
    BY <1>0, <1>5
  <2>2. ToSet(<<>>) = {} /\ Distinct(<<>>) /\ 1 .. 0 = {}
    BY DEF ToSet, Distinct
  <2>3. Left(<<>>, s, 0, number)
    BY <1>0, <2>2 DEF Left
  <2>4. QED BY <2>1, <2>3
<1>8. ASSUME NEW n \in Nat, n \in T PROVE n + 1 \in T
  <2>1. SUFFICES ASSUME n + 1 <= Len(s) PROVE Left(kept[n + 1], s, n + 1, number)
    OBVIOUS
  <2>2. Left(kept[n], s, n, number) /\ n + 1 \in 1 .. Len(s) /\ n + 1 - 1 = n
    BY <1>0, <1>8, <2>1
  <2>3. kept[n + 1] = IF s[n + 1] = number THEN kept[n] ELSE Append(kept[n], s[n + 1])
    <3>1. n + 1 \in 0 .. Len(s) /\ n + 1 # 0
      BY <1>0, <2>2
    <3>2. Step(n + 1)
      <4> HIDE DEF Step
      <4> QED BY <1>6, <3>1
    <3> HIDE DEF Unfolds
    <3>3. QED BY <2>2, <3>1, <3>2
  <2>4. QED BY <2>2, <2>3, LeftOfOneMore
<1>9. \A n \in Nat : n \in T
  <2> HIDE DEF T
  <2> QED BY <1>7, <1>8, SetInduction
<1>10. QED BY <1>0, <1>1, <1>9

\* What stays when a page is shown: it comes last, and the one shown before it stays.
Kept(r, before, latest) ==
  /\ r \in Seq(Nat) /\ Distinct(r)
  /\ Len(r) >= 1 /\ Len(r) <= CachedPages /\ r[Len(r)] = latest
  /\ \A x \in ToSet(r) : x = latest \/ x \in ToSet(before)
  /\ CachedPages > 1 /\ Len(before) > 0 => before[Len(before)] \in ToSet(r)

\* keep_recent_pages does so.
LEMMA KeepsRecent ==
  ASSUME recent \in Seq(Nat), Distinct(recent), NEW latest \in Nat
  PROVE  Kept(KeepRecent(latest), recent, latest)
<1> DEFINE n == Len(recent)
           k == Retain(recent, latest)
           all == Append(k, latest)
           a == Max({1, Len(all) - CachedPages + 1})
           r == SubSeq(all, a, Len(all))
<1>1. n \in Nat /\ CachedPages \in Nat \ {0}
  BY PagesAssumption
<1>2. Left(k, recent, n, latest)
  BY Retains
<1> HIDE DEF k
<1>3. k \in Seq(Nat) /\ Len(k) \in Nat /\ DOMAIN k = 1 .. Len(k)
  BY <1>2 DEF Left
<1>4. /\ all \in Seq(Nat) /\ Len(all) = Len(k) + 1 /\ all[Len(k) + 1] = latest
      /\ \A i \in 1 .. Len(k) : all[i] = k[i]
  BY <1>3
<1> HIDE DEF all
<1>5. a = IF Len(k) + 1 - CachedPages + 1 <= 1 THEN 1 ELSE Len(k) + 1 - CachedPages + 1
  <2>1. Len(all) - CachedPages + 1 \in Int
    BY <1>1, <1>3, <1>4
  <2>2. QED BY <1>1, <1>3, <1>4, <2>1, MaxOfTwo
<1> HIDE DEF a
<1>6. a \in 1 .. Len(all) /\ a \in Nat /\ Len(all) \in Nat
  BY <1>1, <1>3, <1>4, <1>5
<1> DEFINE m == Len(k) + 1 - a + 1
<1>7. m \in Nat /\ m >= 1 /\ m <= CachedPages /\ (CachedPages > 1 /\ Len(k) > 0 => m >= 2)
      /\ a + m - 1 = Len(k) + 1
  BY <1>1, <1>3, <1>5
<1>8. r \in Seq(Nat) /\ Len(r) = m /\ DOMAIN r = 1 .. m /\ \A i \in 1 .. m : r[i] = all[a + i - 1]
  <2>1. r = [i \in 1 .. Len(all) - a + 1 |-> all[i + a - 1]]
    BY <1>4, <1>6
  <2>2. Len(all) - a + 1 = m /\ m \in Nat
    BY <1>3, <1>4, <1>6, <1>7
  <2> HIDE DEF r, m
  <2>3. r = [i \in 1 .. m |-> all[i + a - 1]]
    BY <2>1, <2>2
  <2>4. \A i \in 1 .. m : all[i + a - 1] \in Nat /\ i + a - 1 = a + i - 1
    <3>1. ASSUME NEW i \in 1 .. m PROVE i + a - 1 \in 1 .. Len(all) /\ i + a - 1 = a + i - 1
      BY <1>3, <1>4, <1>6, <2>2
    <3>2. QED BY <1>4, <3>1
  <2>5. r \in [1 .. m -> Nat]
    BY <2>3, <2>4
  <2>6. QED BY <2>2, <2>3, <2>4, <2>5
<1> HIDE DEF r, m
<1>9. \A i \in 1 .. m : a + i - 1 \in 1 .. Len(k) + 1 /\ a + i - 1 \in Int
  BY <1>3, <1>4, <1>6, <1>7
<1>10. latest \notin ToSet(k)
  BY <1>2 DEF Left
<1>11. \A i, j \in 1 .. Len(k) + 1 : all[i] = all[j] => i = j
  <2>1. ASSUME NEW i \in 1 .. Len(k) + 1, NEW j \in 1 .. Len(k) + 1, all[i] = all[j] PROVE i = j
    <3>1. \A h \in 1 .. Len(k) : k[h] # latest
      BY <1>3, <1>10 DEF ToSet
    <3>2. (i \in 1 .. Len(k) \/ i = Len(k) + 1) /\ (j \in 1 .. Len(k) \/ j = Len(k) + 1)
      BY <1>3
    <3>3. CASE i \in 1 .. Len(k) /\ j \in 1 .. Len(k)
      BY <1>2, <1>3, <1>4, <2>1, <3>3 DEF Left, Distinct
    <3>4. CASE i = Len(k) + 1 /\ j \in 1 .. Len(k)
      BY <1>4, <2>1, <3>1, <3>4
    <3>5. CASE i \in 1 .. Len(k) /\ j = Len(k) + 1
      BY <1>4, <2>1, <3>1, <3>5
    <3>6. QED BY <3>2, <3>3, <3>4, <3>5
  <2>2. QED BY <2>1
<1>12. Distinct(r)
  <2>1. ASSUME NEW i \in 1 .. m, NEW j \in 1 .. m, r[i] = r[j] PROVE i = j
    <3>1. a + i - 1 = a + j - 1
      BY <1>8, <1>9, <1>11, <2>1
    <3>2. QED BY <1>6, <3>1
  <2>2. QED BY <1>8, <2>1 DEF Distinct
<1>13. r[Len(r)] = latest
  BY <1>4, <1>7, <1>8
<1>14. ASSUME NEW x \in ToSet(r) PROVE x = latest \/ x \in ToSet(recent)
  <2>1. PICK i \in 1 .. m : x = r[i]
    BY <1>8 DEF ToSet
  <2>2. x = all[a + i - 1] /\ a + i - 1 \in 1 .. Len(k) + 1
    BY <1>8, <1>9, <2>1
  <2>3. CASE a + i - 1 = Len(k) + 1
    BY <1>4, <2>2, <2>3
  <2>4. CASE a + i - 1 \in 1 .. Len(k)
    <3>1. x \in ToSet(k)
      BY <1>3, <1>4, <2>2, <2>4 DEF ToSet
    <3>2. PICK j \in 1 .. n : x = recent[j]
      BY <1>2, <3>1 DEF Left
    <3>3. QED BY <1>1, <3>2 DEF ToSet
  <2>5. QED BY <1>3, <2>2, <2>3, <2>4
<1>15. ASSUME CachedPages > 1, n > 0 PROVE recent[n] \in ToSet(r)
  <2>1. CASE recent[n] = latest
    BY <1>7, <1>8, <1>13, <2>1 DEF ToSet
  <2>2. CASE recent[n] # latest
    <3>1. Len(k) > 0 /\ k[Len(k)] = recent[n]
      BY <1>2, <1>15, <2>2 DEF Left
    <3>2. m - 1 \in 1 .. m /\ a + (m - 1) - 1 = Len(k) /\ Len(k) \in 1 .. Len(k)
      BY <1>3, <1>6, <1>7, <1>15, <3>1
    <3>3. r[m - 1] = recent[n]
      BY <1>4, <1>8, <3>1, <3>2
    <3>4. QED BY <1>8, <3>2, <3>3 DEF ToSet
  <2>3. QED BY <2>1, <2>2
<1>16. KeepRecent(latest) = r
  BY DEF KeepRecent, r, a, all, k
<1>17. QED BY <1>7, <1>8, <1>12, <1>13, <1>14, <1>15, <1>16 DEF Kept, n

\* A sequence without repetitions has as many numbers as places.
LEMMA CountDistinct ==
  ASSUME NEW s \in Seq(Nat), Distinct(s)
  PROVE  Cardinality(ToSet(s)) = Len(s)
<1>1. Len(s) \in Nat /\ DOMAIN s = 1 .. Len(s)
  OBVIOUS
<1>2. s \in [1 .. Len(s) -> ToSet(s)]
  BY DEF ToSet
<1>3. s \in Injection(1 .. Len(s), ToSet(s))
  BY <1>1, <1>2 DEF Injection, IsInjective, Distinct
<1>4. s \in Surjection(1 .. Len(s), ToSet(s))
  BY <1>1, <1>2 DEF Surjection, ToSet
<1>5. ExistsBijection(1 .. Len(s), ToSet(s))
  BY <1>3, <1>4 DEF Bijection, ExistsBijection
<1>6. IsFiniteSet(1 .. Len(s)) /\ Cardinality(1 .. Len(s)) = Len(s)
  <2>1. 1 \in Int /\ Len(s) \in Int
    BY <1>1
  <2>2. /\ IsFiniteSet(1 .. Len(s))
        /\ Cardinality(1 .. Len(s)) = IF 1 > Len(s) THEN 0 ELSE Len(s) - 1 + 1
    BY <2>1, FS_Interval
  <2>3. QED BY <1>1, <2>2
<1>7. QED BY <1>5, <1>6, FS_Bijection

-------------------------------------------------------------------------------
(* Requests, by their fields.                                                *)

FetchFields == {"state", "answer", "offset", "count", "packets"}

\* A request for count packets from offset on, running or answered.
RequestFor(f, offset, count) ==
  /\ DOMAIN f = FetchFields /\ f.state = "loading" /\ f.packets = <<>>
  /\ f.offset = offset /\ f.count = count

Ready(f, packets) == DOMAIN f = FetchFields /\ f.state = "ready" /\ f.packets = packets

\* What a page may be, and the request of the first page.
PageFetch(f, p) ==
  \/ f = Failed
  \/ Ready(f, PagePackets(p))
  \/ RequestFor(f, PageRequest(G, p).offset, PageRequest(G, p).count)

ProbeFetch(f) == f = NoFetch \/ f = Failed \/ RequestFor(f, file.offset, PageSize)

\* No request, and one that failed.
LEMMA NoRequest ==
  /\ DOMAIN NoFetch = FetchFields /\ NoFetch.state = "none" /\ NoFetch.packets = <<>>
  /\ Failed.state = "failed" /\ Failed.packets = <<>>
BY DEF NoFetch, Failed, FetchFields

\* A request runs once it is started.
LEMMA RequestStarts ==
  ASSUME NEW offset, NEW count, NEW f \in Started(offset, count)
  PROVE  f = Failed \/ RequestFor(f, offset, count)
BY NoRequest DEF Started, Loading, RequestFor, FetchFields

\* A request is answered, and it stays the same request.
LEMMA RequestAnswered ==
  ASSUME NEW offset, NEW count, NEW f, RequestFor(f, offset, count), NEW answer
  PROVE  RequestFor(Answered(f, answer), offset, count)
BY DEF Answered, RequestFor, FetchFields

\* An answer is taken in.
LEMMA RequestPolled ==
  ASSUME NEW offset, NEW count, NEW f, RequestFor(f, offset, count)
  PROVE  Poll(f) = f \/ Poll(f) = Failed \/ Ready(Poll(f), ReadPage(file, offset, count).packets)
<1>1. ASSUME NEW packets PROVE Ready([NoFetch EXCEPT !.state = "ready", !.packets = packets], packets)
  BY NoRequest DEF Ready, FetchFields
<1>2. QED BY <1>1 DEF Poll, RequestFor

\* A page that is polled is still that page's.
LEMMA PollPage ==
  ASSUME FileTypes, NEW p \in Pages, NEW f, PageFetch(f, p)
  PROVE  PageFetch(Poll(f), p)
<1> DEFINE asked == PageRequest(G, p)
<1>1. CASE RequestFor(f, asked.offset, asked.count)
  <2>1. ReadPage(file, asked.offset, asked.count).packets = PagePackets(p)
    BY ReadsThePage
  <2>2. Poll(f) = f \/ Poll(f) = Failed
          \/ Ready(Poll(f), ReadPage(file, asked.offset, asked.count).packets)
    BY <1>1, RequestPolled
  <2>3. QED BY <1>1, <2>1, <2>2 DEF PageFetch
<1>2. CASE f = Failed
  BY <1>2, NoRequest DEF Poll, PageFetch
<1>3. CASE Ready(f, PagePackets(p))
  BY <1>3 DEF Poll, PageFetch, Ready
<1>4. QED BY <1>1, <1>2, <1>3 DEF PageFetch

\* The packets a page holds are packets of the range.
LEMMA PageHolds ==
  ASSUME FileTypes, NEW p \in Pages, NEW f, PageFetch(f, p)
  PROVE  /\ f.state = "ready" => f.packets = PagePackets(p)
         /\ ToSet(f.packets) \subseteq RangePackets
         /\ \A o \in ToSet(f.packets) : o \in Int
         /\ Running(f) => \A answer \in {"ok", "error"} : PageFetch(Answered(f, answer), p)
<1> DEFINE asked == PageRequest(G, p)
<1>1. PacketsOfPage(p) \subseteq RangePackets /\ RangePackets \subseteq Int
  <2>1. file.offset \in Int /\ RangeEnd - PacketSize \in Int
    BY EndOfRange, PagesAssumption DEF FileTypes
  <2>2. QED BY <2>1 DEF PacketsOfPage, RangePackets
<1>2. ToSet(<<>>) = {}
  BY DEF ToSet
<1>3. CASE RequestFor(f, asked.offset, asked.count)
  <2>1. f.state = "loading" /\ f.packets = <<>>
    BY <1>3 DEF RequestFor
  <2>2. ASSUME NEW answer \in {"ok", "error"} PROVE PageFetch(Answered(f, answer), p)
    BY <1>3, RequestAnswered DEF PageFetch
  <2>3. QED BY <1>2, <2>1, <2>2
<1>4. CASE f = Failed
  BY <1>2, <1>4, NoRequest DEF Running
<1>5. CASE Ready(f, PagePackets(p))
  <2>1. f.state = "ready" /\ f.packets = PagePackets(p)
    BY <1>5 DEF Ready
  <2>2. ToSet(PagePackets(p)) = PacketsOfPage(p)
    BY PageShows
  <2>3. QED BY <1>1, <2>1, <2>2 DEF Running
<1>6. QED BY <1>3, <1>4, <1>5 DEF PageFetch

-------------------------------------------------------------------------------
(* The inductive invariant.                                                  *)

\* Before the first page: nothing is shown, and the packet asked for waits.
Unknown ==
  /\ geometry = NoGeometry /\ page = 0 /\ pages = [p \in {} |-> NoFetch] /\ recent = <<>>
  /\ selected = None /\ shown = None /\ pending = wanted /\ wanted \in Int
  /\ ProbeFetch(probe)

\* The pages kept, each with its packets or a request for them.
KnownPages ==
  /\ geometry = G /\ page \in Pages
  /\ recent \in Seq(Nat) /\ Distinct(recent) /\ Len(recent) >= 1 /\ Len(recent) <= CachedPages
  /\ ToSet(recent) \subseteq Pages /\ DOMAIN pages = ToSet(recent)
  /\ \A p \in DOMAIN pages : PageFetch(pages[p], p)
  /\ shown # None => shown = recent[Len(recent)]

\* The packet asked for.
KnownPacket ==
  /\ pending = None /\ selected \in Int /\ wanted \in Int
  /\ wanted \in RangePackets => selected = wanted
  /\ selected # None => selected \in RangePackets

PagesInv ==
  /\ FileTypes
  /\ ~geometry.known => Unknown
  /\ geometry.known => KnownPages /\ KnownPacket

\* A step that keeps the file keeps what is defined by it.
LEMMA SameFile ==
  ASSUME UNCHANGED file
  PROVE  /\ FileTypes' = FileTypes /\ G' = G /\ Pages' = Pages /\ RangePackets' = RangePackets
         /\ \A f : ProbeFetch(f)' = ProbeFetch(f)
         /\ \A p, f : PageFetch(f, p)' = PageFetch(f, p)
<1>1. RangeEnd' = RangeEnd /\ First' = First
  BY DEF RangeEnd, First, AlignUp
<1>2. G' = G
  BY <1>1 DEF G, GeometryFrom
<1>3. \A p : PagePackets(p)' = PagePackets(p)
  BY <1>2 DEF PagePackets, SizeOf, OffsetOf, PageStart
<1>4. QED BY <1>1, <1>2, <1>3 DEF FileTypes, Pages, PageCount, RangePackets, ProbeFetch, PageFetch,
                              PageRequest, PageStart, RequestFor, Ready, Failed, NoFetch

\* A new screen shows nothing yet.
LEMMA PagesInvInit == PagesInit => PagesInv
<1> SUFFICES ASSUME PagesInit PROVE PagesInv
  OBVIOUS
<1>1. FileTypes
  <2>1. PICK f \in Files, r \in {x \in Ranges : \A g \in Files : x.offset < g.size} :
          file = [size |-> f.size, phase |-> f.phase, offset |-> r.offset, limit |-> r.limit]
    BY DEF PagesInit
  <2>2. f.size \in Nat /\ f.phase \in 0 .. PacketSize - 1 /\ r.offset \in Nat /\ r.limit \in Nat
        /\ r.offset < f.size
    BY PagesAssumption
  <2>3. QED BY <2>1, <2>2 DEF FileTypes
<1>2. geometry.known = FALSE
  BY DEF PagesInit, NoGeometry
<1>3. Unknown
  BY DEF PagesInit, Unknown, ProbeFetch, None
<1>4. QED BY <1>1, <1>2, <1>3 DEF PagesInv

\* Before the first page is known: nothing but the request, until it is read.
LEMMA ProbeKeepsInv ==
  ASSUME PagesInv, UpdateProbe
  PROVE  PagesInv'
<1>1. UNCHANGED <<file, opens, wanted, shown>> /\ ~geometry.known /\ FileTypes /\ Unknown
  BY DEF UpdateProbe, PagesInv
<1>2. FileTypes' /\ G' = G /\ Pages' = Pages /\ RangePackets' = RangePackets
  BY <1>1, SameFile
<1>3. ASSUME probe' = Failed \/ RequestFor(probe', file.offset, PageSize),
             UNCHANGED <<geometry, page, pages, recent, selected, detail, pending>>
      PROVE  PagesInv'
  <2>1. ProbeFetch(probe)'
    BY <1>1, <1>3 DEF ProbeFetch, RequestFor, Failed, NoFetch
  <2>2. Unknown'
    BY <1>1, <1>3, <2>1 DEF Unknown, NoGeometry, NoFetch, None
  <2>3. geometry'.known = FALSE
    BY <1>3, <1>1
  <2>4. QED BY <1>2, <2>2, <2>3 DEF PagesInv
<1>4. CASE /\ probe.state = "none" /\ probe' \in Started(file.offset, PageSize)
           /\ UNCHANGED <<geometry, page, pages, recent, selected, detail, pending>>
  BY <1>3, <1>4, RequestStarts
<1>5. CASE /\ probe.state # "none" /\ Poll(probe).state # "ready" /\ probe' = Poll(probe)
           /\ UNCHANGED <<geometry, page, pages, recent, selected, detail, pending>>
  <2>1. probe = Failed \/ RequestFor(probe, file.offset, PageSize)
    BY <1>1, <1>5, NoRequest DEF Unknown, ProbeFetch
  <2>2. CASE probe = Failed
    BY <1>3, <1>5, <2>2, NoRequest DEF Poll
  <2>3. CASE RequestFor(probe, file.offset, PageSize)
    <3>1. \/ Poll(probe) = probe \/ Poll(probe) = Failed
          \/ Ready(Poll(probe), ReadPage(file, file.offset, PageSize).packets)
      BY <2>3, RequestPolled
    <3>2. QED BY <1>3, <1>5, <2>3, <3>1 DEF Ready
  <2>4. QED BY <2>1, <2>2, <2>3
<1>6. CASE /\ Poll(probe).state = "ready" /\ probe' = NoFetch
           /\ AcceptFirstPage(ReadPage(file, probe.offset, probe.count))
  <2>1. RequestFor(probe, file.offset, PageSize)
    BY <1>1, <1>6, NoRequest DEF Unknown, ProbeFetch, Poll
  <2> DEFINE answer == ReadPage(file, probe.offset, probe.count)
             g == GeometryFrom(IF answer.first = None THEN RangeEnd ELSE answer.first)
             kept == SubSeq(answer.packets, 1, Min({Len(answer.packets), g.count, PageSize}))
  <2>2. answer = ReadPage(file, file.offset, PageSize)
    BY <2>1 DEF RequestFor
  <2>3. AcceptFirstPage(answer)
    BY <1>6
  <2> HIDE DEF answer
  <2>4. g = G /\ kept = PagePackets(0)
    <3>1. g = G
      BY <1>1, <2>2, FirstReads
    <3>2. SubSeq(answer.packets, 1, Min({Len(answer.packets), G.count, PageSize})) = PagePackets(0)
      BY <1>1, <2>2, FirstReads
    <3>3. QED BY <3>1, <3>2
  <2>5. /\ geometry' = g
        /\ pages' = [p \in {0} |-> [NoFetch EXCEPT !.state = "ready", !.packets = kept]]
        /\ recent' = Append(recent, 0)
        /\ IF pending = None THEN UNCHANGED <<page, selected, detail, pending>> ELSE GoTo(g, pending)
    BY <2>3 DEF AcceptFirstPage
  <2> HIDE DEF g, kept
  <2>6. 0 \in Pages
    BY <1>1, PageStarts
  <2>7. /\ geometry' = G /\ geometry'.known = TRUE /\ shown' = None /\ wanted' = wanted
        /\ page = 0 /\ selected = None /\ pending = wanted /\ wanted \in Int
    BY <1>1, <2>4, <2>5, GeometryIs DEF Unknown
  <2>8. /\ page' \in Pages /\ pending' = None /\ selected' \in Int
        /\ wanted \in RangePackets => selected' = wanted
        /\ selected' # None => selected' \in RangePackets
    <3>1. CASE pending = None
      <4>1. None \notin RangePackets /\ None \in Int
        BY <1>1, EndOfRange, PagesAssumption DEF None, RangePackets, FileTypes
      <4>2. QED BY <2>5, <2>6, <2>7, <3>1, <4>1
    <3>2. CASE pending # None /\ IndexOf(G, pending) # None
      <4>1. pending \in RangePackets /\ IndexOf(G, pending) \div PageSize \in Pages
        BY <1>1, <2>7, <3>2, IndexOfPacket
      <4>2. page' = IndexOf(G, pending) \div PageSize /\ selected' = pending /\ pending' = None
        BY <2>4, <2>5, <3>2, GeometryIs, <1>1 DEF GoTo, Select
      <4>3. QED BY <2>7, <4>1, <4>2
    <3>3. CASE pending # None /\ ~(IndexOf(G, pending) # None)
      <4>1. pending \notin RangePackets
        BY <1>1, <2>7, <3>3, IndexOfPacket
      <4>2. UNCHANGED <<page, selected>> /\ pending' = None
        BY <2>4, <2>5, <3>3, GeometryIs, <1>1 DEF GoTo
      <4>3. QED BY <2>6, <2>7, <4>1, <4>2 DEF None
    <3>4. QED BY <3>1, <3>2, <3>3
  <2>9. KnownPacket'
    BY <1>2, <2>7, <2>8 DEF KnownPacket, None
  <2>10. KnownPages'
    <3>1. recent' = <<0>>
      BY <1>1, <2>5 DEF Unknown
    <3>2. recent' \in Seq(Nat) /\ Distinct(recent') /\ Len(recent') = 1 /\ ToSet(recent') = {0}
      <4>1. /\ <<0>> \in Seq(Nat) /\ Len(<<0>>) = 1 /\ DOMAIN <<0>> = 1 .. 1 /\ <<0>>[1] = 0
        OBVIOUS
      <4>2. 1 .. 1 = {1}
        OBVIOUS
      <4>3. QED BY <3>1, <4>1, <4>2 DEF Distinct, ToSet
    <3>3. DOMAIN pages' = {0} /\ PageFetch(pages'[0], 0)
      <4>1. Ready([NoFetch EXCEPT !.state = "ready", !.packets = kept], kept)
        BY NoRequest DEF Ready, FetchFields
      <4>2. QED BY <2>4, <2>5, <4>1 DEF PageFetch
    <3>4. \A p \in DOMAIN pages' : PageFetch(pages[p], p)'
      BY <1>1, <3>3, SameFile
    <3>5. CachedPages \in Nat \ {0}
      BY PagesAssumption
    <3>6. QED BY <1>2, <2>6, <2>7, <2>8, <3>2, <3>3, <3>4, <3>5 DEF KnownPages, None, Distinct
  <2>11. QED BY <1>2, <2>7, <2>9, <2>10 DEF PagesInv
<1>7. QED BY <1>4, <1>5, <1>6 DEF UpdateProbe

\* A frame: the page shown comes last of those kept, and each page kept is polled.
LEMMA ScreenKeepsInv ==
  ASSUME PagesInv, UpdateScreen
  PROVE  /\ PagesInv'
         /\ CachedPages > 1 => shown \notin DOMAIN pages \ DOMAIN pages'
<1>1. UNCHANGED <<file, geometry, probe, page, selected, pending, opens, wanted>>
      /\ geometry.known /\ FileTypes /\ KnownPages /\ KnownPacket
      /\ recent' = KeepRecent(page) /\ shown' = page
  BY DEF UpdateScreen, PagesInv
<1>2. FileTypes' /\ G' = G /\ Pages' = Pages /\ RangePackets' = RangePackets
  BY <1>1, SameFile
<1>3. page \in Nat /\ page \in Pages
  BY <1>1 DEF KnownPages, Pages
<1>4. Kept(recent', recent, page)
  BY <1>1, <1>3, KeepsRecent DEF KnownPages
<1> DEFINE asked == PageRequest(geometry, page)
<1>5. PICK new \in IF page \in DOMAIN pages THEN {pages[page]} ELSE Started(asked.offset, asked.count) :
        pages' = [p \in ToSet(recent') |-> Poll(IF p = page THEN new ELSE pages[p])]
  BY DEF UpdateScreen
<1>6. PageFetch(new, page)
  <2>1. CASE page \in DOMAIN pages
    BY <1>1, <1>5, <2>1 DEF KnownPages
  <2>2. CASE page \notin DOMAIN pages
    <3>1. new \in Started(asked.offset, asked.count)
      BY <1>5, <2>2
    <3>2. new = Failed \/ RequestFor(new, asked.offset, asked.count)
      BY <3>1, RequestStarts
    <3>3. geometry = G
      BY <1>1 DEF KnownPages
    <3>4. QED BY <3>2, <3>3 DEF PageFetch
  <2>3. QED BY <2>1, <2>2
<1>7. \A p \in ToSet(recent') : p \in Pages /\ (p # page => p \in DOMAIN pages)
  BY <1>1, <1>3, <1>4 DEF Kept, KnownPages
<1>8. DOMAIN pages' = ToSet(recent')
  BY <1>5
<1>9. ASSUME NEW p \in DOMAIN pages' PROVE PageFetch(pages[p], p)'
  <2> DEFINE f == IF p = page THEN new ELSE pages[p]
  <2>1. PageFetch(f, p)
    BY <1>1, <1>6, <1>7, <1>8 DEF KnownPages
  <2>2. pages'[p] = Poll(f)
    BY <1>5, <1>8
  <2> HIDE DEF f
  <2>3. PageFetch(Poll(f), p)
    BY <1>1, <1>7, <1>8, <2>1, PollPage
  <2>4. QED BY <1>1, <2>2, <2>3, SameFile
<1>10. KnownPages'
  <2>1. ToSet(recent') \subseteq Pages
    BY <1>7
  <2>2. /\ recent' \in Seq(Nat) /\ Distinct(recent') /\ Len(recent') >= 1 /\ Len(recent') <= CachedPages
        /\ recent'[Len(recent')] = page
    BY <1>4 DEF Kept
  <2>3. geometry' = G' /\ page' \in Pages'
    BY <1>1, <1>2, <1>3 DEF KnownPages
  <2>4. QED BY <1>1, <1>2, <1>8, <1>9, <2>1, <2>2, <2>3 DEF KnownPages, Distinct, None
<1>11. KnownPacket'
  BY <1>1, <1>2 DEF KnownPacket, None
<1>12. PagesInv'
  BY <1>1, <1>2, <1>10, <1>11 DEF PagesInv
<1>13. ASSUME CachedPages > 1 PROVE shown \notin DOMAIN pages \ DOMAIN pages'
  <2>1. CASE shown = None
    <3>1. None \notin DOMAIN pages
      BY <1>1 DEF KnownPages, Pages, None
    <3>2. QED BY <2>1, <3>1
  <2>2. CASE shown # None
    <3>1. shown = recent[Len(recent)] /\ Len(recent) > 0
      <4>1. Len(recent) \in Nat
        BY <1>1 DEF KnownPages
      <4>2. QED BY <1>1, <2>2, <4>1 DEF KnownPages
    <3>2. shown \in ToSet(recent')
      BY <1>4, <1>13, <3>1 DEF Kept
    <3>3. QED BY <1>8, <3>2
  <2>3. QED BY <2>1, <2>2
<1>14. QED BY <1>12, <1>13

\* Every other step leaves the pages kept and their order alone.
LEMMA OthersKeepInv ==
  ASSUME PagesInv,
         \/ Turn \/ ClickRow \/ AnswerProbe \/ AnswerDetail \/ UNCHANGED pageVars
         \/ \E offset \in 0 .. file.size - 1 : Open(offset)
         \/ \E p \in DOMAIN pages : AnswerPage(p)
  PROVE  PagesInv' /\ DOMAIN pages' = DOMAIN pages
<1>1. UNCHANGED <<file, geometry, recent, shown>>
  BY DEF Turn, TurnTo, ClickRow, AnswerProbe, AnswerDetail, Open, AnswerPage, pageVars
<1>2. FileTypes
  BY DEF PagesInv
<1>3. FileTypes' /\ G' = G /\ Pages' = Pages /\ RangePackets' = RangePackets
  BY <1>1, <1>2, SameFile
\* Steps that change no page: what is left to show of them.
<1>4. ASSUME UNCHANGED pages, geometry.known, page' \in Pages, KnownPacket'
      PROVE  PagesInv' /\ DOMAIN pages' = DOMAIN pages
  <2>1. KnownPages
    BY <1>4 DEF PagesInv
  <2>2. \A p \in DOMAIN pages' : PageFetch(pages[p], p)'
    <3>1. ASSUME NEW p \in DOMAIN pages PROVE PageFetch(pages[p], p)'
      <4>1. PageFetch(pages[p], p)
        BY <2>1 DEF KnownPages
      <4>2. pages'[p] = pages[p]
        BY <1>4
      <4>3. QED BY <1>1, <4>1, <4>2, SameFile
    <3>2. QED BY <1>4, <3>1
  <2>3. KnownPages'
    BY <1>1, <1>3, <1>4, <2>1, <2>2 DEF KnownPages, Distinct, None
  <2>4. QED BY <1>1, <1>3, <1>4, <2>3 DEF PagesInv
<1>5. ASSUME UNCHANGED <<pages, page, selected, pending, wanted>>, geometry.known
      PROVE  PagesInv' /\ DOMAIN pages' = DOMAIN pages
  <2>1. KnownPages /\ KnownPacket
    BY <1>5 DEF PagesInv
  <2>2. page' \in Pages
    BY <1>5, <2>1 DEF KnownPages
  <2>3. KnownPacket'
    BY <1>3, <1>5, <2>1 DEF KnownPacket, None
  <2>4. QED BY <1>4, <1>5, <2>2, <2>3
<1>6. ASSUME ~geometry.known, UNCHANGED <<pages, page, selected>>, pending' = wanted', wanted' \in Int,
             ProbeFetch(probe')
      PROVE  PagesInv' /\ DOMAIN pages' = DOMAIN pages
  <2>1. Unknown
    BY <1>6 DEF PagesInv
  <2>2. ProbeFetch(probe)'
    BY <1>1, <1>6, SameFile
  <2>3. Unknown'
    BY <1>1, <1>6, <2>1, <2>2 DEF Unknown, NoGeometry, NoFetch, None
  <2>4. QED BY <1>1, <1>3, <1>6, <2>3 DEF PagesInv
<1>7. CASE Turn
  <2>1. /\ geometry.known /\ UNCHANGED <<pages, selected, pending, wanted>>
    BY <1>7 DEF Turn, TurnTo
  <2>2. KnownPages /\ KnownPacket
    BY <2>1 DEF PagesInv
  <2>3. geometry = G /\ page \in Nat /\ page < PageCount(G) /\ PageCount(G) \in Int
    <3>1. geometry = G /\ page \in Pages
      BY <2>2 DEF KnownPages
    <3>2. PageCount(G) \in Int
      <4>1. G.count + PageSize - 1 \in Int /\ PageSize \in Nat \ {0}
        BY <1>2, GeometryIs, PagesAssumption
      <4>2. (G.count + PageSize - 1) \div PageSize \in Int
        BY <4>1, Divided
      <4>3. QED BY <4>2, MaxOfTwo DEF PageCount
    <3>3. QED BY <3>1, <3>2 DEF Pages
  <2>4. page' \in Pages
    BY <1>7, <2>3 DEF Turn, TurnTo, Pages
  <2>5. KnownPacket'
    BY <1>3, <2>1, <2>2 DEF KnownPacket, None
  <2>6. QED BY <1>4, <2>1, <2>4, <2>5
<1>8. CASE ClickRow
  <2>1. PICK offset \in ToSet(pages[page].packets) : Select(offset) /\ wanted' = offset
    BY <1>8 DEF ClickRow
  <2>2. geometry.known /\ page \in DOMAIN pages /\ UNCHANGED <<page, pages, pending>>
        /\ KnownPages /\ KnownPacket
    BY <1>8 DEF ClickRow, PagesInv
  <2>3. page \in Pages /\ PageFetch(pages[page], page)
    BY <2>2 DEF KnownPages
  <2>4. offset \in RangePackets /\ offset \in Int
    BY <1>2, <2>1, <2>3, PageHolds
  <2>5. KnownPacket'
    BY <1>3, <2>1, <2>2, <2>4 DEF KnownPacket, Select, None
  <2>6. QED BY <1>4, <2>2, <2>3, <2>5
<1>9. ASSUME NEW offset \in 0 .. file.size - 1, Open(offset)
      PROVE  PagesInv' /\ DOMAIN pages' = DOMAIN pages
  <2>1. /\ GoTo(geometry, offset)
        /\ wanted' = IF geometry.known /\ IndexOf(geometry, offset) = None THEN wanted ELSE offset
        /\ UNCHANGED <<probe, pages>> /\ offset \in Int
    <3>1. file.size \in Int
      BY <1>2 DEF FileTypes
    <3>2. QED BY <1>9, <3>1 DEF Open
  <2>2. CASE ~geometry.known
    <3>1. UNCHANGED <<page, selected>> /\ pending' = offset /\ wanted' = offset
      BY <2>1, <2>2 DEF GoTo
    <3>2. ProbeFetch(probe')
      BY <2>1, <2>2 DEF PagesInv, Unknown
    <3>3. QED BY <1>6, <2>1, <2>2, <3>1, <3>2
  <2>3. CASE geometry.known /\ IndexOf(geometry, offset) = None
    <3>1. UNCHANGED <<page, selected>> /\ pending' = None /\ wanted' = wanted
      BY <2>1, <2>3 DEF GoTo
    <3>2. pending = None
      BY <2>3 DEF PagesInv, KnownPacket
    <3>3. QED BY <1>5, <2>1, <2>3, <3>1, <3>2
  <2>4. CASE geometry.known /\ IndexOf(geometry, offset) # None
    <3>1. geometry = G
      BY <2>4 DEF PagesInv, KnownPages
    <3>2. offset \in RangePackets /\ IndexOf(G, offset) \div PageSize \in Pages
      BY <1>2, <2>1, <2>4, <3>1, IndexOfPacket
    <3>3. page' = IndexOf(G, offset) \div PageSize /\ selected' = offset /\ pending' = None /\ wanted' = offset
      BY <2>1, <2>4, <3>1 DEF GoTo, Select
    <3>4. KnownPacket'
      BY <1>3, <2>1, <3>2, <3>3 DEF KnownPacket, None
    <3>5. QED BY <1>4, <2>1, <2>4, <3>2, <3>3, <3>4
  <2>5. QED BY <2>2, <2>3, <2>4
<1>10. CASE AnswerProbe
  <2>1. PICK answer \in {"ok", "error"} : probe' = Answered(probe, answer)
    BY <1>10 DEF AnswerProbe
  <2>2. UNCHANGED <<page, pages, selected, pending, wanted>> /\ Running(probe)
    BY <1>10 DEF AnswerProbe
  <2>3. CASE geometry.known
    BY <1>5, <2>2, <2>3
  <2>4. CASE ~geometry.known
    <3>1. Unknown
      BY <2>4 DEF PagesInv
    <3>2. RequestFor(probe, file.offset, PageSize)
      BY <2>2, <3>1, NoRequest DEF Unknown, ProbeFetch, Running
    <3>3. ProbeFetch(probe')
      BY <2>1, <3>2, RequestAnswered DEF ProbeFetch
    <3>4. QED BY <1>6, <2>2, <2>4, <3>1, <3>3 DEF Unknown
  <2>5. QED BY <2>3, <2>4
<1>11. ASSUME NEW q \in DOMAIN pages, AnswerPage(q)
       PROVE  PagesInv' /\ DOMAIN pages' = DOMAIN pages
  <2>1. PICK answer \in {"ok", "error"} : pages' = [pages EXCEPT ![q] = Answered(@, answer)]
    BY <1>11 DEF AnswerPage
  <2>2. Running(pages[q]) /\ UNCHANGED <<page, selected, pending, wanted>>
    BY <1>11 DEF AnswerPage
  <2>3. geometry.known
    BY DEF PagesInv, Unknown
  <2>4. KnownPages /\ KnownPacket
    BY <2>3 DEF PagesInv
  <2>5. DOMAIN pages' = DOMAIN pages
    BY <2>1
  <2>6. ASSUME NEW p \in DOMAIN pages' PROVE PageFetch(pages[p], p)'
    <3>1. p \in DOMAIN pages /\ p \in Pages /\ PageFetch(pages[p], p)
      BY <2>4, <2>5 DEF KnownPages
    <3>2. CASE p = q
      <4>1. pages'[p] = Answered(pages[q], answer)
        BY <2>1, <3>1, <3>2
      <4>2. PageFetch(Answered(pages[q], answer), q)
        BY <1>2, <2>2, <3>1, <3>2, PageHolds
      <4>3. QED BY <1>1, <3>2, <4>1, <4>2, SameFile
    <3>3. CASE p # q
      <4>1. pages'[p] = pages[p]
        BY <2>1, <3>1, <3>3
      <4>2. QED BY <1>1, <3>1, <4>1, SameFile
    <3>4. QED BY <3>2, <3>3
  <2>7. KnownPages'
    BY <1>1, <1>3, <2>2, <2>4, <2>5, <2>6 DEF KnownPages, Distinct, None
  <2>8. KnownPacket'
    BY <1>3, <2>2, <2>4 DEF KnownPacket, None
  <2>9. QED BY <1>1, <1>3, <2>3, <2>5, <2>7, <2>8 DEF PagesInv
<1>12. CASE AnswerDetail \/ UNCHANGED pageVars
  <2>1. UNCHANGED <<page, pages, selected, pending, wanted, probe>>
    BY <1>12 DEF AnswerDetail, pageVars
  <2>2. CASE geometry.known
    BY <1>5, <2>1, <2>2
  <2>3. CASE ~geometry.known
    BY <1>6, <2>1, <2>3 DEF PagesInv, Unknown
  <2>4. QED BY <2>2, <2>3
<1>13. QED BY <1>7, <1>8, <1>9, <1>10, <1>11, <1>12

\* Every step keeps the invariant and the page shown.
LEMMA PagesInvNext ==
  ASSUME PagesInv, [PagesNext]_pageVars
  PROVE  /\ PagesInv'
         /\ CachedPages > 1 => shown \notin DOMAIN pages \ DOMAIN pages'
<1>1. CASE UpdateProbe
  <2>1. DOMAIN pages = {}
    BY <1>1 DEF UpdateProbe, PagesInv, Unknown
  <2>2. QED BY <1>1, <2>1, ProbeKeepsInv
<1>2. CASE UpdateScreen
  BY <1>2, ScreenKeepsInv
<1>3. CASE \/ Turn \/ ClickRow \/ AnswerProbe \/ AnswerDetail \/ UNCHANGED pageVars
           \/ \E offset \in 0 .. file.size - 1 : Open(offset)
           \/ \E p \in DOMAIN pages : AnswerPage(p)
  BY <1>3, OthersKeepInv
<1>4. QED BY <1>1, <1>2, <1>3 DEF PagesNext, Update

\* What the invariant says of the pages and of the packet.
LEMMA PagesInvImplies ==
  ASSUME PagesInv
  PROVE  /\ ShowsWhatWasAsked
         /\ DOMAIN pages = ToSet(recent)
         /\ Cardinality(DOMAIN pages) = Len(recent)
         /\ Len(recent) <= CachedPages
         /\ shown # None => shown \in DOMAIN pages
<1>1. CASE ~geometry.known
  <2>1. Unknown
    BY <1>1 DEF PagesInv
  <2>2. DOMAIN pages = {} /\ ToSet(recent) = {} /\ Len(recent) = 0 /\ shown = None
    BY <2>1 DEF Unknown, ToSet
  <2>3. ShowsWhatWasAsked
    BY <1>1, <2>1, <2>2 DEF ShowsWhatWasAsked, ShowsItsPackets, OpensWhatWasAsked, Unknown
  <2>4. 0 <= CachedPages
    BY PagesAssumption
  <2>5. QED BY <2>2, <2>3, <2>4, FS_EmptySet
<1>2. CASE geometry.known
  <2>1. FileTypes /\ KnownPages /\ KnownPacket
    BY <1>2 DEF PagesInv
  <2>2. /\ DOMAIN pages = ToSet(recent) /\ Len(recent) <= CachedPages
        /\ Cardinality(DOMAIN pages) = Len(recent)
    BY <2>1, CountDistinct DEF KnownPages
  <2>3. shown # None => shown \in DOMAIN pages
    <3>1. recent \in Seq(Nat) /\ Len(recent) >= 1 /\ (shown # None => shown = recent[Len(recent)])
      BY <2>1 DEF KnownPages
    <3>2. Len(recent) \in DOMAIN recent
      BY <3>1
    <3>3. QED BY <2>2, <3>1, <3>2 DEF ToSet
  <2>4. ASSUME NEW p \in DOMAIN pages, pages[p].state = "ready"
        PROVE  /\ ToSet(pages[p].packets) = PacketsOfPage(p)
               /\ \A i, j \in DOMAIN pages[p].packets :
                    i < j => pages[p].packets[i] < pages[p].packets[j]
    <3>1. p \in Pages /\ PageFetch(pages[p], p)
      BY <2>1 DEF KnownPages
    <3>2. pages[p].packets = PagePackets(p)
      BY <2>1, <2>4, <3>1, PageHolds
    <3>3. QED BY <2>1, <3>1, <3>2, PageShows
  <2>5. UNION {PacketsOfPage(p) : p \in 0 .. PageCount(geometry) - 1} = RangePackets
    BY <2>1, PagesShowAll DEF KnownPages, Pages
  <2>6. ShowsItsPackets
    BY <2>4, <2>5 DEF ShowsItsPackets
  <2>7. OpensWhatWasAsked
    BY <1>2, <2>1 DEF OpensWhatWasAsked, KnownPacket
  <2>8. QED BY <2>2, <2>3, <2>6, <2>7 DEF ShowsWhatWasAsked
<1>3. QED BY <1>1, <1>2

\* Every page that is shown holds the packets of the range with its numbers, and the
\* packet asked for last is the selected one, however requests are answered and whatever
\* the user opens, clicks or pages to: packet_pages.rs with tsparser/packets.go.
THEOREM PagesShowWhatWasAsked == PagesSpec => []ShowsWhatWasAsked
<1>1. PagesInit => PagesInv
  BY PagesInvInit
<1>2. PagesInv /\ [PagesNext]_pageVars => PagesInv'
  BY PagesInvNext
<1>3. PagesInv => ShowsWhatWasAsked
  BY PagesInvImplies
<1>4. QED BY <1>1, <1>2, <1>3, PTL DEF PagesSpec

\* The pages kept never outgrow the setting, and the page of the last frame stays.
THEOREM PagesKeepThoseViewed == PagesSpec => KeepsPagesViewed
<1>1. PagesInit => PagesInv
  BY PagesInvInit
<1>2. PagesInv /\ [PagesNext]_pageVars => PagesInv'
  BY PagesInvNext
<1>3. PagesInv => /\ DOMAIN pages = ToSet(recent)
                  /\ Cardinality(DOMAIN pages) = Len(recent)
                  /\ Len(recent) <= CachedPages
                  /\ shown # None => shown \in DOMAIN pages
  BY PagesInvImplies
<1>4. PagesInv /\ [PagesNext]_pageVars
        => [CachedPages > 1 => shown \notin DOMAIN pages \ DOMAIN pages']_pageVars
  BY PagesInvNext
<1>5. QED BY <1>1, <1>2, <1>3, <1>4, PTL DEF PagesSpec, KeepsPagesViewed

-------------------------------------------------------------------------------
(* The check of a CLI.                                                       *)

Documents == Whole \cup {"empty", "unreadable", "rejected"}

CheckTypes ==
  /\ process \in {"running", "exited", "reaped"}
  /\ written \in Outputs
  /\ reading \in Documents \cup {"reading"}
  /\ document \in Documents \cup {"none"}
  /\ verdict \in {"polling", "exited", "accepted", "refused"}
  /\ success \in BOOLEAN /\ inherited \in BOOLEAN /\ closed \in BOOLEAN /\ late \in BOOLEAN

\* Once closed, the output stays closed; what was read is all there will be of it,
\* and only that is received.
ReadToTheEnd ==
  /\ closed => ~inherited
  /\ reading # "reading" => (closed \/ written = "excess") /\ reading = DocumentOf
  /\ document # "none" => reading = document

\* The program is reaped by the check only, and with its exit status.
ReapedOnce ==
  /\ success => process # "running"
  /\ verdict # "polling" <=> process = "reaped"

\* Each verdict has its reason, which nothing the program does later changes.
Reasons ==
  /\ verdict = "accepted" => success /\ closed /\ written = "supported"
  /\ verdict = "refused" =>
       late \/ written = "excess" \/ ~success \/ (closed /\ written # "supported")

CheckInv == CheckTypes /\ ReadToTheEnd /\ ReapedOnce /\ Reasons

\* The invariant holds when the program has just been started.
LEMMA CheckInvInit == CliCheckInit => CheckInv
BY DEF CliCheckInit, CheckInv, CheckTypes, ReadToTheEnd, ReapedOnce, Reasons, Documents, Whole, Outputs

\* Every step of the program, the reader thread and the check keeps the invariant.
LEMMA CheckInvNext == CheckInv /\ [CliCheckNext]_cliCheckVars => CheckInv'
<1> SUFFICES ASSUME CheckInv, [CliCheckNext]_cliCheckVars
             PROVE  CheckInv'
  OBVIOUS
<1> USE DEF CheckInv, CheckTypes, ReadToTheEnd, ReapedOnce, Reasons, Documents, Whole, Outputs, DocumentOf
<1>1. CASE ToolWrites
  BY <1>1 DEF ToolWrites
<1>2. CASE ToolExits
  <2>1. CheckTypes'
    BY <1>2 DEF ToolExits
  <2>2. ReapedOnce' /\ Reasons'
    BY <1>2 DEF ToolExits
  <2>3. ReadToTheEnd'
    BY <1>2 DEF ToolExits
  <2>4. QED BY <2>1, <2>2, <2>3
<1>3. CASE OutputCloses
  BY <1>3 DEF OutputCloses
<1>4. CASE ReadDocument
  BY <1>4 DEF ReadDocument
<1>5. CASE DeadlinePasses
  BY <1>5 DEF DeadlinePasses
<1>6. CASE PollTool
  <2> Received \in Documents \cup {"none"} /\ (Received # "none" => reading = Received)
    BY DEF Received
  <2>1. CASE Received = "rejected"
    <3>1. written = "excess"
      BY <2>1
    <3>2. Killed /\ document' = "rejected" /\ UNCHANGED <<written, inherited, reading, late>>
      BY <1>6, <2>1 DEF PollTool
    <3>3. QED BY <1>6, <2>1, <3>1, <3>2 DEF PollTool, Killed
  <2>2. CASE Received # "rejected" /\ process = "exited"
    BY <1>6, <2>2 DEF PollTool
  <2>3. CASE Received # "rejected" /\ process # "exited" /\ late
    BY <1>6, <2>3 DEF PollTool, Killed
  <2>4. CASE Received # "rejected" /\ process # "exited" /\ ~late
    BY <1>6, <2>4 DEF PollTool
  <2>5. QED BY <2>1, <2>2, <2>3, <2>4
<1>7. CASE AwaitOutput
  <2>1. Received # "none" => reading = Received
    BY DEF Received
  <2>2. CASE Accepts(Received)
    BY <1>7, <2>1, <2>2 DEF AwaitOutput, Accepts
  <2>3. CASE ~Accepts(Received)
    BY <1>7, <2>1, <2>3 DEF AwaitOutput, Accepts, OutputDue, Received
  <2>4. QED BY <2>2, <2>3
<1>8. CASE UNCHANGED cliCheckVars
  BY <1>8 DEF cliCheckVars
<1>9. QED
  BY <1>1, <1>2, <1>3, <1>4, <1>5, <1>6, <1>7, <1>8 DEF CliCheckNext

\* A program is accepted, refused and reaped as CheckDecides says: for every program
\* and every interleaving of its output, its exit, the reader thread and the deadline.
THEOREM CheckIsDecided == CliCheckSpec => []CheckDecides
<1>1. CheckInv => CheckDecides
  BY DEF CheckInv, ReapedOnce, Reasons, CheckDecides
<1>2. QED
  BY CheckInvInit, CheckInvNext, <1>1, PTL DEF CliCheckSpec

-------------------------------------------------------------------------------
(* The update.                                                               *)

Names ==
  {"idle", "checking", "up_to_date", "failed", "available", "installing", "installed", "downloaded"}

Phases == [name : Names, version : Nat, installable : BOOLEAN]

Messages == {<<m>> : m \in Phases}

UpdateTypes ==
  /\ phase \in Phases
  /\ receiver \in [job : {"none", "check", "install"}, message : {<<>>} \cup Messages]
  /\ published \subseteq Releases

\* What a message that waits to be taken in may say.
MessageInv ==
  /\ receiver.job = "none" => receiver.message = <<>>
  /\ receiver.message # <<>> =>
       LET message == receiver.message[1]
       IN /\ message.version # 0 => message.version > current
          /\ receiver.job = "check" => message.name \in {"failed", "up_to_date", "available"}
          /\ receiver.job = "install" => message.name \in {"failed", "installed", "downloaded"}
          /\ message.name = "installed" => kind = "in_place" /\ installed = phase.version
          /\ message.name = "downloaded" => kind = "on_exit"

\* An installation is of a version the user agreed to, in one of the two ways.
InstallInv ==
  /\ phase.name = "installing" => phase.version \in agreed
  /\ phase.name = "installed" => kind = "in_place"
  /\ onExit # 0 => kind = "on_exit"

UpdateInv == UpdateTypes /\ UpdatesInOrder /\ MessageInv /\ InstallInv

\* What the frame and the settings do to the update.
FrameOfUpdate ==
  /\ app = "open" /\ PollUpdates
  /\ UNCHANGED <<kind, installed, current, published, skipped, manual, launches, agreed>>

ForgetSkipped ==
  /\ skipped' = 0
  /\ UNCHANGED <<kind, installed, current, published, phase, manual, prompted, window, receiver,
                 onExit, app, launches, agreed>>

UserStep ==
  /\ app = "open"
  /\ \/ ClickUpdates \/ TryAgain \/ ClickInstall(running # NoJob)
     \/ Skip \/ CloseWindow \/ Restart \/ CloseApp

\* A phase about no release.
LEMMA PlainPhase ==
  ASSUME NEW name \in Names
  PROVE  Plain(name) \in Phases /\ Plain(name).name = name /\ Plain(name).version = 0
<1>1. 0 \in Nat /\ FALSE \in BOOLEAN
  OBVIOUS
<1>2. Plain(name) \in Phases
  BY <1>1, Zenon DEF Plain, Phases
<1>3. QED BY <1>2 DEF Plain

\* The invariant holds before the first launch.
LEMMA UpdateInvInit == UpdatesInit => UpdateInv
<1> SUFFICES ASSUME UpdatesInit PROVE UpdateInv
  OBVIOUS
<1>1. phase \in Phases /\ phase.name = "idle" /\ phase.version = 0
  BY PlainPhase DEF UpdatesInit, Names
<1>2. QED
  BY <1>1 DEF UpdatesInit, UpdateInv, UpdateTypes, UpdatesInOrder, ThreadOfPhase, InstalledAsAgreed,
     MessageInv, InstallInv, NoThread

\* A step of the session is one of these to the update.
LEMMA UpdateSteps ==
  ASSUME SessionNext
  PROVE  \/ Launch \/ Exit \/ FrameOfUpdate \/ ForgetSkipped \/ UserStep
         \/ AnswerCheck \/ AnswerInstall \/ Publish \/ UNCHANGED updateVars
<1>1. LaunchApp => Launch
  BY DEF LaunchApp
<1>2. Frame => FrameOfUpdate
  BY DEF Frame, FrameOfUpdate
<1>3. RestoreDefaults => ForgetSkipped
  BY DEF RestoreDefaults, ForgetSkipped
<1>4. SessionStep => UNCHANGED updateVars
  BY DEF SessionStep
<1>5. UpdateStep => UserStep \/ AnswerCheck \/ AnswerInstall \/ Publish
  BY DEF UpdateStep, UserStep, Interactive
<1>6. ExitApp => Exit
  BY DEF ExitApp
<1>7. QED
  BY <1>1, <1>2, <1>3, <1>4, <1>5, <1>6 DEF SessionNext

\* A release found is newer than the one that runs; other results name none.
LEMMA CheckResult ==
  ASSUME UpdateTypes, NEW m \in CheckResults
  PROVE  /\ m \in Phases
         /\ m.version # 0 => m.version > current
         /\ m.name \in {"failed", "up_to_date", "available"}
<1>1. CASE m \in {Plain("failed"), Plain("up_to_date")}
  BY <1>1, PlainPhase DEF Names
<1>2. CASE m \notin {Plain("failed"), Plain("up_to_date")}
  <2>1. PICK r \in Candidates : m = Offered(r)
    BY <1>2 DEF CheckResults
  <2>2. r \in Releases /\ r.version > current
    BY <2>1 DEF Candidates, UpdateTypes
  <2>3. r.version \in Nat /\ r.package \in BOOLEAN
    BY <2>2, UpdatesAssumption
  <2>4. (r.package /\ kind # "notify_only") \in BOOLEAN /\ "available" \in Names
    BY DEF Names
  <2>5. Offered(r) \in Phases
    BY <2>3, <2>4, Zenon DEF Offered, Phases
  <2>6. QED BY <2>1, <2>2, <2>5 DEF Offered
<1>3. QED BY <1>1, <1>2

\* A new check of the user keeps the invariant.
LEMMA CheckKeeps ==
  ASSUME UpdateInv, Check(TRUE), app = "open",
         phase.name \notin {"available", "installing", "installed"},
         UNCHANGED <<kind, installed, current, published, skipped, prompted, onExit, app, launches,
                     agreed>>
  PROVE  UpdateInv'
<1> USE DEF UpdateInv, UpdateTypes, UpdatesInOrder, ThreadOfPhase, InstalledAsAgreed, MessageInv,
            InstallInv
<1>1. CASE receiver.job # "none"
  BY <1>1 DEF Check
<1>2. CASE receiver.job = "none"
  BY <1>2, PlainPhase DEF Check, Thread, Names
<1>3. QED BY <1>1, <1>2

\* What the user does with the update keeps the invariant.
LEMMA UserStepKeeps == UpdateInv /\ UserStep => UpdateInv'
<1> SUFFICES ASSUME UpdateInv, UserStep PROVE UpdateInv'
  OBVIOUS
<1>1. CASE ClickUpdates
  <2>1. CASE phase.name \in {"available", "installing", "installed"}
    BY <1>1, <2>1 DEF ClickUpdates, OpenUpdates, UpdateInv, UpdateTypes, UpdatesInOrder,
       ThreadOfPhase, InstalledAsAgreed, MessageInv, InstallInv
  <2>2. CASE phase.name \notin {"available", "installing", "installed"}
    BY <1>1, <2>2, CheckKeeps DEF ClickUpdates, OpenUpdates, UserStep
  <2>3. QED BY <2>1, <2>2
<1>2. CASE TryAgain
  BY <1>2, CheckKeeps DEF TryAgain, UserStep
<1> USE DEF UserStep, UpdateInv, UpdateTypes, UpdatesInOrder, ThreadOfPhase, InstalledAsAgreed,
            MessageInv, InstallInv
<1>3. CASE ClickInstall(running # NoJob)
  <2>1. /\ phase'.name = "installing" /\ phase'.version = phase.version /\ phase' \in Phases
        /\ receiver' = [job |-> "install", message |-> <<>>]
        /\ agreed' = agreed \cup {phase.version}
    BY <1>3 DEF ClickInstall, Install, Thread, Phases, Names
  <2>2. QED BY <1>3, <2>1 DEF ClickInstall
<1>4. CASE Skip
  BY <1>4 DEF Skip
<1>5. CASE CloseWindow
  BY <1>5 DEF CloseWindow
<1>6. CASE Restart
  <2>1. CASE app' = "closing" /\ UNCHANGED phase
    BY <1>6, <2>1 DEF Restart
  <2>2. CASE phase' = Plain("failed") /\ UNCHANGED app
    BY <1>6, <2>2, PlainPhase DEF Restart, Names
  <2>3. QED BY <1>6, <2>1, <2>2 DEF Restart
<1>7. CASE CloseApp
  BY <1>7 DEF CloseApp
<1>8. QED BY <1>1, <1>2, <1>3, <1>4, <1>5, <1>6, <1>7

\* Taking in a message keeps the invariant.
LEMMA FrameKeeps == UpdateInv /\ FrameOfUpdate => UpdateInv'
<1> SUFFICES ASSUME UpdateInv, FrameOfUpdate PROVE UpdateInv'
  OBVIOUS
<1> USE DEF UpdateInv, UpdateTypes, UpdatesInOrder, ThreadOfPhase, InstalledAsAgreed, MessageInv,
            InstallInv
<1>1. CASE receiver.message = <<>>
  BY <1>1 DEF FrameOfUpdate, PollUpdates
<1>2. CASE receiver.message # <<>>
  <2> DEFINE message == receiver.message[1]
  <2>1. message \in Phases /\ receiver.job # "none"
    BY <1>2 DEF Messages
  <2>2. receiver' = NoThread
    BY <1>2 DEF FrameOfUpdate, PollUpdates
  <2>3. CASE receiver.job = "check"
    BY <1>2, <2>1, <2>2, <2>3 DEF FrameOfUpdate, PollUpdates, NoThread
  <2>4. CASE receiver.job = "install"
    BY <1>2, <2>1, <2>2, <2>4 DEF FrameOfUpdate, PollUpdates, NoThread, Phases
  <2>5. QED BY <2>1, <2>3, <2>4
<1>3. QED BY <1>1, <1>2

\* A message left by a thread keeps the invariant.
LEMMA ThreadsKeep == UpdateInv /\ (AnswerCheck \/ AnswerInstall) => UpdateInv'
<1> SUFFICES ASSUME UpdateInv, AnswerCheck \/ AnswerInstall PROVE UpdateInv'
  OBVIOUS
<1> USE DEF UpdateInv, UpdateTypes, UpdatesInOrder, ThreadOfPhase, InstalledAsAgreed, MessageInv,
            InstallInv
<1>1. CASE AnswerCheck
  <2>1. PICK result \in CheckResults : receiver' = [receiver EXCEPT !.message = <<result>>]
    BY <1>1 DEF AnswerCheck
  <2>2. /\ result \in Phases
        /\ result.version # 0 => result.version > current
        /\ result.name \in {"failed", "up_to_date", "available"}
    BY CheckResult
  <2>3. receiver'.message = <<result>> /\ receiver'.job = "check" /\ <<result>> \in Messages
    BY <1>1, <2>1, <2>2 DEF AnswerCheck, Messages
  <2>4. QED BY <1>1, <2>1, <2>2, <2>3 DEF AnswerCheck
<1>2. CASE AnswerInstall
  <2>1. PICK name \in {"failed", "installed", "downloaded"} :
          /\ receiver' = [receiver EXCEPT !.message = <<Plain(name)>>]
          /\ name = "installed" => kind = "in_place" /\ installed' = phase.version
          /\ name # "installed" => installed' = installed
          /\ name = "downloaded" => kind = "on_exit"
    BY <1>2 DEF AnswerInstall
  <2>2. Plain(name) \in Phases /\ Plain(name).version = 0 /\ Plain(name).name = name
    BY PlainPhase DEF Names
  <2>3. /\ receiver'.message = <<Plain(name)>> /\ receiver'.job = "install"
        /\ <<Plain(name)>> \in Messages
    BY <1>2, <2>1, <2>2 DEF AnswerInstall, Messages
  <2>4. QED BY <1>2, <2>1, <2>2, <2>3 DEF AnswerInstall
<1>3. QED BY <1>1, <1>2

\* Starting and leaving the GUI keep the invariant, and so do the other steps.
LEMMA OtherStepsKeep ==
  UpdateInv /\ (Launch \/ Exit \/ ForgetSkipped \/ Publish \/ UNCHANGED updateVars) => UpdateInv'
<1> SUFFICES ASSUME UpdateInv, Launch \/ Exit \/ ForgetSkipped \/ Publish \/ UNCHANGED updateVars
             PROVE  UpdateInv'
  OBVIOUS
<1> USE DEF UpdateInv, UpdateTypes, UpdatesInOrder, ThreadOfPhase, InstalledAsAgreed, MessageInv,
            InstallInv
<1>1. CASE Launch
  <2>1. PICK checks \in BOOLEAN :
          /\ phase' = Plain(IF checks THEN "checking" ELSE "idle")
          /\ receiver' = IF checks THEN Thread("check") ELSE NoThread
    BY <1>1 DEF Launch
  <2>2. phase' \in Phases /\ phase'.version = 0 /\ phase'.name \in {"checking", "idle"}
    BY <2>1, PlainPhase DEF Names
  <2>3. /\ receiver'.message = <<>> /\ receiver'.job \in {"check", "none"}
        /\ receiver' \in [job : {"none", "check", "install"}, message : {<<>>} \cup Messages]
        /\ receiver'.job = "check" <=> phase'.name = "checking"
    BY <2>1, PlainPhase DEF Thread, NoThread, Names
  <2>4. QED BY <1>1, <2>2, <2>3 DEF Launch
<1>2. CASE Exit
  BY <1>2 DEF Exit, NoThread
<1>3. CASE ForgetSkipped
  BY <1>3 DEF ForgetSkipped
<1>4. CASE Publish
  BY <1>4 DEF Publish
<1>5. CASE UNCHANGED updateVars
  BY <1>5 DEF updateVars
<1>6. QED BY <1>1, <1>2, <1>3, <1>4, <1>5

\* What the user is told of an update is what happens: for every set of releases and
\* every interleaving of the threads, the frames, the clicks, the exits and launches.
THEOREM UpdatesStayInOrder == SessionSpec => []UpdatesInOrder
<1>1. UpdateInv /\ [SessionNext]_appVars => UpdateInv'
  BY UpdateSteps, UserStepKeeps, FrameKeeps, ThreadsKeep, OtherStepsKeep DEF appVars
<1>2. UpdateInv => UpdatesInOrder
  BY DEF UpdateInv
<1>3. QED
  BY UpdateInvInit, <1>1, <1>2, PTL DEF SessionSpec

-------------------------------------------------------------------------------
(* The range.                                                                *)

SomeRanges == [offset : Nat, limit : Nat]

\* A clamped range is inside its file, and large enough where the file is.
LEMMA ClampInFile ==
  ASSUME NEW size \in Nat, NEW r \in SomeRanges
  PROVE  /\ Clamp(size, r) \in SomeRanges
         /\ Clamp(size, r).offset + Clamp(size, r).limit <= size
         /\ size >= MinLimit => Clamp(size, r).limit >= MinLimit
<1> DEFINE wide == Max({r.limit, MinLimit})
           limit == Min({wide, size})
           offset == Min({r.offset, size - limit})
<1>1. wide \in Nat /\ wide >= MinLimit
  BY MaxOfTwo, SessionAssumption DEF SomeRanges
<1>2. limit \in Nat /\ limit <= size /\ (size >= MinLimit => limit >= MinLimit)
  <2> HIDE DEF wide
  <2> QED BY <1>1, MinOfTwo, SessionAssumption
<1>3. offset \in Nat /\ offset <= size - limit
  <2> HIDE DEF limit
  <2> QED BY <1>2, MinOfTwo DEF SomeRanges
<1>4. Clamp(size, r) = IF size < MinLimit THEN [offset |-> 0, limit |-> size]
                       ELSE [offset |-> offset, limit |-> limit]
  BY DEF Clamp
<1> HIDE DEF wide, limit, offset
<1>5. QED BY <1>2, <1>3, <1>4 DEF SomeRanges

\* The range of the command line is inside its file.
LEMMA LaunchRangeInFile ==
  ASSUME NEW request \in Requests
  PROVE  /\ LaunchRange(request) \in SomeRanges
         /\ LaunchRange(request).offset + LaunchRange(request).limit <= request.input.size
         /\ request.input.size >= MinLimit => LaunchRange(request).limit >= MinLimit
<1> DEFINE size == request.input.size
           offset == Min({request.offset, size})
           limit == IF request.limit = 0 THEN size
                    ELSE IF request.limit = -1 THEN InitialLimit ELSE request.limit
           asked == [offset |-> offset, limit |-> Min({limit, size - offset})]
<1>1. size \in Nat /\ request.offset \in Nat /\ limit \in Nat
  BY SessionAssumption
<1>2. offset \in Nat /\ offset <= size
  <2> HIDE DEF size
  <2> QED BY <1>1, MinOfTwo
<1>3. Min({limit, size - offset}) \in Nat
  <2> HIDE DEF limit, offset, size
  <2> QED BY <1>1, <1>2, MinOfTwo
<1>4. LaunchRange(request) = Clamp(size, asked)
  BY DEF LaunchRange
<1>5. asked \in SomeRanges
  <2> HIDE DEF limit, offset, size
  <2> QED BY <1>2, <1>3 DEF SomeRanges
<1>6. QED
  <2> HIDE DEF asked
  <2> QED BY <1>1, <1>4, <1>5, ClampInFile

-------------------------------------------------------------------------------
(* The session.                                                              *)

SomeInputs == Inputs \cup {NoInput}

Hows == {"none", "button", "confirmed", "launch"}

Outcomes == {"none", "report", "failed", "error"}

\* The CLI, its check, and the start that waits for it.
CliPart ==
  /\ location \in CliPaths
  /\ cliCheck \in [path : CliPaths \cup {0}, answer : {"none", "ok", "bad"}]
  /\ CliOfSettings

\* The input, its range and the job; what waits for the CLI is the only thing asked for.
JobPart ==
  /\ input \in SomeInputs /\ range \in SomeRanges
  /\ running \in [input : SomeInputs, range : SomeRanges, programs : Nat, how : Hows, outcome : Outcomes]
  /\ input # NoInput => range.offset + range.limit <= input.size
  /\ Analyzable(input) => range.limit >= MinLimit
  /\ confirmStart => ~pendingStart /\ Analyzable(input)
  /\ JobOfInput

\* The result and what is derived from it.
ResultPart ==
  /\ analysis \in [input : SomeInputs, range : SomeRanges, programs : Nat]
  /\ program \in Nat
  /\ ResultOfInput

\* An input that can be analyzed is a file.
LEMMA FileOfInput ==
  ASSUME input \in SomeInputs
  PROVE  /\ input.size \in Nat
         /\ Analyzable(input) => input # NoInput /\ input.name # 0
BY SessionAssumption DEF SomeInputs, NoInput, Analyzable

\* Every step keeps the CLI's part.
LEMMA CliPartKeeps == CliPart /\ SessionNext => CliPart'
<1> SUFFICES ASSUME CliPart, SessionNext PROVE CliPart'
  OBVIOUS
<1> USE DEF CliPart, CliOfSettings, NoCheck
<1>2. CASE LaunchApp
  <2>1. BeginCliCheck(location)
    BY <1>2 DEF LaunchApp
  <2>2. QED BY <2>1, SessionAssumption DEF BeginCliCheck
<1>3. CASE Frame
  <2>1. CASE cliCheck.answer = "none"
    BY <1>3, <2>1 DEF Frame, PollCliCheck, StartPending
  <2>2. CASE cliCheck.answer # "none"
    <3>1. cli' = [state |-> cliCheck.answer, path |-> cliCheck.path] /\ cliCheck' = NoCheck
      BY <1>3, <2>2 DEF Frame, PollCliCheck
    <3>2. cliCheck # NoCheck /\ app = "open" /\ location' = location
      BY <1>3, <2>2 DEF Frame
    <3>3. pendingStart' => ~PendingDue /\ pendingStart
      BY <1>3 DEF Frame, StartPending
    <3>4. ~pendingStart'
      BY <3>1, <3>3 DEF PendingDue
    <3>5. QED BY <2>2, <3>1, <3>2, <3>4
  <2>3. QED BY <2>1, <2>2
<1>4. CASE RestoreDefaults
  <2>1. CASE location # BundledCli
    BY <1>4, <2>1, SessionAssumption DEF RestoreDefaults, BeginCliCheck
  <2>2. CASE location = BundledCli
    BY <1>4, <2>2 DEF RestoreDefaults
  <2>3. QED BY <2>1, <2>2
<1>5. CASE AnswerCliCheck /\ app' = app
  BY <1>5 DEF AnswerCliCheck
<1>6. CASE ChangeCli /\ app' = app
  <2>1. PICK path \in CliPaths : BeginCliCheck(path)
    BY <1>6 DEF ChangeCli
  <2>2. QED BY <1>6, <2>1, SessionAssumption DEF BeginCliCheck, ChangeCli
<1>7. CASE OpenFile /\ app' = app
  BY <1>7 DEF OpenFile, OpenInput
<1>8. CASE UNCHANGED <<location, cli, cliCheck, pendingStart>> /\ (app' # "closed" => app # "closed")
  BY <1>8
<1>9. UpdateStep => UNCHANGED sessionVars /\ (app' # "closed" => app # "closed")
  BY DEF UpdateStep, AnswerCheck, AnswerInstall, Publish, Interactive
<1>10. SessionStep =>
         /\ app' = app
         /\ \/ AnswerCliCheck \/ ChangeCli \/ OpenFile
            \/ UNCHANGED <<location, cli, cliCheck, pendingStart>>
  BY DEF SessionStep, updateVars, JobEnds, EditRange, ClickStart, ConfirmAnalyze, ConfirmCancel,
     CancelAnalysis, CloseError, SelectProgram
<1>11. ExitApp => UNCHANGED <<location, cli, cliCheck, pendingStart>> /\ app' = "closed"
  BY DEF ExitApp, Exit
<1>12. QED
  BY <1>2, <1>3, <1>4, <1>5, <1>6, <1>7, <1>8, <1>9, <1>10, <1>11 DEF SessionNext, sessionVars

\* A job is started for the input that is open and its range.
LEMMA JobStarted ==
  ASSUME JobPart, Analyzable(input), NEW how \in Hows \ {"none"}, StartJob(how),
         how = "button" => ~NeedsConfirmation
  PROVE  \/ running' = running
         \/ /\ running' \in [input : SomeInputs, range : SomeRanges, programs : Nat, how : Hows,
                             outcome : Outcomes]
            /\ running' # NoJob
            /\ running'.input = input /\ running'.how = how
            /\ running'.range.limit >= MinLimit
            /\ running'.range.offset + running'.range.limit <= input.size
            /\ running'.range.limit > ConfirmAbove => how \in {"confirmed", "launch"}
<1>1. CASE error' = TRUE /\ UNCHANGED running
  BY <1>1
<1>2. CASE running' = [NoJob EXCEPT !.input = input, !.range = range, !.how = how]
  <2>1. running' = [input |-> input, range |-> range, programs |-> 0, how |-> how, outcome |-> "none"]
    BY <1>2 DEF NoJob
  <2>2. running' # NoJob
    BY <2>1 DEF NoJob, Hows
  <2>3. input # NoInput
    BY FileOfInput DEF JobPart
  <2>4. running'.input = input /\ running'.how = how /\ running'.range = range
    BY <2>1
  <2>5. running' \in [input : SomeInputs, range : SomeRanges, programs : Nat, how : Hows, outcome : Outcomes]
    BY <2>1 DEF JobPart, Hows, Outcomes
  <2>6. range.limit > ConfirmAbove => how \in {"confirmed", "launch"}
    BY DEF NeedsConfirmation, Hows
  <2>7. QED BY <2>2, <2>3, <2>4, <2>5, <2>6 DEF JobPart
<1>3. QED BY <1>1, <1>2 DEF StartJob

\* Starting and opening files put a range inside the file and no job.
LEMMA NewInputKeeps ==
  ASSUME input' \in SomeInputs, range' \in SomeRanges, running' = NoJob, confirmStart' = FALSE,
         input' # NoInput => range'.offset + range'.limit <= input'.size,
         Analyzable(input') => range'.limit >= MinLimit
  PROVE  JobPart'
<1>1. NoJob \in [input : SomeInputs, range : SomeRanges, programs : Nat, how : Hows, outcome : Outcomes]
  BY DEF NoJob, NoInput, NoRange, SomeInputs, SomeRanges, Hows, Outcomes
<1>2. JobOfInput'
  BY DEF JobOfInput
<1>3. Analyzable(input)' <=> Analyzable(input')
  BY DEF Analyzable
<1>4. QED BY <1>1, <1>2, <1>3 DEF JobPart

\* Every step keeps the input's, the range's and the job's part.
LEMMA JobPartKeeps == CliPart /\ JobPart /\ SessionNext => JobPart'
<1> SUFFICES ASSUME CliPart, JobPart, SessionNext PROVE JobPart'
  OBVIOUS
<1>0. input.size \in Nat /\ (Analyzable(input) => input # NoInput /\ input.name # 0)
  BY FileOfInput DEF JobPart
<1>1. CASE LaunchApp
  <2>1. running' = NoJob /\ confirmStart' = FALSE
    BY <1>1 DEF LaunchApp
  <2>2. CASE input' = NoInput /\ range' = InitialRange
    <3>1. range' \in SomeRanges
      BY <2>2, SessionAssumption DEF InitialRange, SomeRanges
    <3>2. ~Analyzable(input') /\ input' \in SomeInputs
      BY <2>2, SessionAssumption DEF Analyzable, NoInput, SomeInputs
    <3>3. QED BY <2>1, <2>2, <3>1, <3>2, NewInputKeeps
  <2>3. ASSUME NEW request \in Requests, input' = request.input, range' = LaunchRange(request)
        PROVE  JobPart'
    <3>1. input' \in SomeInputs
      BY <2>3, SessionAssumption DEF SomeInputs
    <3>2. QED BY <2>1, <2>3, <3>1, LaunchRangeInFile, NewInputKeeps DEF Analyzable
  <2>4. QED BY <1>1, <2>2, <2>3 DEF LaunchApp
<1>2. CASE OpenFile /\ app' = app
  <2>1. PICK i \in Inputs : OpenInput(i, Clamp(i.size, InitialRange))
    BY <1>2 DEF OpenFile
  <2>2. i.size \in Nat /\ InitialRange \in SomeRanges
    BY SessionAssumption DEF InitialRange, SomeRanges
  <2>3. input' = i /\ range' = Clamp(i.size, InitialRange) /\ running' = NoJob /\ confirmStart' = FALSE
    BY <2>1 DEF OpenInput
  <2>4. QED BY <2>2, <2>3, ClampInFile, NewInputKeeps DEF Analyzable, SomeInputs
<1>3. CASE Frame
  <2>1. /\ range' \in SomeRanges /\ range'.offset + range'.limit <= input.size
        /\ Analyzable(input) => range'.limit >= MinLimit
    <3>1. range' = Clamp(input.size, range)
      BY <1>3 DEF Frame
    <3>2. QED BY <1>0, <3>1, ClampInFile DEF JobPart, Analyzable
  <2>2. input' = input /\ confirmStart' = confirmStart /\ app = "open"
    BY <1>3 DEF Frame
  <2>3. CASE PendingDue
    <3>1. pendingStart' = FALSE /\ pendingStart /\ running = NoJob /\ ~confirmStart
      BY <1>3, <2>3 DEF Frame, PendingDue, StartPending, JobPart, JobOfInput
    <3>2. CASE running' = running
      BY <2>1, <2>2, <3>1, <3>2 DEF JobPart, JobOfInput, Analyzable
    <3>3. CASE running' # running
      <4>1. Analyzable(input) /\ StartJob("launch")
        BY <1>3, <2>3, <3>3 DEF Frame, StartPending
      <4>2. QED BY <2>1, <2>2, <3>1, <3>3, <4>1, JobStarted DEF JobPart, JobOfInput, Analyzable, Hows
    <3>4. QED BY <3>2, <3>3
  <2>4. CASE ~PendingDue
    <3>1. pendingStart' = pendingStart /\ (running' = running \/ running' = NoJob)
      BY <1>3, <2>4 DEF Frame, PollAnalysis
    <3>2. NoJob \in [input : SomeInputs, range : SomeRanges, programs : Nat, how : Hows, outcome : Outcomes]
      BY DEF NoJob, NoInput, NoRange, SomeInputs, SomeRanges, Hows, Outcomes
    <3>3. QED BY <2>1, <2>2, <3>1, <3>2 DEF JobPart, JobOfInput, Analyzable
  <2>5. QED BY <2>3, <2>4
<1>4. CASE JobEnds /\ app' = app
  <2>1. PICK outcome \in Outcomes \ {"none"}, programs \in Nat :
          running' = [running EXCEPT !.outcome = outcome, !.programs = programs]
    <3>1. PICK read \in {"parsed", "unreadable", "empty", "rejected"}, programs \in 0 .. 2 :
            \E outcome \in JobOutcome(read) :
              running' = [running EXCEPT !.outcome = outcome,
                                         !.programs = IF outcome = "report" THEN programs ELSE 0]
      BY <1>4 DEF JobEnds
    <3>2. PICK outcome \in JobOutcome(read) :
            running' = [running EXCEPT !.outcome = outcome,
                                       !.programs = IF outcome = "report" THEN programs ELSE 0]
      BY <3>1
    <3>3. outcome \in Outcomes \ {"none"} /\ (IF outcome = "report" THEN programs ELSE 0) \in Nat
      BY DEF JobOutcome, Outcomes
    <3>4. QED BY <3>2, <3>3
  <2>2. /\ running'.input = running.input /\ running'.range = running.range
        /\ running'.how = running.how /\ running'.outcome = outcome
        /\ running' \in [input : SomeInputs, range : SomeRanges, programs : Nat, how : Hows,
                         outcome : Outcomes]
    BY <2>1 DEF JobPart
  <2>3. running # NoJob /\ UNCHANGED <<input, range, pendingStart, confirmStart>>
    BY <1>4 DEF JobEnds
  <2>4. QED BY <2>2, <2>3 DEF JobPart, JobOfInput, Analyzable
<1>5. CASE EditRange /\ app' = app
  <2>1. PICK offset \in 0 .. input.size, limit \in 0 .. input.size :
          range' = Clamp(input.size, [offset |-> offset, limit |-> limit])
    BY <1>5 DEF EditRange
  <2>2. [offset |-> offset, limit |-> limit] \in SomeRanges
    BY <1>0 DEF SomeRanges
  <2>3. /\ range' \in SomeRanges /\ range'.offset + range'.limit <= input.size
        /\ Analyzable(input) => range'.limit >= MinLimit
    BY <1>0, <2>1, <2>2, ClampInFile DEF Analyzable
  <2>4. UNCHANGED <<input, running, pendingStart, confirmStart>>
    BY <1>5 DEF EditRange
  <2>5. QED BY <2>3, <2>4 DEF JobPart, JobOfInput, Analyzable
<1>6. CASE ClickStart /\ app' = app
  <2>1. /\ Analyzable(input) /\ running = NoJob /\ ~confirmStart /\ ~pendingStart
        /\ UNCHANGED <<input, range, pendingStart>>
    BY <1>6 DEF ClickStart, Interactive, CliPart, CliOfSettings
  <2>2. CASE NeedsConfirmation
    BY <1>6, <2>1, <2>2 DEF ClickStart, JobPart, JobOfInput, Analyzable
  <2>3. CASE ~NeedsConfirmation
    <3>1. StartJob("button") /\ confirmStart' = confirmStart
      BY <1>6, <2>3 DEF ClickStart
    <3>2. QED BY <2>1, <2>3, <3>1, JobStarted DEF JobPart, JobOfInput, Analyzable, Hows
  <2>4. QED BY <2>2, <2>3
<1>7. CASE ConfirmAnalyze /\ app' = app
  <2>1. confirmStart' = FALSE /\ running = NoJob /\ ~pendingStart /\ Analyzable(input)
        /\ UNCHANGED <<input, range, pendingStart>>
    BY <1>7 DEF ConfirmAnalyze, JobPart, JobOfInput, Analyzable
  <2>2. CASE running' = running
    BY <2>1, <2>2 DEF JobPart, JobOfInput, Analyzable
  <2>3. CASE running' # running
    <3>1. StartJob("confirmed")
      BY <1>7, <2>3 DEF ConfirmAnalyze
    <3>2. QED BY <2>1, <2>3, <3>1, JobStarted DEF JobPart, JobOfInput, Analyzable, Hows
  <2>4. QED BY <2>2, <2>3
<1>8. CASE /\ UNCHANGED <<input, range, pendingStart>>
           /\ confirmStart' = confirmStart \/ confirmStart' = FALSE
           /\ running' = running \/ running' = NoJob
  <2>1. NoJob \in [input : SomeInputs, range : SomeRanges, programs : Nat, how : Hows, outcome : Outcomes]
    BY DEF NoJob, NoInput, NoRange, SomeInputs, SomeRanges, Hows, Outcomes
  <2>2. QED BY <1>8, <2>1 DEF JobPart, JobOfInput, Analyzable
<1>9. QED
  BY <1>1, <1>2, <1>3, <1>4, <1>5, <1>6, <1>7, <1>8
     DEF SessionNext, sessionVars, updateVars, RestoreDefaults, SessionStep, UpdateStep, ExitApp,
         AnswerCliCheck, ChangeCli, ConfirmCancel, CancelAnalysis, CloseError, SelectProgram,
         BeginCliCheck

\* Every step keeps the result's part.
LEMMA ResultPartKeeps == JobPart /\ ResultPart /\ SessionNext => ResultPart'
<1> SUFFICES ASSUME JobPart, ResultPart, SessionNext PROVE ResultPart'
  OBVIOUS
<1> DEFINE Derived == <<analysis, analyzed, packetPages, generation, plots>>
<1>1. ASSUME analysis' = NoResult, analyzed' = NoRange, packetPages' = NoPages, plots' = 0,
             program' \in Nat
      PROVE  ResultPart'
  <2>1. NoResult \in [input : SomeInputs, range : SomeRanges, programs : Nat]
    BY DEF NoResult, NoInput, NoRange, SomeInputs, SomeRanges
  <2>2. QED BY <1>1, <2>1 DEF ResultPart, ResultOfInput
<1>2. CASE UNCHANGED Derived /\ program' = program /\ input' = input
  BY <1>2 DEF ResultPart, ResultOfInput
<1>3. CASE LaunchApp
  BY <1>1, <1>3 DEF LaunchApp
<1>4. CASE OpenFile /\ app' = app
  BY <1>1, <1>4 DEF OpenFile, OpenInput, ResultPart
<1>5. CASE SelectProgram /\ app' = app
  <2>1. PICK p \in 0 .. analysis.programs - 1 : program' = p
    BY <1>5 DEF SelectProgram
  <2>2. analysis.programs \in Nat /\ p \in Nat /\ p < analysis.programs
    BY DEF ResultPart
  <2>3. p < Max({1, analysis.programs})
    BY <2>2, MaxOfTwo
  <2>4. UNCHANGED Derived /\ input' = input /\ analysis # NoResult
    BY <1>5 DEF SelectProgram
  <2>5. QED BY <2>1, <2>2, <2>3, <2>4 DEF ResultPart, ResultOfInput
<1>6. CASE Frame /\ TakeResult /\ running # NoJob
  <2>1. /\ running.input = input /\ input # NoInput /\ input' = input
        /\ running.range \in SomeRanges /\ running.programs \in Nat /\ input \in SomeInputs
    <3>1. running.range.limit >= MinLimit /\ running.range.offset + running.range.limit <= input.size
      BY <1>6 DEF JobPart, JobOfInput
    <3>2. running.range \in SomeRanges /\ input \in SomeInputs /\ running.programs \in Nat
      BY DEF JobPart
    <3>3. input.size >= MinLimit
      BY <3>1, <3>2, FileOfInput, SessionAssumption DEF SomeRanges
    <3>4. QED BY <1>6, <3>2, <3>3, FileOfInput DEF JobPart, JobOfInput, Frame, Analyzable
  <2>2. program' \in Nat /\ program' < Max({1, running.programs})
    <3>1. program \in Nat /\ running.programs \in Nat /\ running.programs - 1 \in Int
      BY <2>1 DEF ResultPart
    <3>2. Max({0, running.programs - 1}) \in Nat
          /\ Max({0, running.programs - 1}) < Max({1, running.programs})
      BY <3>1, MaxOfTwo
    <3>3. program' = Min({program, Max({0, running.programs - 1})})
      BY <1>6 DEF TakeResult
    <3> DEFINE last == Max({0, running.programs - 1})
    <3>4. Min({program, last}) \in Nat /\ Min({program, last}) <= last
      <4> HIDE DEF last
      <4> QED BY <3>1, <3>2, MinOfTwo DEF last
    <3>5. Max({1, running.programs}) \in Nat
      BY <3>1, MaxOfTwo
    <3> HIDE DEF last
    <3>6. QED BY <3>2, <3>3, <3>4, <3>5 DEF last
  <2>3. /\ analysis' = [input |-> input, range |-> running.range, programs |-> running.programs]
        /\ analyzed' = running.range /\ packetPages' = [input |-> input, range |-> running.range]
        /\ plots' = generation'
    BY <1>6, <2>1 DEF TakeResult
  <2>4. /\ analysis' \in [input : SomeInputs, range : SomeRanges, programs : Nat]
        /\ analysis'.input = input' /\ analysis'.range = running.range
        /\ analysis'.programs = running.programs
    BY <2>1, <2>3
  <2>5. analysis' # NoResult
    BY <2>1, <2>4 DEF NoResult
  <2>6. QED BY <2>1, <2>2, <2>3, <2>4, <2>5 DEF ResultPart, ResultOfInput
<1>7. CASE Frame /\ KeepResult
  BY <1>2, <1>7 DEF Frame, KeepResult
<1>8. Frame => KeepResult \/ (TakeResult /\ running # NoJob)
  BY DEF Frame, StartPending, PollAnalysis, NoJob
<1>9. SessionStep => \/ OpenFile /\ app' = app
                     \/ SelectProgram /\ app' = app
                     \/ UNCHANGED Derived /\ program' = program /\ input' = input
  BY DEF SessionStep, updateVars, AnswerCliCheck, ChangeCli, JobEnds, EditRange, ClickStart,
     ConfirmAnalyze, ConfirmCancel, CancelAnalysis, CloseError
<1>10. RestoreDefaults \/ UpdateStep \/ ExitApp =>
         UNCHANGED Derived /\ program' = program /\ input' = input
  BY DEF RestoreDefaults, UpdateStep, ExitApp, sessionVars
<1>11. QED
  BY <1>2, <1>3, <1>4, <1>5, <1>6, <1>7, <1>8, <1>9, <1>10 DEF SessionNext

\* The three parts hold before the first launch.
LEMMA SessionInvInit == UpdatesInit /\ SessionInit => CliPart /\ JobPart /\ ResultPart
<1> SUFFICES ASSUME UpdatesInit, SessionInit PROVE CliPart /\ JobPart /\ ResultPart
  OBVIOUS
<1>1. CliPart
  BY SessionAssumption DEF UpdatesInit, SessionInit, CliPart, CliOfSettings, NoCheck
<1>2. InitialRange \in SomeRanges /\ NoRange \in SomeRanges /\ NoInput \in SomeInputs
  BY SessionAssumption DEF InitialRange, NoRange, SomeRanges, SomeInputs
<1>3. NoJob \in [input : SomeInputs, range : SomeRanges, programs : Nat, how : Hows, outcome : Outcomes]
  BY <1>2 DEF NoJob, Hows, Outcomes
<1>4. ~Analyzable(input)
  BY SessionAssumption DEF SessionInit, Analyzable, NoInput
<1>5. JobPart
  BY <1>2, <1>3, <1>4 DEF SessionInit, JobPart, JobOfInput
<1>6. NoResult \in [input : SomeInputs, range : SomeRanges, programs : Nat]
  BY <1>2 DEF NoResult
<1>7. ResultPart
  BY <1>6 DEF SessionInit, ResultPart, ResultOfInput
<1>8. QED BY <1>1, <1>5, <1>7

\* The parts of the session fit together: for every set of files, requests and CLIs and
\* every interleaving of the frames, the clicks, the checks, the jobs and the update.
THEOREM SessionFitsTogether == SessionSpec => []SessionConsistent
<1> DEFINE SessionInv == CliPart /\ JobPart /\ ResultPart
<1>1. SessionInv /\ UNCHANGED appVars => SessionInv'
  <2>1. CliPart /\ UNCHANGED appVars => CliPart'
    BY DEF appVars, updateVars, sessionVars, CliPart, CliOfSettings
  <2>2. JobPart /\ UNCHANGED appVars => JobPart'
    BY DEF appVars, sessionVars, JobPart, JobOfInput, Analyzable
  <2>3. ResultPart /\ UNCHANGED appVars => ResultPart'
    BY DEF appVars, sessionVars, ResultPart, ResultOfInput
  <2>4. QED BY <2>1, <2>2, <2>3
<1>2. SessionInv /\ [SessionNext]_appVars => SessionInv'
  BY <1>1, CliPartKeeps, JobPartKeeps, ResultPartKeeps
<1>3. SessionInv => SessionConsistent
  BY DEF CliPart, JobPart, ResultPart, SessionConsistent
<1>4. QED
  BY SessionInvInit, <1>2, <1>3, PTL DEF SessionSpec

-------------------------------------------------------------------------------
(* The process of one CLI run (CliProcess).                                  *)

\* What the owner's state and the queue say about the threads behind them.
EventsInv ==
  /\ owner = "cancelling" => cancels > 0
  /\ \A i \in DOMAIN events :
       /\ events[i] = "cancel" => Requested
       /\ events[i] \in Pipes => reader[events[i]] = "ended"

\* The stdout reader has an ending exactly when it has stopped reading, and the
\* pipe was drained and closed if that ending is the end of the output.
OutputInv ==
  /\ output # "none" <=> reader["stdout"] \in {"send", "ended"}
  /\ output = "eof" => unread["stdout"] = 0 /\ ~open["stdout"]
  /\ output = "refused" <=> taken > Limit
  /\ output = "stopped" => Requested
  /\ stop => Requested \/ output = "refused"

\* What the supervisor holds is what the threads left, and it knows the exit
\* status exactly when it has reaped the child.
SupInv ==
  /\ sup # "returned" => (status # "none" <=> child = "reaped")
  /\ sup \in Killing \cup Waiting => status = "none"
  /\ sup = "returned" => child = "reaped"
  /\ sup \in {"finish", "finished"} => status # "none"
  /\ sup \in {"finish", "finished"} => stdout # "none" /\ diagnostics
  /\ sup \in {"kill_refused", "wait_refused"} => stdout = "refused"
  /\ sup \in {"kill_cancelled", "wait_cancelled", "returned"} => Requested
  /\ stdout # "none" => stdout = output
  /\ signalled => sup \in {"wait_cancelled", "returned"} \/ stdout = "refused"
  /\ diagnostics => reader["stderr"] = "ended" \/ stdout = "refused"

RunInv == TypeOK /\ EventsInv /\ OutputInv /\ SupInv

\* RunInv holds when the run has just been spawned.
LEMMA RunInvInit == Init => RunInv
<1> SUFFICES ASSUME Init PROVE RunInv
  OBVIOUS
<1> PICK piped \in {Pipes, {"stdout"}} :
      /\ open = [p \in Pipes |-> p \in piped]
      /\ reader = [p \in Pipes |-> IF p \in piped THEN "check" ELSE "ended"]
      /\ diagnostics = ("stderr" \notin piped)
  BY DEF Init
<1>1. TypeOK
  <2>1. reader \in [Pipes -> {"check", "read", "send", "ended"}] /\ open \in [Pipes -> BOOLEAN]
    OBVIOUS
  <2>2. heirs \in SUBSET Pipes
    BY CliAssumption DEF Init
  <2>3. diagnostics \in BOOLEAN
    OBVIOUS
  <2>4. unread \in [Pipes -> 0 .. PipeSize] /\ taken \in 0 .. Limit + 1 /\ cancels \in 0 .. MaxCancels
    BY CliAssumption DEF Init
  <2>5. events \in Seq(Pipes \cup {"cancel"})
    BY DEF Init
  <2>6. QED
    BY <2>1, <2>2, <2>3, <2>4, <2>5 DEF Init, TypeOK
<1>2. EventsInv
  BY DEF Init, EventsInv
<1>3. OutputInv
  BY CliAssumption DEF Init, OutputInv, Pipes
<1>4. SupInv
  BY DEF Init, SupInv, Pipes, Killing, Waiting, Ended
<1>5. QED
  BY <1>1, <1>2, <1>3, <1>4 DEF RunInv

USE CliAssumption DEF Pipes, Endings, Ended, Killing, Waiting, vars, childVars,
    pipeVars, ownerVars, supVars

\* The queue after a send: what was in it, and the event when it was accepted.
LEMMA PostType ==
  ASSUME TypeOK, NEW event \in Pipes \cup {"cancel"}, Post(event)
  PROVE  /\ events' \in Seq(Pipes \cup {"cancel"})
         /\ \A i \in DOMAIN events' :
              events'[i] = event \/ (i \in DOMAIN events /\ events'[i] = events[i])
BY DEF TypeOK, Post

\* The queue after a receive: the supervisor took its head.
LEMMA TailType ==
  ASSUME TypeOK, events # <<>>
  PROVE  /\ Tail(events) \in Seq(Pipes \cup {"cancel"})
         /\ \A i \in DOMAIN Tail(events) :
              i + 1 \in DOMAIN events /\ Tail(events)[i] = events[i + 1]
         /\ Head(events) = events[1] /\ 1 \in DOMAIN events
BY DEF TypeOK

\* Taking the head of the queue, or dropping the queue, keeps what is known of it.
LEMMA QueueShrinks ==
  ASSUME TypeOK, EventsInv, UNCHANGED <<reader, owner, cancels>>,
         events' = <<>> \/ (events # <<>> /\ events' = Tail(events))
  PROVE  events' \in Seq(Pipes \cup {"cancel"}) /\ EventsInv'
<1>1. CASE events' = <<>>
  BY <1>1 DEF EventsInv
<1>2. CASE events # <<>> /\ events' = Tail(events)
  BY <1>2, TailType DEF EventsInv, Requested
<1>3. QED
  BY <1>1, <1>2

\* Steps of the child and of its descendants keep RunInv.
LEMMA ChildInv == RunInv /\ ChildStep => RunInv'
<1> SUFFICES ASSUME RunInv, ChildStep PROVE RunInv'
  OBVIOUS
<1>1. CASE ChildExits \/ ChildIsKilled
  <2> child = "running" /\ ChildDies
    BY <1>1 DEF ChildExits, ChildIsKilled
  <2> QED
    BY DEF ChildDies, RunInv, TypeOK, EventsInv, OutputInv, SupInv, Requested
<1>2. ASSUME NEW p \in Pipes, ChildStartsWrite(p) PROVE RunInv'
  BY <1>2 DEF ChildStartsWrite, RunInv, TypeOK, EventsInv, OutputInv, SupInv, Requested
<1>3. ASSUME NEW p \in Pipes, ChildWrites(p) PROVE RunInv'
  BY <1>3 DEF ChildWrites, RunInv, TypeOK, EventsInv, OutputInv, SupInv, Requested
<1>4. ASSUME NEW p \in Pipes, ChildCloses(p) PROVE RunInv'
  BY <1>4 DEF ChildCloses, RunInv, TypeOK, EventsInv, OutputInv, SupInv, Requested
<1>5. ASSUME NEW p \in Pipes, HeirCloses(p) PROVE RunInv'
  BY <1>5 DEF HeirCloses, RunInv, TypeOK, EventsInv, OutputInv, SupInv, Requested
<1>6. QED
  BY <1>1, <1>2, <1>3, <1>4, <1>5 DEF ChildStep

\* Steps of the reader threads keep RunInv.
LEMMA ReaderInv == \A p \in Pipes : RunInv /\ ReaderStep(p) => RunInv'
<1> SUFFICES ASSUME NEW p \in Pipes, RunInv, ReaderStep(p) PROVE RunInv'
  OBVIOUS
<1>1. CASE ReaderChecks(p)
  BY <1>1 DEF ReaderChecks, Interrupted, RunInv, TypeOK, EventsInv, OutputInv, SupInv, Requested
<1>2. CASE ReaderTakes(p)
  BY <1>2 DEF ReaderTakes, PastLimit, RunInv, TypeOK, EventsInv, OutputInv, SupInv, Requested
<1>3. CASE ReaderEnds(p)
  BY <1>3 DEF ReaderEnds, RunInv, TypeOK, EventsInv, OutputInv, SupInv, Requested
<1>4. CASE ReaderSends(p)
  <2>1. TypeOK /\ Post(p)
    BY <1>4 DEF ReaderSends, RunInv
  <2>2. EventsInv'
    BY <1>4, <2>1, PostType DEF ReaderSends, RunInv, TypeOK, EventsInv, Requested
  <2>3. QED
    BY <1>4, <2>1, <2>2, PostType DEF ReaderSends, RunInv, TypeOK, OutputInv, SupInv, Requested
<1>5. QED
  BY <1>1, <1>2, <1>3, <1>4 DEF ReaderStep

\* Steps of the owner keep RunInv.
LEMMA OwnerInv == RunInv /\ (CancelStores \/ DropStores \/ OwnerSends) => RunInv'
<1> SUFFICES ASSUME RunInv, CancelStores \/ DropStores \/ OwnerSends PROVE RunInv'
  OBVIOUS
<1>1. CASE CancelStores
  BY <1>1 DEF CancelStores, RunInv, TypeOK, EventsInv, OutputInv, SupInv, Requested
<1>2. CASE DropStores
  BY <1>2 DEF DropStores, RunInv, TypeOK, EventsInv, OutputInv, SupInv, Requested
<1>3. CASE OwnerSends
  <2>1. TypeOK /\ Post("cancel") /\ Requested
    BY <1>3 DEF OwnerSends, CancelSends, DropSends, RunInv, EventsInv, Requested
  <2>2. TypeOK' /\ OutputInv' /\ SupInv'
    <3>1. events' \in Seq(Pipes \cup {"cancel"})
      BY <2>1, PostType
    <3>2. Requested' /\ owner' \in {"idle", "gone"} /\ UNCHANGED <<childVars, pipeVars, stop, cancels, supVars>>
      BY <1>3, <2>1 DEF OwnerSends, CancelSends, DropSends, Requested, RunInv, EventsInv
    <3>3. QED
      BY <2>1, <3>1, <3>2 DEF RunInv, TypeOK, OutputInv, SupInv
  <2>3. EventsInv'
    BY <1>3, <2>1, PostType DEF OwnerSends, CancelSends, DropSends, RunInv, TypeOK, EventsInv, Requested
  <2>4. QED
    BY <2>2, <2>3 DEF RunInv
<1>4. QED
  BY <1>1, <1>2, <1>3

\* Steps of the supervisor keep RunInv.
LEMMA SupervisorInv == RunInv /\ SupStep => RunInv'
<1> SUFFICES ASSUME RunInv, SupStep PROVE RunInv'
  OBVIOUS
<1>0. TypeOK
  BY DEF RunInv
<1>1. CASE SupReceivesCancel
  <2>1. Requested
    BY <1>0, <1>1, TailType DEF SupReceivesCancel, RunInv, EventsInv
  <2>2. events' \in Seq(Pipes \cup {"cancel"}) /\ EventsInv'
    BY <1>0, <1>1, QueueShrinks DEF SupReceivesCancel, RunInv
  <2>3. TypeOK' /\ OutputInv' /\ SupInv'
    BY <1>1, <2>1, <2>2 DEF SupReceivesCancel, MustKill, RunInv, TypeOK, OutputInv, SupInv, Requested
  <2>4. QED
    BY <2>2, <2>3 DEF RunInv
<1>2. CASE SupReceivesStdout
  <2>1. reader["stdout"] = "ended"
    BY <1>0, <1>2, TailType DEF SupReceivesStdout, Receives, RunInv, EventsInv
  <2>2. TypeOK' /\ OutputInv' /\ SupInv'
    BY <1>0, <1>2, <2>1, TailType, ZenonT(60) DEF SupReceivesStdout, Receives, MustKill, RunInv, TypeOK, OutputInv, SupInv, Requested
  <2>3. EventsInv'
    BY <1>0, <1>2, TailType DEF SupReceivesStdout, Receives, RunInv, TypeOK, EventsInv, Requested
  <2>4. QED
    BY <2>2, <2>3 DEF RunInv
<1>3. CASE SupReceivesStderr
  <2>1. reader["stderr"] = "ended"
    BY <1>0, <1>3, TailType DEF SupReceivesStderr, Receives, RunInv, EventsInv
  <2>2. TypeOK' /\ OutputInv' /\ SupInv'
    BY <1>0, <1>3, <2>1, TailType DEF SupReceivesStderr, Receives, RunInv, TypeOK, OutputInv, SupInv, Requested
  <2>3. EventsInv'
    BY <1>0, <1>3, TailType DEF SupReceivesStderr, Receives, RunInv, TypeOK, EventsInv, Requested
  <2>4. QED
    BY <2>2, <2>3 DEF RunInv
<1>4. CASE SupTimesOut
  BY <1>4 DEF SupTimesOut, RunInv, TypeOK, EventsInv, OutputInv, SupInv, Requested
<1>5. CASE SupKills
  BY <1>5 DEF SupKills, RunInv, TypeOK, EventsInv, OutputInv, SupInv, Requested
<1>6. CASE SupWaits
  <2>1. events' \in Seq(Pipes \cup {"cancel"}) /\ EventsInv'
    BY <1>0, <1>6, QueueShrinks DEF SupWaits, RunInv, EventsInv, TypeOK, Requested
  <2>2. TypeOK' /\ OutputInv' /\ SupInv'
    BY <1>6, <2>1 DEF SupWaits, Reap, ExitStatus, RunInv, TypeOK, OutputInv, SupInv, Requested
  <2>3. QED
    BY <2>1, <2>2 DEF RunInv
<1>7. CASE SupPolls
  BY <1>7 DEF SupPolls, Reap, ExitStatus, Complete, RunInv, TypeOK, EventsInv, OutputInv, SupInv, Requested
<1>8. CASE SupFinishes
  BY <1>8 DEF SupFinishes, RunInv, TypeOK, EventsInv, OutputInv, SupInv, Requested
<1>9. QED
  BY <1>1, <1>2, <1>3, <1>4, <1>5, <1>6, <1>7, <1>8 DEF SupStep

\* RunInv holds in every state of a run.
LEMMA RunInvHolds == Spec => []RunInv
<1>1. RunInv /\ [Next]_vars => RunInv'
  <2> SUFFICES ASSUME RunInv, [Next]_vars PROVE RunInv'
    OBVIOUS
  <2>1. CASE UNCHANGED vars
    BY <2>1 DEF RunInv, TypeOK, EventsInv, OutputInv, SupInv, Requested
  <2>2. QED
    BY <2>1, ChildInv, ReaderInv, OwnerInv, SupervisorInv DEF Next
<1>2. QED
  BY <1>1, RunInvInit, PTL DEF Spec

-------------------------------------------------------------------------------
\* Every variable stays in its range: in particular the reader never holds more
\* than one chunk past the limit.
THEOREM TypeCorrect == Spec => []TypeOK
BY RunInvHolds, PTL DEF RunInv

\* The supervisor never signals a process that it has already reaped.
THEOREM KillsOnlyItsChild == Spec => []NeverKillsReaped
<1>1. RunInv => NeverKillsReaped
  BY DEF RunInv, SupInv, NeverKillsReaped
<1>2. QED
  BY <1>1, RunInvHolds, PTL

\* A run that has ended has left no process behind.
THEOREM LeavesNoProcess == Spec => []ReapedAtTheEnd
<1>1. RunInv => ReapedAtTheEnd
  BY DEF RunInv, SupInv, ReapedAtTheEnd
<1>2. QED
  BY <1>1, RunInvHolds, PTL

\* A result delivered as read to its end is whole.
THEOREM DeliversWholeOutput == Spec => []DeliveredWhole
<1>1. RunInv => DeliveredWhole
  BY DEF RunInv, TypeOK, SupInv, OutputInv, DeliveredWhole, Outcome
<1>2. QED
  BY <1>1, RunInvHolds, PTL

\* Output past the limit is always refused.
THEOREM RefusesPastLimit == Spec => []RefusedPastLimit
<1>1. RunInv => RefusedPastLimit
  BY DEF RunInv, TypeOK, SupInv, OutputInv, RefusedPastLimit, Outcome
<1>2. QED
  BY <1>1, RunInvHolds, PTL

\* Every step of the run is a step that CliRun allows, or leaves what CliRun
\* speaks about alone: reaping, settling once, and never an interrupted result
\* that nobody asked for.
THEOREM RefinesRun == Spec => Abstract!SafeRun
<1> USE DEF Abstract!RunInit, Abstract!RunNext, Abstract!runVars, Abstract!Ask,
        Abstract!Reap, Abstract!Settle, Abstract!Deliver, Abstract!Discard,
        Requested, Outcome
<1>1. Init => Abstract!RunInit
  BY DEF Init
<1>2. RunInv /\ [Next]_vars => [Abstract!RunNext]_(Abstract!runVars)
  <2> SUFFICES ASSUME RunInv, [Next]_vars
               PROVE  [Abstract!RunNext]_(Abstract!runVars)
    OBVIOUS
  <2>1. CASE UNCHANGED vars
    BY <2>1
  <2>2. CASE ChildStep
    BY <2>2 DEF ChildStep, ChildExits, ChildIsKilled, ChildDies, ChildStartsWrite,
                ChildWrites, ChildCloses, HeirCloses
  <2>3. ASSUME NEW p \in Pipes, ReaderStep(p)
        PROVE  [Abstract!RunNext]_(Abstract!runVars)
    BY <2>3 DEF ReaderStep, ReaderChecks, ReaderTakes, ReaderEnds, ReaderSends
  <2>4. CASE CancelStores \/ DropStores
    BY <2>4 DEF CancelStores, DropStores, RunInv, TypeOK
  <2>5. CASE OwnerSends
    BY <2>5 DEF OwnerSends, CancelSends, DropSends, RunInv, EventsInv
  <2>6. CASE SupStep
    <3>1. CASE SupReceivesCancel
      <4>1. Requested
        BY <3>1, TailType DEF SupReceivesCancel, RunInv, EventsInv
      <4>2. QED
        BY <3>1, <4>1 DEF SupReceivesCancel, MustKill, RunInv, SupInv
    <3>2. CASE SupReceivesStdout \/ SupReceivesStderr \/ SupTimesOut \/ SupKills
      BY <3>2 DEF SupReceivesStdout, SupReceivesStderr, SupTimesOut, SupKills, Receives
    <3>3. CASE SupWaits
      BY <3>3 DEF SupWaits, Reap, ExitStatus, RunInv, SupInv
    <3>4. CASE SupPolls
      BY <3>4 DEF SupPolls, Reap, ExitStatus
    <3>5. CASE SupFinishes
      BY <3>5 DEF SupFinishes, RunInv, TypeOK, SupInv, OutputInv
    <3>6. QED
      BY <2>6, <3>1, <3>2, <3>3, <3>4, <3>5 DEF SupStep
  <2>7. QED
    BY <2>1, <2>2, <2>3, <2>4, <2>5, <2>6 DEF Next
<1>3. QED
  BY <1>1, <1>2, RunInvHolds, PTL DEF Spec, Abstract!SafeRun

===============================================================================
