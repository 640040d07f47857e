--------------------------- MODULE StreamScan_proofs ---------------------------
(***************************************************************************)
(* Proofs about StreamScan for every input, range, size of the reads and set *)
(* of programs: an analysis completes when it can, and a complete one has    *)
(* counted every packet of its range once.                                  *)
(*                                                                         *)
(* ReaderPlaced says where the reader is in each phase; TargetReached that of  *)
(* two PATs from which the analysis could be completed, one is still ahead.   *)
(* The lemmas named ...Keeps show that each step keeps both.                  *)
(***************************************************************************)
EXTENDS StreamScan, Induction

\* The end of what can be read.
Limit == IF end > 0 /\ end < Length THEN end ELSE Length

StreamTypes ==
  /\ stream \in Streams /\ mode \in {"program", "list", "range"}
  /\ end \in Nat /\ readPackets \in Nat \ {0}
  /\ reader \in Nat /\ fileOffset \in Nat /\ readStart \in Nat /\ pos \in Nat
  /\ phase \in {"discover", "pat", "pmt", "scan", "done"}
  /\ listed \in {{}, Programs}

\* Where the reader is in each phase, and what is known of the starts of a scan.
ReaderPlaced ==
  /\ phase = "discover" => fileOffset \in {reader - 1, reader}
  /\ phase = "pat" => reader = readStart /\ pos = readStart /\ readStart + 2 < Limit
  /\ phase \in {"pmt", "scan"} => reader = pos /\ readStart < pos /\ pos <= Limit
  /\ phase = "scan" => \A n \in DOMAIN starts :
       /\ starts[n] \in Nat /\ pos <= starts[n]
       /\ \E i \in 0 .. starts[n] - 1 : stream[i] = n
  /\ status = "running" <=> phase # "done"

\* A PAT to be found and one to be found if the first is missed; they are the same
\* when it cannot be.
Target(i, j) ==
  /\ mode = "program" /\ i \in Readable(0) /\ j \in Readable(0)
  /\ Analyzable(i) /\ Analyzable(j) /\ OneIsFound(i, j)
  /\ \A k \in Readable(0) : k < j => stream[k] # EmptyPat

\* A discovery at r is not past the first, or it is not past the second and full reads
\* have led here from just behind the first.
NotPast(r, size, i, j) ==
  r <= i \/ (r <= j /\ \E q \in Nat, c \in {1, 2} : r = i + q * size + c)

\* No two such PATs are left behind.
TargetReached ==
  \A i, j \in Nat : Target(i, j) =>
    /\ phase = "discover" => NotPast(reader, readPackets, i, j)
    /\ phase = "pat" => pos <= j
    /\ phase = "pmt" => listed = Programs /\ pos <= Acquire(Pats, j).pos
    /\ phase = "done" => status = "complete"

StreamInv == StreamTypes /\ ReaderPlaced /\ TargetReached /\ CompleteCountsOnce

-------------------------------------------------------------------------------
(* Minima.                                                                   *)

\* A set of natural numbers has a least element.
LEMMA LeastIs ==
  ASSUME NEW T \in SUBSET Nat, T # {}
  PROVE  Min(T) \in T /\ \A x \in T : Min(T) <= x
BY LeastNatural DEF Min

\* The lesser and the greater of two numbers.
LEMMA OfTwo ==
  ASSUME NEW a \in Int, NEW b \in Int
  PROVE  Min({a, b}) = (IF a <= b THEN a ELSE b) /\ Max({a, b}) = (IF a >= b THEN a ELSE b)
<1>1. \E x \in {a, b} : x = (IF a <= b THEN a ELSE b) /\ \A y \in {a, b} : x <= y
  OBVIOUS
<1>2. \E x \in {a, b} : x = (IF a >= b THEN a ELSE b) /\ \A y \in {a, b} : x >= y
  OBVIOUS
<1>3. QED BY <1>1, <1>2 DEF Min, Max

\* The second least element of a set that has one.
LEMMA SecondIs ==
  ASSUME NEW T \in SUBSET Nat, IsFiniteSet(T)
  PROVE  /\ Cardinality(T) < 2 => \A x, y \in T : x = y
         /\ Cardinality(T) >= 2 =>
              LET s == Min(T \ {Min(T)})
              IN /\ s \in T /\ \E x \in T : x < s
                 /\ \A x, y \in T : x < y => s <= y
<1>0. Cardinality(T) \in Nat /\ (Cardinality(T) = 0 <=> T = {})
  BY FS_CardinalityType, FS_EmptySet
<1>1. ASSUME Cardinality(T) < 2, NEW x \in T, NEW y \in T PROVE x = y
  <2>1. /\ IsFiniteSet(T \ {x})
        /\ Cardinality(T \ {x}) = Cardinality(T) - 1
    BY FS_RemoveElement
  <2>2. Cardinality(T \ {x}) = 0
    BY <2>1, <1>0, <1>1, FS_CardinalityType
  <2>3. T \ {x} = {}
    BY <2>1, <2>2, FS_EmptySet
  <2>4. QED BY <2>3
<1>2. ASSUME Cardinality(T) >= 2
      PROVE  LET s == Min(T \ {Min(T)})
             IN /\ s \in T /\ \E x \in T : x < s
                /\ \A x, y \in T : x < y => s <= y
  <2> DEFINE m == Min(T)
             s == Min(T \ {m})
  <2>1. m \in T /\ \A x \in T : m <= x
    BY <1>0, <1>2, LeastIs
  <2>2. T \ {m} # {}
    <3>1. Cardinality(T \ {m}) = Cardinality(T) - 1
      BY <2>1, FS_RemoveElement
    <3>2. QED BY <3>1, <1>2, <1>0, FS_EmptySet
  <2>3. s \in T \ {m} /\ \A x \in T \ {m} : s <= x
    <3> HIDE DEF m
    <3>1. QED BY <2>2, LeastIs
  <2>4. m < s
    <3> HIDE DEF m, s
    <3>1. m \in Nat /\ s \in Nat /\ s # m /\ m <= s
      BY <2>1, <2>3
    <3>2. QED BY <3>1
  <2>5. \A x, y \in T : x < y => s <= y
    BY <2>1, <2>3
  <2>6. QED BY <2>1, <2>3, <2>4, <2>5
<1>3. QED BY <1>1, <1>2

-------------------------------------------------------------------------------
(* The input and what is read of it.                                         *)

\* The offsets of the packets are those up to the length.
LEMMA StreamIs ==
  ASSUME StreamTypes
  PROVE  /\ Length \in Nat /\ DOMAIN stream = 0 .. Length - 1
         /\ \A i \in 0 .. Length - 1 : stream[i] \in Kinds
         /\ Limit \in Nat /\ Limit <= Length
         /\ end > 0 => Limit <= end
<1>1. IsFiniteSet(DOMAIN stream) /\ stream \in [0 .. Length - 1 -> Kinds]
  BY ScanAssumption DEF StreamTypes, Length
<1>2. Length \in Nat
  BY <1>1, FS_CardinalityType DEF Length
<1>3. QED BY <1>1, <1>2 DEF Limit, StreamTypes

\* What can be read from an offset on.
LEMMA ReadableIs ==
  ASSUME StreamTypes, NEW from \in Nat
  PROVE  /\ Readable(from) = from .. Limit - 1
         /\ from <= Limit => Cardinality(Readable(from)) = Limit - from
<1>1. Readable(from) = from .. Limit - 1
  BY StreamIs DEF Readable, Limit, StreamTypes
<1>2. ASSUME from <= Limit PROVE Cardinality(from .. Limit - 1) = Limit - from
  <2>1. Limit \in Nat
    BY StreamIs
  <2> DEFINE last == Limit - 1
  <2>2. last \in Int /\ Limit = last + 1
    BY <2>1
  <2> HIDE DEF last
  <2>3. Cardinality(from .. last) = IF from > last THEN 0 ELSE last - from + 1
    BY <2>2, FS_Interval
  <2>4. Cardinality(from .. last) = Limit - from
    BY <1>2, <2>1, <2>2, <2>3
  <2>5. QED BY <2>4 DEF last
<1>3. QED BY <1>1, <1>2

\* The packets of some kinds among them.
Of(kinds, from) == {i \in Readable(from) : stream[i] \in kinds}

\* Where the second of them is over, or the end without one.
AfterSecond(kinds, from) ==
  IF Cardinality(Of(kinds, from)) < 2 THEN Limit
  ELSE Min(Of(kinds, from) \ {Min(Of(kinds, from))}) + 1

\* They are finitely many.
LEMMA OfIs ==
  ASSUME StreamTypes, NEW from \in Nat, NEW kinds
  PROVE  /\ Of(kinds, from) \in SUBSET Nat /\ IsFiniteSet(Of(kinds, from))
         /\ \A i : i \in Of(kinds, from) <=> i \in from .. Limit - 1 /\ stream[i] \in kinds
<1>1. Of(kinds, from) = {i \in from .. Limit - 1 : stream[i] \in kinds}
  BY ReadableIs DEF Of
<1>2. IsFiniteSet(from .. Limit - 1)
  BY StreamIs, FS_Interval
<1>3. IsFiniteSet(Of(kinds, from))
  BY <1>1, <1>2, FS_Subset
<1>4. QED BY <1>1, <1>3, StreamIs

\* The place after the second of them.
LEMMA AfterSecondIs ==
  ASSUME StreamTypes, NEW from \in Nat, from <= Limit, NEW kinds
  PROVE  /\ AfterSecond(kinds, from) \in from .. Limit
         /\ Of(kinds, from) # {} => from < AfterSecond(kinds, from)
         /\ \A i, j \in Of(kinds, from) : i < j => AfterSecond(kinds, from) <= j + 1
         /\ \/ AfterSecond(kinds, from) = Limit
            \/ \E i, j \in Of(kinds, from) : i < j /\ AfterSecond(kinds, from) = j + 1
<1> DEFINE T == Of(kinds, from)
<1>1. /\ T \in SUBSET Nat /\ IsFiniteSet(T)
      /\ \A i : i \in T <=> i \in from .. Limit - 1 /\ stream[i] \in kinds
  BY OfIs
<1>2. Limit \in Nat /\ Cardinality(T) \in Nat
  BY <1>1, StreamIs, FS_CardinalityType
<1>3. CASE Cardinality(T) < 2
  <2>1. AfterSecond(kinds, from) = Limit
    BY <1>3 DEF AfterSecond
  <2>2. \A i, j \in T : i = j
    <3> HIDE DEF T
    <3>1. QED BY <1>1, <1>3, SecondIs
  <2>3. QED
    <3> HIDE DEF T
    <3>1. \A i, j \in T : i < j => AfterSecond(kinds, from) <= j + 1
      BY <2>2, <1>1
    <3>2. T # {} => from < Limit
      BY <1>1, <1>2
    <3>3. QED BY <2>1, <3>1, <3>2, <1>2 DEF T
<1>4. CASE Cardinality(T) >= 2
  <2> DEFINE s == Min(T \ {Min(T)})
  <2>1. AfterSecond(kinds, from) = s + 1
    BY <1>2, <1>4 DEF AfterSecond
  <2>2. /\ s \in T /\ \E x \in T : x < s
        /\ \A x, y \in T : x < y => s <= y
    <3> HIDE DEF T
    <3>1. QED BY <1>1, <1>4, SecondIs
  <2>3. QED
    <3> HIDE DEF T, s
    <3>1. s \in from .. Limit - 1
      BY <2>2, <1>1
    <3>2. \A i, j \in T : i < j => AfterSecond(kinds, from) <= j + 1
      BY <2>1, <2>2, <1>1
    <3>3. QED BY <2>1, <2>2, <3>1, <3>2, <1>1, <1>2 DEF T
<1>5. QED BY <1>2, <1>3, <1>4

\* acquireTable: the first packet of the table and the place after its second, or
\* the packet that cannot be parsed, or the end.
LEMMA AcquireIs ==
  ASSUME StreamTypes, NEW from \in Nat, from <= Limit, NEW kinds
  PROVE  LET r == Acquire(kinds, from) IN
         /\ r.ok \in BOOLEAN /\ r.pos \in from .. Limit
         /\ r.ok => /\ r.pos = AfterSecond(kinds, from) /\ r.reader = r.pos
                    /\ r.at \in Of(kinds, from) /\ r.at < r.pos
                    /\ \A i \in Of(kinds, from) : r.at <= i
         /\ ~r.ok => \/ /\ r.pos \in Readable(from) /\ stream[r.pos] = Bad /\ r.reader = r.pos + 1
                     \/ r.pos = Limit /\ r.reader = Limit /\ Of(kinds, from) = {}
<1> DEFINE T == Of(kinds, from)
           last == IF Cardinality(T) < 2 THEN from + Cardinality(Readable(from)) ELSE Min(T \ {Min(T)})
           bad == {i \in Readable(from) : stream[i] = Bad /\ i < last}
           after == IF Cardinality(T) < 2 THEN last ELSE last + 1
<1>1. Acquire(kinds, from) =
        (IF bad # {} THEN [ok |-> FALSE, pos |-> Min(bad), reader |-> Min(bad) + 1, at |-> 0]
         ELSE IF T = {} THEN [ok |-> FALSE, pos |-> last, reader |-> last, at |-> 0]
         ELSE [ok |-> TRUE, pos |-> after, reader |-> after, at |-> Min(T)])
  BY DEF Acquire, Of
<1>2. Readable(from) = from .. Limit - 1 /\ Cardinality(Readable(from)) = Limit - from /\ Limit \in Nat
  BY ReadableIs, StreamIs
<1>3. after = AfterSecond(kinds, from)
  BY <1>2 DEF AfterSecond
<1>4. T = {} => Cardinality(T) < 2 /\ last = Limit
  BY <1>2, FS_EmptySet
<1>5. /\ T \in SUBSET Nat
      /\ AfterSecond(kinds, from) \in from .. Limit
      /\ \A i \in T : i \in from .. Limit - 1
      /\ \A i, j \in T : i < j => AfterSecond(kinds, from) <= j + 1
      /\ \/ AfterSecond(kinds, from) = Limit
         \/ \E i, j \in T : i < j /\ AfterSecond(kinds, from) = j + 1
  BY AfterSecondIs, OfIs
<1> DEFINE second == AfterSecond(kinds, from)
           A == Acquire(kinds, from)
<1>6. CASE bad # {}
  <2>1. bad \in SUBSET Nat
    BY <1>2
  <2>2. Min(bad) \in bad
    <3> HIDE DEF bad
    <3>1. QED BY <2>1, <1>6, LeastIs
  <2>3. A = [ok |-> FALSE, pos |-> Min(bad), reader |-> Min(bad) + 1, at |-> 0]
    BY <1>1, <1>6
  <2>4. Min(bad) \in Readable(from) /\ stream[Min(bad)] = Bad
    BY <2>2
  <2>5. QED
    <3> HIDE DEF bad, T, A
    <3>1. QED BY <2>3, <2>4, <1>2 DEF A
<1>7. CASE bad = {} /\ T = {}
  <2>1. A = [ok |-> FALSE, pos |-> Limit, reader |-> Limit, at |-> 0]
    BY <1>1, <1>7, <1>4
  <2>2. QED BY <2>1, <1>2, <1>7
<1>8. CASE bad = {} /\ T # {}
  <2>1. A = [ok |-> TRUE, pos |-> second, reader |-> second, at |-> Min(T)]
    BY <1>1, <1>8, <1>3
  <2>2. Min(T) \in T /\ \A i \in T : Min(T) <= i
    <3> HIDE DEF T
    <3>1. QED BY <1>5, <1>8, LeastIs
  <2> DEFINE m == Min(T)
  <2>3. m < second
    <3> HIDE DEF T, m, second
    <3>0. m \in from .. Limit - 1 /\ \A i \in T : m <= i /\ i \in Nat
      BY <1>5, <2>2 DEF m
    <3>1. CASE second = Limit
      BY <3>0, <3>1, <1>2
    <3>2. CASE \E i, j \in T : i < j /\ second = j + 1
      BY <3>0, <3>2
    <3>3. QED BY <3>1, <3>2, <1>5 DEF second
  <2>4. QED
    <3> HIDE DEF m, second, A
    <3>1. QED BY <2>1, <2>2, <2>3, <1>5 DEF m, second, A
<1>9. QED BY <1>6, <1>7, <1>8

\* From an earlier offset the table is complete no later.
LEMMA AcquiredNoLater ==
  ASSUME StreamTypes, NEW from \in Nat, NEW later \in Nat, from <= later, later <= Limit, NEW kinds
  PROVE  AfterSecond(kinds, from) <= AfterSecond(kinds, later)
<1>1. Limit \in Nat
  BY StreamIs
<1>2. Of(kinds, later) \subseteq Of(kinds, from)
  BY OfIs, <1>1
<1>3. /\ AfterSecond(kinds, from) \in from .. Limit
      /\ \A i, j \in Of(kinds, from) : i < j => AfterSecond(kinds, from) <= j + 1
  BY AfterSecondIs, <1>1
<1>4. \/ AfterSecond(kinds, later) = Limit
      \/ \E i, j \in Of(kinds, later) : i < j /\ AfterSecond(kinds, later) = j + 1
  BY AfterSecondIs
<1>5. QED BY <1>1, <1>2, <1>3, <1>4

-------------------------------------------------------------------------------
(* Discovery.                                                                *)

\* How much one read of the discovery buffer holds.
LEMMA ReadSizeIs ==
  ASSUME StreamTypes
  PROVE  /\ ReadSize \in Int /\ ReadSize <= Length - reader /\ ReadSize <= readPackets
         /\ end > 0 /\ ReadSize > 0 => ReadSize <= end - fileOffset
         /\ \A m \in Nat : /\ m <= Length - reader /\ m <= readPackets
                           /\ end > 0 => m <= end - fileOffset
                           => m <= ReadSize
<1>1. /\ Length \in Nat /\ reader \in Nat /\ fileOffset \in Nat /\ end \in Nat
      /\ readPackets \in Nat
  BY StreamIs DEF StreamTypes
<1>2. Max({end - fileOffset, 0}) = IF end - fileOffset >= 0 THEN end - fileOffset ELSE 0
  BY <1>1, OfTwo
<1> DEFINE left == Max({end - fileOffset, 0})
           wanted == IF end > 0 THEN Min({readPackets, left}) ELSE readPackets
<1>3. left \in Int /\ (Min({readPackets, left}) = IF readPackets <= left THEN readPackets ELSE left)
  <2>1. left \in Int
    BY <1>1, <1>2
  <2> HIDE DEF left
  <2>2. QED BY <2>1, <1>1, OfTwo
<1>4. wanted \in Int /\ wanted <= readPackets /\ (end > 0 => wanted <= left)
      /\ (wanted = readPackets \/ (end > 0 /\ wanted = left))
  <2> HIDE DEF left
  <2>1. QED BY <1>1, <1>3
<1>5. ReadSize = Min({wanted, Length - reader})
  BY DEF ReadSize
<1>6. ReadSize = IF wanted <= Length - reader THEN wanted ELSE Length - reader
  <2> HIDE DEF wanted
  <2>1. Length - reader \in Int
    BY <1>1
  <2>2. QED BY <1>4, <1>5, <2>1, OfTwo
<1>7. QED
  <2>1. left = IF end - fileOffset >= 0 THEN end - fileOffset ELSE 0
    BY <1>2
  <2> HIDE DEF left, wanted
  <2>2. QED BY <1>1, <1>4, <1>6, <2>1

\* A PAT that is found is the first, two packets that can be read follow it, and
\* it is at most a packet before its place in the read.
LEMMA FoundIs ==
  ASSUME StreamTypes, fileOffset \in {reader - 1, reader}, ReadSize > 0,
         FindPat(reader, ReadSize) # {}
  PROVE  LET k == Min(FindPat(reader, ReadSize)) IN
         /\ k \in Nat /\ fileOffset + k + 2 < Limit
         /\ \A x \in FindPat(reader, ReadSize) : k <= x
<1> DEFINE T == FindPat(reader, ReadSize)
           k == Min(T)
<1>1. T \in SUBSET Nat /\ \A x \in T : x <= ReadSize - 3
  BY ReadSizeIs DEF FindPat
<1>2. k \in T /\ \A x \in T : k <= x
  <2> HIDE DEF T
  <2>1. QED BY <1>1, LeastIs DEF T
<1>3. /\ Length \in Nat /\ reader \in Nat /\ fileOffset \in Nat /\ end \in Nat
  BY StreamIs DEF StreamTypes
<1>4. k \in Nat /\ k <= ReadSize - 3
  <2> HIDE DEF T, k
  <2>1. QED BY <1>1, <1>2
<1>5. fileOffset + k + 2 < Length /\ (end > 0 => fileOffset + k + 2 < end)
  <2> HIDE DEF T, k
  <2>1. QED BY <1>3, <1>4, ReadSizeIs
<1>6. fileOffset + k + 2 < Limit
  BY <1>5 DEF Limit
<1>7. QED BY <1>2, <1>4, <1>6

\* What is known of a PAT from which the program can be analyzed.
LEMMA AnalyzableIs ==
  ASSUME StreamTypes, NEW i \in Nat, Analyzable(i)
  PROVE  /\ i + 2 < Limit /\ stream[i] = Pat /\ i \in Of(Pats, i)
         /\ \A b \in Nat : b < Limit /\ stream[b] = Bad => b < i
         /\ LET pat == Acquire(Pats, i) IN
            /\ pat.pos = AfterSecond(Pats, i) /\ pat.pos \in i .. Limit
            /\ Of({Selected}, pat.pos) # {}
<1>1. /\ stream[i] = Pat /\ i + 2 \in Readable(0)
      /\ \A j \in Readable(i) : stream[j] # Bad
      /\ \E j \in Readable(0) : Acquire(Pats, i).pos <= j /\ stream[j] = Selected
  BY DEF Analyzable
<1>2. Limit \in Nat
  BY StreamIs
<1>3. Readable(0) = 0 .. Limit - 1 /\ Readable(i) = i .. Limit - 1
  BY ReadableIs
<1>4. i + 2 < Limit
  BY <1>1, <1>2, <1>3
<1>5. \A b \in Nat : b < Limit /\ stream[b] = Bad => b < i
  BY <1>1, <1>2, <1>3, <1>4
<1>6. i \in Of(Pats, i)
  BY <1>1, <1>2, <1>3, <1>4 DEF Of, Pats
<1>7. Acquire(Pats, i).pos = AfterSecond(Pats, i) /\ Acquire(Pats, i).pos \in i .. Limit
  <2>1. i <= Limit
    BY <1>4, <1>2
  <2> DEFINE r == Acquire(Pats, i)
  <2>2. /\ r.ok \in BOOLEAN /\ r.pos \in i .. Limit
        /\ r.ok => r.pos = AfterSecond(Pats, i)
        /\ ~r.ok => \/ r.pos \in Readable(i) /\ stream[r.pos] = Bad
                    \/ Of(Pats, i) = {}
    BY <2>1, AcquireIs
  <2> HIDE DEF r
  <2>3. r.ok
    BY <2>2, <1>1, <1>6
  <2>4. QED BY <2>2, <2>3 DEF r
<1>8. Of({Selected}, Acquire(Pats, i).pos) # {}
  <2> DEFINE p == Acquire(Pats, i).pos
  <2>1. p \in Nat
    BY <1>7, <1>2
  <2>2. PICK j \in Readable(0) : p <= j /\ stream[j] = Selected
    BY <1>1
  <2> HIDE DEF p
  <2>3. j \in Of({Selected}, p)
    BY <2>1, <2>2, <1>2, <1>3, OfIs
  <2>4. QED BY <2>3 DEF p
<1>9. QED BY <1>1, <1>4, <1>5, <1>6, <1>7, <1>8

\* What cannot be parsed lies before both PATs, and no PAT without programs before the
\* second.
LEMMA TargetIs ==
  ASSUME StreamTypes, NEW i \in Nat, NEW j \in Nat, Target(i, j)
  PROVE  /\ i <= j /\ Analyzable(i) /\ Analyzable(j) /\ OneIsFound(i, j) /\ mode = "program"
         /\ \A k \in Nat : k < j => stream[k] # EmptyPat
         /\ \A b \in Nat : b < Limit /\ stream[b] = Bad => b < i
<1>1. /\ mode = "program" /\ Analyzable(i) /\ Analyzable(j) /\ OneIsFound(i, j)
      /\ \A k \in Readable(0) : k < j => stream[k] # EmptyPat
  BY DEF Target
<1>2. Readable(0) = 0 .. Limit - 1 /\ Limit \in Nat /\ j + 2 < Limit
  BY <1>1, ReadableIs, StreamIs, AnalyzableIs
<1>3. i <= j
  BY <1>1 DEF OneIsFound
<1>4. QED BY <1>1, <1>2, <1>3, AnalyzableIs

\* One read finds a PAT that it is not past, or it is full and ends at most two packets
\* after it.
LEMMA ReadReaches ==
  ASSUME StreamTypes, NEW x \in Nat, Analyzable(x), reader <= x, fileOffset \in {reader - 1, reader}
  PROVE  /\ ReadSize > 0 /\ ReadSize <= readPackets
         /\ \/ x - reader \in FindPat(reader, ReadSize)
            \/ ReadSize = readPackets /\ reader + readPackets <= x + 2
<1>1. x + 2 < Limit /\ stream[x] = Pat
  BY AnalyzableIs
<1>2. Limit \in Nat /\ Limit <= Length /\ Length \in Nat /\ reader \in Nat /\ readPackets \in Nat \ {0}
      /\ (end > 0 => Limit <= end) /\ end \in Nat /\ fileOffset \in Nat
  BY StreamIs DEF StreamTypes
<1>3. ReadSize \in Int /\ ReadSize <= readPackets
  BY ReadSizeIs
<1>4. CASE x + 3 - reader <= readPackets
  <2> DEFINE m == x + 3 - reader
  <2>1. m \in Nat /\ m <= Length - reader /\ m <= readPackets /\ (end > 0 => m <= end - fileOffset)
    BY <1>1, <1>2, <1>4
  <2>2. m <= ReadSize
    <3> HIDE DEF m
    <3>1. QED BY <2>1, ReadSizeIs
  <2>3. x - reader \in 0 .. ReadSize - 3 /\ reader + (x - reader) = x /\ ReadSize > 0
    BY <1>2, <1>3, <2>2
  <2>4. stream[reader + (x - reader)] \in Pats
    BY <1>1, <2>3 DEF Pats
  <2>5. QED BY <1>3, <2>3, <2>4 DEF FindPat
<1>5. CASE ~(x + 3 - reader <= readPackets)
  <2>1. readPackets <= Length - reader /\ (end > 0 => readPackets <= end - fileOffset)
    BY <1>1, <1>2, <1>5
  <2>2. readPackets <= ReadSize
    BY <1>2, <2>1, ReadSizeIs
  <2>3. QED BY <1>2, <1>3, <1>5, <2>2
<1>6. QED BY <1>4, <1>5

\* What is found is not behind such a PAT.
LEMMA FoundBefore ==
  ASSUME StreamTypes, NEW x \in Nat, Analyzable(x), reader <= x, fileOffset \in {reader - 1, reader},
         FindPat(reader, ReadSize) # {}
  PROVE  reader + Min(FindPat(reader, ReadSize)) <= x
<1> DEFINE T == FindPat(reader, ReadSize)
           k == Min(T)
<1>1. T \in SUBSET Nat /\ ReadSize \in Int /\ \A y \in T : y <= ReadSize - 3
  BY ReadSizeIs DEF FindPat
<1>2. k \in T /\ \A y \in T : k <= y
  <2> HIDE DEF T
  <2>1. QED BY <1>1, LeastIs DEF T
<1>3. reader \in Nat /\ readPackets \in Nat
  BY DEF StreamTypes
<1>4. x - reader \in T \/ (ReadSize = readPackets /\ reader + readPackets <= x + 2)
  BY ReadReaches
<1> HIDE DEF T, k
<1>5. reader + k <= x
  BY <1>1, <1>2, <1>3, <1>4
<1>6. QED BY <1>5 DEF T, k

\* A remainder is the only one.
LEMMA RemainderOf ==
  ASSUME NEW p \in Nat \ {0}, NEW q \in Int, NEW r \in 0 .. p - 1, NEW y \in Int, y = q * p + r
  PROVE  y % p = r
<1> DEFINE r2 == y % p
           q2 == y \div p
<1>1. r2 \in 0 .. p - 1 /\ q2 \in Int /\ y = p * q2 + r2
  OBVIOUS
<1> HIDE DEF r2, q2
<1> DEFINE d == q - q2
<1>2. d \in Int /\ p * d = r2 - r
  BY <1>1
<1> HIDE DEF d
<1>3. ~(d >= 1)
  <2>1. d >= 1 => p * d >= p
    BY <1>2
  <2>2. QED BY <1>1, <1>2, <2>1
<1>4. ~(d <= -1)
  <2>1. d <= -1 => p * d <= -p
    BY <1>2
  <2>2. QED BY <1>1, <1>2, <2>1
<1>5. d = 0
  BY <1>2, <1>3, <1>4
<1>6. p * d = 0
  BY <1>5
<1>7. QED BY <1>1, <1>2, <1>6 DEF r2

\* A distance of a number of full reads, or one more or less, is none of a target's.
LEMMA NearFullReads ==
  ASSUME NEW size \in Nat \ {0}, NEW q \in Nat, NEW e \in {-1, 0, 1}, NEW d \in Nat, d = q * size + e
  PROVE  d % size \in {0, 1, size - 1}
<1>1. CASE size = 1
  BY <1>1
<1>2. CASE size # 1 /\ e # -1
  <2>1. e \in 0 .. size - 1 /\ d \in Int /\ q \in Int
    BY <1>2
  <2>2. d % size = e
    BY <2>1, RemainderOf
  <2>3. QED BY <1>2, <2>2
<1>3. CASE size # 1 /\ e = -1
  <2>1. size - 1 \in 0 .. size - 1 /\ d = (q - 1) * size + (size - 1) /\ q - 1 \in Int /\ d \in Int
    BY <1>3
  <2>2. d % size = size - 1
    BY <2>1, RemainderOf
  <2>3. QED BY <2>2
<1>4. QED BY <1>1, <1>2, <1>3

\* A read that finds nothing does not bring discovery past a target.
LEMMA NotPastNext ==
  ASSUME StreamTypes, NEW i \in Nat, NEW j \in Nat, Target(i, j), NotPast(reader, readPackets, i, j),
         fileOffset \in {reader - 1, reader}, FindPat(reader, ReadSize) = {}
  PROVE  NotPast(reader + ReadSize, readPackets, i, j)
<1> DEFINE size == readPackets
           next == reader + size
<1>1. size \in Nat \ {0} /\ reader \in Nat /\ next \in Nat
  BY DEF StreamTypes
<1>2. i <= j /\ Analyzable(i) /\ Analyzable(j) /\ OneIsFound(i, j) /\ i + 2 < Limit
  BY TargetIs, AnalyzableIs
<1>3. \/ i = j /\ Length <= size
      \/ i < j /\ (j - i) % size \notin {0, 1, size - 1}
  BY <1>2 DEF OneIsFound
<1>4. Limit \in Nat /\ Length \in Nat /\ Limit <= Length
  BY StreamIs
<1>5. ASSUME NEW q \in Nat, NEW e \in {-1, 0, 1}, j - i = q * size + e, i < j PROVE FALSE
  <2>1. j - i \in Nat
    BY <1>5
  <2> HIDE DEF size
  <2>2. (j - i) % size \in {0, 1, size - 1}
    BY <1>1, <1>5, <2>1, NearFullReads
  <2>3. QED BY <1>3, <1>5, <2>2
<1>6. CASE reader <= i
  <2>1. ReadSize = size /\ next <= i + 2
    BY <1>2, <1>6, ReadReaches
  <2>2. CASE next <= i
    BY <2>1, <2>2 DEF NotPast
  <2>3. CASE ~(next <= i)
    <3>1. PICK c \in {1, 2} : next = i + c
      BY <1>1, <2>1, <2>3
    <3>2. i < j
      <4> HIDE DEF size
      <4>1. QED BY <1>1, <1>2, <1>3, <1>4, <2>1 DEF next
    <3>3. next <= j
      <4>1. SUFFICES ASSUME ~(next <= j) PROVE FALSE
        OBVIOUS
      <4>2. j - i = 1
        BY <1>1, <3>1, <3>2, <4>1
      <4> HIDE DEF size, next
      <4>3. j - i = 0 * size + 1
        BY <1>1, <4>2
      <4>4. QED BY <1>5, <3>2, <4>3
    <3>4. next = i + 0 * size + c /\ 0 \in Nat
      <4> HIDE DEF size
      <4>1. QED BY <1>1, <3>1
    <3>5. QED BY <2>1, <3>3, <3>4 DEF NotPast
  <2>4. QED BY <2>2, <2>3
<1>7. CASE ~(reader <= i)
  <2>1. PICK q \in Nat, c \in {1, 2} : reader <= j /\ reader = i + q * size + c
    BY <1>7 DEF NotPast
  <2>2. ReadSize = size /\ next <= j + 2
    BY <1>2, <2>1, ReadReaches
  <2>3. i < j
    BY <1>1, <1>7, <2>1
  <2>4. next = i + (q + 1) * size + c /\ q + 1 \in Nat
    <3> HIDE DEF size
    <3>1. (q + 1) * size = q * size + size /\ q * size \in Int
      BY <1>1
    <3>2. QED BY <1>1, <2>1, <3>1 DEF next
  <2>5. next <= j
    <3>1. SUFFICES ASSUME ~(next <= j) PROVE FALSE
      OBVIOUS
    <3>2. PICK d \in {1, 2} : next = j + d
      BY <1>1, <2>2, <3>1
    <3> HIDE DEF size, next
    <3>3. (q + 1) * size \in Int /\ c - d \in {-1, 0, 1}
      BY <1>1
    <3>4. j - i = (q + 1) * size + (c - d)
      BY <1>1, <2>4, <3>2, <3>3
    <3>5. QED BY <1>5, <2>3, <2>4, <3>3, <3>4
  <2>6. QED BY <2>2, <2>4, <2>5 DEF NotPast
<1>8. QED BY <1>6, <1>7

\* Discovery that is not past a target has something to read.
LEMMA TargetLeft ==
  ASSUME StreamTypes, NEW i \in Nat, NEW j \in Nat, Target(i, j), NotPast(reader, readPackets, i, j),
         fileOffset \in {reader - 1, reader}
  PROVE  /\ ReadSize > 0
         /\ FindPat(reader, ReadSize) # {} => reader + Min(FindPat(reader, ReadSize)) <= j
<1>1. i <= j /\ Analyzable(i) /\ Analyzable(j)
  BY TargetIs
<1>2. reader <= j
  BY <1>1 DEF NotPast, StreamTypes
<1>3. QED BY <1>1, <1>2, ReadReaches, FoundBefore

-------------------------------------------------------------------------------
(* The steps.                                                                *)

inputVars == <<stream, mode, end, readPackets>>

\* Acquire, given the packets of the table and those that cannot be parsed.
Found(of, bads, from, readable) ==
  LET last == IF Cardinality(of) < 2 THEN from + readable ELSE Min(of \ {Min(of)})
      next == IF Cardinality(of) < 2 THEN last ELSE last + 1
      bad  == {i \in bads : i < last}
  IN IF bad # {} THEN [ok |-> FALSE, pos |-> Min(bad), reader |-> Min(bad) + 1, at |-> 0]
     ELSE IF of = {} THEN [ok |-> FALSE, pos |-> last, reader |-> last, at |-> 0]
     ELSE [ok |-> TRUE, pos |-> next, reader |-> next, at |-> Min(of)]

\* What is said of the input alone does not change.
LEMMA InputKept ==
  ASSUME UNCHANGED inputVars
  PROVE  /\ Limit' = Limit
         /\ \A i, j \in Nat : Target(i, j)' <=> Target(i, j)
         /\ \A i \in Nat : Acquire(Pats, i)' = Acquire(Pats, i)
<1>1. stream' = stream /\ mode' = mode /\ end' = end /\ readPackets' = readPackets
  BY DEF inputVars
<1>2. Length' = Length
  BY <1>1 DEF Length
<1>3. \A from : Readable(from)' = Readable(from)
  BY <1>1, <1>2 DEF Readable
<1>4. \A from, kinds : Acquire(kinds, from)' = Acquire(kinds, from)
  <2> TAKE from, kinds
  <2> DEFINE T == {i \in Readable(from) : stream[i] \in kinds}
             B == {i \in Readable(from) : stream[i] = Bad}
  <2>1. T' = T /\ B' = B /\ Cardinality(Readable(from))' = Cardinality(Readable(from))
    BY <1>1, <1>3
  <2>2. Acquire(kinds, from) = Found(T, B, from, Cardinality(Readable(from)))
    BY DEF Acquire, Found
  <2>3. Acquire(kinds, from)' = Found(T', B', from, Cardinality(Readable(from))')
    BY DEF Acquire, Found
  <2>4. QED BY <2>1, <2>2, <2>3
<1>5. Limit' = Limit
  BY <1>1, <1>2 DEF Limit
<1>6. \A i \in Nat : Analyzable(i)' <=> Analyzable(i)
  BY <1>1, <1>3, <1>4 DEF Analyzable
<1>7. \A i, j \in Nat : Target(i, j)' <=> Target(i, j)
  BY <1>1, <1>2, <1>3, <1>6 DEF Target, OneIsFound
<1>8. QED BY <1>4, <1>5, <1>7

\* A step that does not complete the analysis, by the parts of the invariant.
LEMMA Incomplete ==
  ASSUME UNCHANGED inputVars, StreamTypes', ReaderPlaced', status' # "complete",
         \A i, j \in Nat : Target(i, j) =>
           /\ phase' = "discover" => NotPast(reader', readPackets, i, j)
           /\ phase' = "pat" => pos' <= j
           /\ phase' = "pmt" => listed' = Programs /\ pos' <= Acquire(Pats, j).pos
           /\ phase' # "done"
  PROVE  StreamInv'
<1>1. /\ \A i, j \in Nat : (Target(i, j)' <=> Target(i, j)) /\ Acquire(Pats, j)' = Acquire(Pats, j)
      /\ readPackets' = readPackets
  BY InputKept DEF inputVars
<1>2. TargetReached'
  BY <1>1 DEF TargetReached, NotPast
<1>3. CompleteCountsOnce'
  BY DEF CompleteCountsOnce
<1>4. QED BY <1>2, <1>3 DEF StreamInv

\* A retry goes on at the packet after the failure, or at the end, and no target
\* is before it.
LEMMA RetryKeeps ==
  ASSUME StreamInv, UNCHANGED <<inputVars, readStart, status>>, phase # "done",
         NEW at \in Nat, NEW now \in Nat, Retry(at, now), listed' \in {{}, Programs},
         (readStart <= at /\ now = at + 1) \/ (readStart < at /\ now = at),
         \A i, j \in Nat : Target(i, j) => now <= i
  PROVE  StreamInv'
<1>1. /\ stream' = stream /\ mode' = mode /\ end' = end /\ readPackets' = readPackets
      /\ readStart' = readStart /\ status' = status
      /\ reader' = now /\ pos' = at /\ phase' = "discover"
      /\ fileOffset' = Max({at, readStart + 1})
  BY DEF inputVars, Retry
<1>2. readStart \in Nat
  BY DEF StreamInv, StreamTypes
<1>3. fileOffset' = IF at >= readStart + 1 THEN at ELSE readStart + 1
  <2>1. readStart + 1 \in Int
    BY <1>2
  <2>2. QED BY <1>1, <2>1, OfTwo
<1>4. fileOffset' \in {now - 1, now} /\ fileOffset' \in Nat
  BY <1>2, <1>3
<1>5. StreamTypes'
  BY <1>1, <1>4 DEF StreamInv, StreamTypes
<1>6. status = "running"
  BY DEF StreamInv, ReaderPlaced
<1>7. ReaderPlaced'
  BY <1>1, <1>4, <1>6 DEF ReaderPlaced
<1>8. \A i, j \in Nat : Target(i, j) => NotPast(reader', readPackets, i, j)
  BY <1>1 DEF NotPast
<1>9. QED BY <1>1, <1>5, <1>6, <1>7, <1>8, Incomplete

\* Nothing found in one read of the buffer.
LEMMA NoPatKeeps ==
  ASSUME StreamInv, NoPat
  PROVE  StreamInv'
<1>1. /\ UNCHANGED inputVars /\ phase = "discover" /\ phase' = phase /\ status' = status
      /\ FindPat(reader, ReadSize) = {} /\ ReadSize > 0
      /\ fileOffset' = fileOffset + ReadSize /\ reader' = reader + ReadSize
      /\ UNCHANGED <<readStart, pos, listed, starts>>
  BY DEF NoPat, inputVars
<1>2. StreamTypes /\ fileOffset \in {reader - 1, reader} /\ status = "running"
      /\ ReadSize \in Nat /\ reader \in Nat /\ fileOffset \in Nat
  BY <1>1, ReadSizeIs DEF StreamInv, ReaderPlaced, StreamTypes
<1>3. reader' \in Nat /\ fileOffset' \in Nat /\ fileOffset' \in {reader' - 1, reader'}
  BY <1>1, <1>2
<1>4. StreamTypes'
  BY <1>1, <1>2, <1>3 DEF StreamTypes, inputVars
<1>5. ReaderPlaced'
  BY <1>1, <1>2, <1>3 DEF ReaderPlaced
<1>6. ASSUME NEW i \in Nat, NEW j \in Nat, Target(i, j)
      PROVE  NotPast(reader', readPackets, i, j)
  <2>1. NotPast(reader, readPackets, i, j)
    BY <1>1, <1>6 DEF StreamInv, TargetReached
  <2>2. QED BY <1>1, <1>2, <1>6, <2>1, NotPastNext
<1>7. status' # "complete"
  BY <1>1, <1>2
<1>8. QED BY <1>1, <1>4, <1>5, <1>6, <1>7, Incomplete

\* A PAT found.
LEMMA FoundPatKeeps ==
  ASSUME StreamInv, FoundPat
  PROVE  StreamInv'
<1> DEFINE k == Min(FindPat(reader, ReadSize))
<1>1. /\ UNCHANGED inputVars /\ phase = "discover" /\ phase' = "pat" /\ status' = status
      /\ FindPat(reader, ReadSize) # {} /\ ReadSize > 0
      /\ readStart' = fileOffset + k /\ pos' = fileOffset + k /\ reader' = fileOffset + k
      /\ fileOffset' = fileOffset + ReadSize
      /\ UNCHANGED <<listed, starts>>
  BY DEF FoundPat, inputVars
<1>2. StreamTypes /\ fileOffset \in {reader - 1, reader} /\ status = "running"
      /\ ReadSize \in Nat /\ reader \in Nat /\ fileOffset \in Nat
  BY <1>1, ReadSizeIs DEF StreamInv, ReaderPlaced, StreamTypes
<1>3. k \in Nat /\ fileOffset + k + 2 < Limit /\ \A x \in FindPat(reader, ReadSize) : k <= x
  BY <1>1, <1>2, FoundIs
<1>4. Limit' = Limit
  BY <1>1, InputKept
<1> HIDE DEF k
<1>5. StreamTypes'
  BY <1>1, <1>2, <1>3 DEF StreamTypes, inputVars
<1>6. ReaderPlaced'
  BY <1>1, <1>2, <1>3, <1>4 DEF ReaderPlaced
<1>7. ASSUME NEW i \in Nat, NEW j \in Nat, Target(i, j) PROVE pos' <= j
  <2>1. NotPast(reader, readPackets, i, j)
    BY <1>1, <1>7 DEF StreamInv, TargetReached
  <2>2. reader + k <= j
    BY <1>1, <1>2, <1>7, <2>1, TargetLeft DEF k
  <2>3. QED BY <1>1, <1>2, <1>3, <2>2
<1>8. status' # "complete"
  BY <1>1, <1>2
<1>9. QED BY <1>1, <1>5, <1>6, <1>7, <1>8, Incomplete

\* The end, without a result.
LEMMA EndOfInputKeeps ==
  ASSUME StreamInv, EndOfInput
  PROVE  StreamInv'
<1>1. /\ UNCHANGED inputVars /\ phase = "discover" /\ phase' = "done"
      /\ status' \in {"incomplete", "no_pat"} /\ ReadSize <= 0
      /\ UNCHANGED <<reader, fileOffset, readStart, pos, listed, starts>>
  BY DEF EndOfInput, Finish, inputVars
<1>2. StreamTypes /\ fileOffset \in {reader - 1, reader}
  BY <1>1 DEF StreamInv, ReaderPlaced
<1>3. StreamTypes'
  BY <1>1, <1>2 DEF StreamTypes, inputVars
<1>4. ReaderPlaced'
  BY <1>1 DEF ReaderPlaced
<1>5. \A i, j \in Nat : ~Target(i, j)
  <2>1. \A i, j \in Nat : Target(i, j) => NotPast(reader, readPackets, i, j)
    BY <1>1 DEF StreamInv, TargetReached
  <2>2. ReadSize \in Int
    BY <1>2, ReadSizeIs
  <2>3. QED BY <1>1, <1>2, <2>1, <2>2, TargetLeft
<1>6. QED BY <1>1, <1>3, <1>4, <1>5, Incomplete

\* The PAT acquired, or not.
LEMMA AcquirePatKeeps ==
  ASSUME StreamInv, AcquirePat
  PROVE  StreamInv'
<1> DEFINE pat == Acquire(Pats, reader)
<1>1. /\ UNCHANGED inputVars /\ phase = "pat" /\ UNCHANGED <<readStart, status, starts>>
      /\ ~pat.ok => Retry(pat.pos, pat.reader) /\ listed' = listed
      /\ pat.ok => /\ listed' = (IF stream[pat.at] = Pat THEN Programs ELSE {})
                   /\ reader' = pat.pos /\ pos' = pat.pos /\ phase' = "pmt" /\ fileOffset' = fileOffset
  BY DEF AcquirePat, inputVars
<1>2. StreamTypes /\ reader = readStart /\ pos = readStart /\ readStart + 2 < Limit /\ status = "running"
  BY <1>1 DEF StreamInv, ReaderPlaced
<1>3. reader \in Nat /\ readStart \in Nat /\ Limit \in Nat /\ reader <= Limit
  BY <1>2, StreamIs DEF StreamTypes
<1>4. /\ pat.ok \in BOOLEAN /\ pat.pos \in reader .. Limit
      /\ pat.ok => /\ pat.pos = AfterSecond(Pats, reader)
                   /\ pat.at \in Of(Pats, reader) /\ pat.at < pat.pos
                   /\ \A i \in Of(Pats, reader) : pat.at <= i
      /\ ~pat.ok => \/ /\ pat.pos \in Readable(reader) /\ stream[pat.pos] = Bad /\ pat.reader = pat.pos + 1
                    \/ pat.pos = Limit /\ pat.reader = Limit /\ Of(Pats, reader) = {}
  BY <1>2, <1>3, AcquireIs
<1>5. Readable(reader) = reader .. Limit - 1
  BY <1>2, <1>3, ReadableIs
<1>6. \A i, j \in Nat : Target(i, j) => reader <= j /\ j < Limit /\ j \in Of(Pats, reader)
  <2>1. \A i, j \in Nat : Target(i, j) => pos <= j
    BY <1>1 DEF StreamInv, TargetReached
  <2> SUFFICES ASSUME NEW i \in Nat, NEW j \in Nat, Target(i, j)
               PROVE  reader <= j /\ j < Limit /\ j \in Of(Pats, reader)
    OBVIOUS
  <2>2. j + 2 < Limit /\ stream[j] = Pat
    BY <1>2, TargetIs, AnalyzableIs
  <2>3. j \in reader .. Limit - 1 /\ stream[j] \in Pats
    BY <1>2, <1>3, <2>1, <2>2 DEF Pats
  <2>4. j \in Of(Pats, reader)
    BY <1>2, <1>3, <2>3, OfIs
  <2>5. QED BY <2>3, <2>4, <1>3
<1> HIDE DEF pat
<1>7. CASE ~pat.ok
  <2>1. CASE pat.pos \in Readable(reader) /\ stream[pat.pos] = Bad /\ pat.reader = pat.pos + 1
    <3>1. pat.pos \in Nat /\ pat.pos < Limit /\ readStart <= pat.pos
      BY <2>1, <1>2, <1>3, <1>5
    <3>2. \A i, j \in Nat : Target(i, j) => pat.pos < i
      BY <3>1, <2>1, <1>2, TargetIs
    <3>3. \A i, j \in Nat : Target(i, j) => pat.reader <= i
      BY <2>1, <3>1, <3>2
    <3>4. listed' \in {{}, Programs}
      BY <1>1, <1>7, <1>2 DEF StreamTypes
    <3>5. pat.reader \in Nat
      BY <2>1, <3>1
    <3>6. QED BY <1>1, <1>7, <2>1, <3>1, <3>3, <3>4, <3>5, RetryKeeps
  <2>2. CASE pat.pos = Limit /\ pat.reader = Limit /\ Of(Pats, reader) = {}
    <3>1. \A i, j \in Nat : Target(i, j) => pat.reader <= i
      BY <1>6, <2>2
    <3>2. listed' \in {{}, Programs}
      BY <1>1, <1>7, <1>2 DEF StreamTypes
    <3>3. readStart < Limit
      BY <1>2, <1>3
    <3>4. QED BY <1>1, <1>3, <1>7, <2>2, <3>1, <3>2, <3>3, RetryKeeps
  <2>3. QED BY <1>4, <1>7, <2>1, <2>2
<1>8. CASE pat.ok
  <2>1. readStart < pat.pos /\ pat.pos <= Limit /\ pat.pos \in Nat
    <3>1. pat.at \in reader .. Limit - 1
      BY <1>2, <1>3, <1>4, <1>8, OfIs
    <3>2. QED BY <1>2, <1>3, <1>4, <1>8, <3>1
  <2>2. Limit' = Limit
    BY <1>1, InputKept
  <2>3. listed' \in {{}, Programs}
    BY <1>1, <1>8
  <2>4. StreamTypes'
    BY <1>1, <1>2, <1>8, <2>1, <2>3 DEF StreamTypes, inputVars
  <2>5. ReaderPlaced'
    BY <1>1, <1>2, <1>8, <2>1, <2>2 DEF ReaderPlaced
  <2>6. ASSUME NEW i \in Nat, NEW j \in Nat, Target(i, j)
        PROVE  listed' = Programs /\ pos' <= Acquire(Pats, j).pos
    <3>1. reader <= j /\ j < Limit /\ j \in Of(Pats, reader)
      BY <1>6, <2>6
    <3>2. pat.at <= j /\ pat.at \in Nat /\ stream[pat.at] \in Pats
      <4>1. pat.at \in Of(Pats, reader)
        BY <1>4, <1>8
      <4>2. QED BY <1>2, <1>3, <1>4, <1>8, <3>1, <4>1, OfIs
    <3>3. stream[j] = Pat /\ \A k \in Nat : k < j => stream[k] # EmptyPat
      BY <1>2, <2>6, TargetIs, AnalyzableIs
    <3>4. stream[pat.at] = Pat
      BY <3>2, <3>3 DEF Pats
    <3>5. Acquire(Pats, j).pos = AfterSecond(Pats, j)
      BY <1>2, <2>6, TargetIs, AnalyzableIs
    <3>6. AfterSecond(Pats, reader) <= AfterSecond(Pats, j)
      BY <1>2, <1>3, <3>1, AcquiredNoLater
    <3>7. QED BY <1>1, <1>4, <1>8, <3>4, <3>5, <3>6
  <2>7. phase' = "pmt" /\ status' # "complete"
    BY <1>1, <1>2, <1>8
  <2>8. QED BY <1>1, <2>4, <2>5, <2>6, <2>7, Incomplete
<1>9. QED BY <1>4, <1>7, <1>8

\* The PMT of the selected program acquired, or not.
LEMMA AcquirePmtKeeps ==
  ASSUME StreamInv, AcquirePmt
  PROVE  StreamInv'
<1> DEFINE pmt == Acquire({Selected}, pos)
<1>1. /\ UNCHANGED inputVars /\ phase = "pmt" /\ UNCHANGED <<readStart, status, listed>>
      /\ listed = {} => fileOffset' = pos /\ phase' = "discover" /\ UNCHANGED <<reader, pos, starts>>
      /\ listed # {} /\ ~pmt.ok => Retry(pmt.pos, pmt.reader)
      /\ listed # {} /\ pmt.ok =>
           /\ reader' = pmt.pos /\ pos' = pmt.pos /\ phase' = "scan" /\ fileOffset' = fileOffset
           /\ starts' = [n \in {Selected} |-> pmt.pos]
  BY DEF AcquirePmt, inputVars
<1>2. StreamTypes /\ reader = pos /\ readStart < pos /\ pos <= Limit /\ status = "running"
  BY <1>1 DEF StreamInv, ReaderPlaced
<1>3. pos \in Nat /\ readStart \in Nat /\ Limit \in Nat
  BY <1>2, StreamIs DEF StreamTypes
<1>4. /\ pmt.ok \in BOOLEAN /\ pmt.pos \in pos .. Limit
      /\ pmt.ok => pmt.at \in Of({Selected}, pos) /\ pmt.at < pmt.pos
      /\ ~pmt.ok => \/ /\ pmt.pos \in Readable(pos) /\ stream[pmt.pos] = Bad /\ pmt.reader = pmt.pos + 1
                    \/ pmt.pos = Limit /\ pmt.reader = Limit /\ Of({Selected}, pos) = {}
  BY <1>2, <1>3, AcquireIs
<1>5. Readable(pos) = pos .. Limit - 1
  BY <1>2, <1>3, ReadableIs
<1>6. \A i, j \in Nat : Target(i, j) => listed = Programs /\ pos <= Acquire(Pats, j).pos
  BY <1>1 DEF StreamInv, TargetReached
<1> HIDE DEF pmt
<1>7. CASE listed = {}
  <2>1. \A i, j \in Nat : ~Target(i, j)
    BY <1>6, <1>7, ScanAssumption
  <2>2. StreamTypes'
    BY <1>1, <1>2, <1>3, <1>7 DEF StreamTypes, inputVars
  <2>3. ReaderPlaced'
    BY <1>1, <1>2, <1>3, <1>7 DEF ReaderPlaced
  <2>4. QED BY <1>1, <1>2, <2>1, <2>2, <2>3, Incomplete
<1>8. CASE listed # {} /\ ~pmt.ok
  <2>0. listed' \in {{}, Programs}
    BY <1>1, <1>2 DEF StreamTypes
  <2>1. CASE pmt.pos \in Readable(pos) /\ stream[pmt.pos] = Bad /\ pmt.reader = pmt.pos + 1
    <3>1. pmt.pos \in Nat /\ pmt.pos < Limit /\ readStart <= pmt.pos
      BY <2>1, <1>2, <1>3, <1>5
    <3>2. \A i, j \in Nat : Target(i, j) => pmt.pos < i
      BY <3>1, <2>1, <1>2, TargetIs
    <3>3. \A i, j \in Nat : Target(i, j) => pmt.reader <= i
      BY <2>1, <3>1, <3>2
    <3>4. pmt.reader \in Nat
      BY <2>1, <3>1
    <3>5. QED BY <1>1, <1>8, <2>0, <2>1, <3>1, <3>3, <3>4, RetryKeeps
  <2>2. CASE pmt.pos = Limit /\ pmt.reader = Limit /\ Of({Selected}, pos) = {}
    <3>1. ASSUME NEW i \in Nat, NEW k \in Nat, Target(i, k) PROVE FALSE
      <4> DEFINE p == Acquire(Pats, k).pos
      <4>1. p \in k .. Limit /\ Of({Selected}, p) # {}
        BY <1>2, <3>1, TargetIs, AnalyzableIs
      <4>2. pos <= p
        BY <1>6, <3>1
      <4> HIDE DEF p
      <4>3. p \in Nat
        BY <4>1, <1>3
      <4>4. PICK j \in Of({Selected}, p) : TRUE
        BY <4>1
      <4>5. j \in p .. Limit - 1 /\ stream[j] \in {Selected}
        BY <1>2, <4>3, <4>4, OfIs
      <4>6. j \in pos .. Limit - 1
        BY <1>3, <4>2, <4>3, <4>5
      <4>7. j \in Of({Selected}, pos)
        BY <1>2, <1>3, <4>5, <4>6, OfIs
      <4>8. QED BY <2>2, <4>7
    <3>2. readStart < Limit
      BY <1>2, <1>3
    <3>3. QED BY <1>1, <1>3, <1>8, <2>0, <2>2, <3>1, <3>2, RetryKeeps
  <2>3. QED BY <1>4, <1>8, <2>1, <2>2
<1>9. CASE listed # {} /\ pmt.ok
  <2>1. pmt.at \in pos .. Limit - 1 /\ stream[pmt.at] = Selected
    BY <1>2, <1>3, <1>4, <1>9, OfIs
  <2>2. /\ readStart < pmt.pos /\ pmt.pos <= Limit /\ pmt.pos \in Nat
        /\ pmt.at \in 0 .. pmt.pos - 1
    BY <1>2, <1>3, <1>4, <1>9, <2>1
  <2>3. Limit' = Limit /\ stream' = stream
    BY <1>1, InputKept DEF inputVars
  <2>4. StreamTypes'
    BY <1>1, <1>2, <1>9, <2>2 DEF StreamTypes, inputVars
  <2>5. /\ DOMAIN starts' = {Selected} /\ starts'[Selected] = pmt.pos
        /\ \E i \in 0 .. pmt.pos - 1 : stream'[i] = Selected
    BY <1>1, <1>9, <2>1, <2>2, <2>3
  <2>6. \A n \in DOMAIN starts' : /\ starts'[n] \in Nat /\ pos' <= starts'[n]
                                  /\ \E i \in 0 .. starts'[n] - 1 : stream'[i] = n
    BY <1>1, <1>9, <2>2, <2>5
  <2>7. ReaderPlaced'
    BY <1>1, <1>2, <1>9, <2>2, <2>3, <2>6 DEF ReaderPlaced
  <2>8. phase' = "scan" /\ status' # "complete"
    BY <1>1, <1>2, <1>9
  <2>9. QED BY <1>1, <2>4, <2>7, <2>8, Incomplete
<1>10. QED BY <1>4, <1>7, <1>8, <1>9

\* The other modes have no target.
LEMMA NoTarget ==
  ASSUME mode # "program"
  PROVE  \A i, j \in Nat : ~Target(i, j)
BY DEF Target

\* The list of the programs, and a range in which none can be analyzed.
LEMMA EndsWithoutScan ==
  ASSUME StreamInv, ListPrograms \/ NoProgram
  PROVE  StreamInv'
<1>1. /\ UNCHANGED inputVars /\ mode # "program" /\ phase' = "done"
      /\ status' \in {"programs_listed", "incomplete"}
      /\ UNCHANGED <<reader, fileOffset, readStart, pos, listed, starts>>
  BY DEF ListPrograms, NoProgram, Finish, inputVars
<1>2. StreamTypes'
  BY <1>1 DEF StreamInv, StreamTypes, inputVars
<1>3. ReaderPlaced'
  BY <1>1 DEF ReaderPlaced
<1>4. QED BY <1>1, <1>2, <1>3, Incomplete, NoTarget

\* The PMTs of a range: each program starts after its own, the scan at the first.
LEMMA AcquirePmtsKeeps ==
  ASSUME StreamInv, AcquirePmts
  PROVE  StreamInv'
<1> DEFINE pmt(n) == Acquire({n}, pos)
           found == {n \in listed : pmt(n).ok}
           places == {pmt(n).pos : n \in found}
<1>1. /\ UNCHANGED inputVars /\ mode # "program" /\ phase = "pmt" /\ phase' = "scan" /\ found # {}
      /\ UNCHANGED <<readStart, status, listed, fileOffset>>
      /\ starts' = [n \in found |-> pmt(n).pos]
      /\ pos' = Min(places) /\ reader' = Min(places)
  BY DEF AcquirePmts, inputVars
<1>2. StreamTypes /\ reader = pos /\ readStart < pos /\ pos <= Limit /\ status = "running"
  BY <1>1 DEF StreamInv, ReaderPlaced
<1>3. pos \in Nat /\ readStart \in Nat /\ Limit \in Nat
  BY <1>2, StreamIs DEF StreamTypes
<1>4. ASSUME NEW n \in found
      PROVE  /\ pmt(n).pos \in pos .. Limit
             /\ \E i \in 0 .. pmt(n).pos - 1 : stream[i] = n
  <2>0. pmt(n).ok
    BY <1>4
  <2>1. /\ pmt(n).pos \in pos .. Limit
        /\ pmt(n).ok => pmt(n).at \in Of({n}, pos) /\ pmt(n).at < pmt(n).pos
    BY <1>2, <1>3, AcquireIs
  <2> HIDE DEF pmt
  <2>2. pmt(n).at \in pos .. Limit - 1 /\ stream[pmt(n).at] = n
    BY <1>2, <1>3, <2>0, <2>1, OfIs
  <2>3. QED BY <1>3, <2>0, <2>1, <2>2
<1> HIDE DEF pmt, found
<1>5. places \in SUBSET Nat /\ places # {} /\ \A x \in places : pos <= x /\ x <= Limit
  BY <1>1, <1>3, <1>4
<1>6. Min(places) \in places /\ \A x \in places : Min(places) <= x
  <2> HIDE DEF places
  <2>1. QED BY <1>5, LeastIs
<1>7. pos' \in Nat /\ readStart < pos' /\ pos' <= Limit /\ reader' = pos'
  <2>1. pos' \in places /\ reader' = pos'
    BY <1>1, <1>6
  <2> HIDE DEF places
  <2>2. QED BY <1>2, <1>3, <1>5, <2>1
<1>8. Limit' = Limit /\ stream' = stream
  BY <1>1, InputKept DEF inputVars
<1>9. StreamTypes'
  BY <1>1, <1>2, <1>7 DEF StreamTypes, inputVars
<1>10. ASSUME NEW n \in DOMAIN starts'
       PROVE  /\ starts'[n] \in Nat /\ pos' <= starts'[n]
              /\ \E i \in 0 .. starts'[n] - 1 : stream'[i] = n
  <2>1. n \in found /\ starts'[n] = pmt(n).pos
    BY <1>1
  <2>2. starts'[n] \in places
    BY <2>1
  <2>3. pos' <= starts'[n] /\ starts'[n] \in Nat
    BY <1>1, <1>5, <1>6, <2>2
  <2>4. \E i \in 0 .. pmt(n).pos - 1 : stream[i] = n
    BY <1>4, <2>1
  <2>5. QED BY <1>8, <2>1, <2>3, <2>4
<1>11. ReaderPlaced'
  BY <1>1, <1>2, <1>7, <1>8, <1>10 DEF ReaderPlaced
<1>12. QED BY <1>1, <1>2, <1>9, <1>11, Incomplete, NoTarget

\* The range scanned to its end.
LEMMA ScanCompleteKeeps ==
  ASSUME StreamInv, ScanComplete
  PROVE  StreamInv'
<1>1. /\ UNCHANGED inputVars /\ phase = "scan" /\ FirstBad = {} /\ phase' = "done"
      /\ status' = "complete" /\ seen' = Counted(Lead, Length)
      /\ pos' = pos + Cardinality(Readable(pos)) /\ reader' = pos'
      /\ UNCHANGED <<fileOffset, readStart, listed, starts>>
      /\ stream' = stream
  BY DEF ScanComplete, Finish, inputVars
<1>2. /\ StreamTypes /\ pos <= Limit
      /\ \A n \in DOMAIN starts : /\ starts[n] \in Nat /\ pos <= starts[n]
                                  /\ \E i \in 0 .. starts[n] - 1 : stream[i] = n
  BY <1>1 DEF StreamInv, ReaderPlaced
<1>3. pos \in Nat /\ Limit \in Nat /\ Length \in Nat /\ Limit <= Length /\ DOMAIN stream = 0 .. Length - 1
  BY <1>2, StreamIs DEF StreamTypes
<1>4. Cardinality(Readable(pos)) = Limit - pos /\ \A from \in Nat : Readable(from) = from .. Limit - 1
  BY <1>2, <1>3, ReadableIs
<1>5. pos' \in Nat /\ reader' = pos'
  BY <1>1, <1>3, <1>4, <1>2
<1>6. StreamTypes'
  BY <1>1, <1>2, <1>5 DEF StreamTypes, inputVars
<1>7. ReaderPlaced'
  BY <1>1 DEF ReaderPlaced
<1>8. TargetReached'
  BY <1>1 DEF TargetReached
<1>9. \A b \in pos .. Limit - 1 : stream[b] # Bad
  BY <1>1, <1>3, <1>4 DEF FirstBad
<1>10. \A i \in DOMAIN stream :
         seen'[i] = IF i \in pos .. Limit - 1 THEN Lead[i] + 1 ELSE Lead[i]
  BY <1>1, <1>3, <1>4 DEF Counted
<1>11. \A i \in DOMAIN stream : Lead[i] = IF i < pos /\ stream[i] # Bad THEN 1 ELSE 0
  BY DEF Lead
<1>12. \A i \in 0 .. Limit - 1 : seen'[i] = IF stream[i] = Bad THEN 0 ELSE 1
  <2> TAKE i \in 0 .. Limit - 1
  <2>1. i \in DOMAIN stream
    BY <1>3
  <2>2. CASE i < pos
    BY <1>2, <1>3, <1>10, <1>11, <2>1, <2>2
  <2>3. CASE ~(i < pos)
    <3>1. i \in pos .. Limit - 1
      BY <1>3, <2>3
    <3>2. QED BY <1>9, <1>10, <1>11, <2>1, <2>3, <3>1
  <2>4. QED BY <2>2, <2>3
<1>13. \A i \in DOMAIN stream \ (0 .. Limit - 1) : seen'[i] = 0
  <2> TAKE i \in DOMAIN stream \ (0 .. Limit - 1)
  <2>1. i \in DOMAIN stream /\ ~(i < pos) /\ i \notin pos .. Limit - 1
    BY <1>2, <1>3
  <2>2. QED BY <1>10, <1>11, <2>1
<1>14. \A n \in DOMAIN starts : \A i \in starts[n] .. Limit - 1 : stream[i] # Bad
  <2> TAKE n \in DOMAIN starts
  <2> TAKE i \in starts[n] .. Limit - 1
  <2>1. i \in pos .. Limit - 1
    BY <1>2, <1>3
  <2>2. QED BY <1>9, <2>1
<1>15. Limit' = Limit /\ \A from : Readable(from)' = Readable(from)
  <2>1. Length' = Length /\ end' = end
    BY <1>1 DEF Length, inputVars
  <2>2. QED BY <2>1, <1>1, InputKept DEF Readable
<1>16. CompleteCountsOnce'
  <2>1. \A i \in Readable(0)' : seen'[i] = (IF stream'[i] = Bad THEN 0 ELSE 1)
    BY <1>1, <1>4, <1>12, <1>15
  <2>2. \A i \in DOMAIN stream' \ Readable(0)' : seen'[i] = 0
    BY <1>1, <1>4, <1>13, <1>15
  <2>3. \A n \in DOMAIN starts' :
          \A i \in {j \in starts'[n] .. Length' - 1 : end' = 0 \/ j < end'} : stream'[i] # Bad
    <3>1. \A n \in DOMAIN starts : Readable(starts[n]) = starts[n] .. Limit - 1
      BY <1>2, <1>4
    <3>2. \A n \in DOMAIN starts : \A i \in Readable(starts[n]) : stream[i] # Bad
      BY <1>14, <3>1
    <3>3. end' = end /\ Length' = Length
      BY <1>1 DEF Length, inputVars
    <3>4. QED BY <1>1, <3>2, <3>3 DEF Readable
  <2>4. \A n \in DOMAIN starts' : \E i \in 0 .. starts'[n] - 1 : stream'[i] = n
    BY <1>1, <1>2
  <2>5. QED BY <2>1, <2>2, <2>3, <2>4, Zenon DEF CompleteCountsOnce, Readable
<1>17. QED BY <1>6, <1>7, <1>8, <1>16 DEF StreamInv

\* A scan that fails, for good or for a retry.
LEMMA ScanFailsKeeps ==
  ASSUME StreamInv, ScanFails
  PROVE  StreamInv'
<1> DEFINE b == Min(FirstBad)
<1>1. /\ UNCHANGED inputVars /\ phase = "scan" /\ FirstBad # {}
      /\ UNCHANGED <<readStart, listed>>
      /\ mode = "range" => /\ phase' = "done" /\ status' = "failed"
                           /\ UNCHANGED <<reader, fileOffset, pos>>
      /\ mode # "range" => Retry(b, b + 1) /\ status' = status
  BY DEF ScanFails, inputVars
<1>2. StreamTypes /\ readStart < pos /\ pos <= Limit
  BY <1>1 DEF StreamInv, ReaderPlaced
<1>3. pos \in Nat /\ readStart \in Nat /\ Limit \in Nat
  BY <1>2, StreamIs DEF StreamTypes
<1>4. FirstBad \in SUBSET Nat /\ \A i \in FirstBad : i \in pos .. Limit - 1 /\ stream[i] = Bad
  BY <1>2, <1>3, ReadableIs DEF FirstBad
<1>5. b \in FirstBad
  BY <1>1, <1>4, LeastIs
<1> HIDE DEF b
<1>6. b \in Nat /\ b < Limit /\ readStart <= b /\ stream[b] = Bad
  BY <1>2, <1>3, <1>4, <1>5
<1>7. CASE mode = "range"
  <2>1. StreamTypes'
    BY <1>1, <1>2, <1>7 DEF StreamTypes, inputVars
  <2>2. ReaderPlaced'
    BY <1>1, <1>7 DEF ReaderPlaced
  <2>3. QED BY <1>1, <1>7, <2>1, <2>2, Incomplete, NoTarget
<1>8. CASE mode # "range"
  <2>1. \A i, j \in Nat : Target(i, j) => b + 1 <= i
    BY <1>2, <1>6, TargetIs
  <2>2. listed' \in {{}, Programs}
    BY <1>1, <1>2 DEF StreamTypes
  <2>3. b + 1 \in Nat
    BY <1>6
  <2>4. QED BY <1>1, <1>6, <1>8, <2>1, <2>2, <2>3, RetryKeeps
<1>9. QED BY <1>7, <1>8

-------------------------------------------------------------------------------
(* The theorems.                                                             *)

\* The invariant holds initially.
LEMMA StreamInvInit == Init => StreamInv
<1> SUFFICES ASSUME Init PROVE StreamInv
  OBVIOUS
<1>1. StreamTypes
  BY ScanAssumption DEF Init, StreamTypes
<1>2. ReaderPlaced
  BY DEF Init, ReaderPlaced
<1>3. TargetReached
  BY DEF Init, TargetReached, NotPast
<1>4. CompleteCountsOnce
  BY DEF Init, CompleteCountsOnce
<1>5. QED BY <1>1, <1>2, <1>3, <1>4 DEF StreamInv

\* Every step keeps it.
LEMMA StreamInvNext == StreamInv /\ [Next]_scanVars => StreamInv'
<1> SUFFICES ASSUME StreamInv, [Next]_scanVars PROVE StreamInv'
  OBVIOUS
<1>1. CASE NoPat
  BY <1>1, NoPatKeeps
<1>2. CASE FoundPat
  BY <1>2, FoundPatKeeps
<1>3. CASE EndOfInput
  BY <1>3, EndOfInputKeeps
<1>4. CASE AcquirePat
  BY <1>4, AcquirePatKeeps
<1>5. CASE AcquirePmt
  BY <1>5, AcquirePmtKeeps
<1>6. CASE ListPrograms \/ NoProgram
  BY <1>6, EndsWithoutScan
<1>7. CASE AcquirePmts
  BY <1>7, AcquirePmtsKeeps
<1>8. CASE ScanComplete
  BY <1>8, ScanCompleteKeeps
<1>9. CASE ScanFails
  BY <1>9, ScanFailsKeeps
<1>10. CASE UNCHANGED scanVars
  <2>1. UNCHANGED inputVars /\ UNCHANGED <<reader, fileOffset, readStart, pos, phase, listed, starts, status, seen>>
    BY <1>10 DEF scanVars, inputVars
  <2>2. stream' = stream /\ end' = end /\ Length' = Length /\ Limit' = Limit
    BY <2>1, InputKept DEF inputVars, Length
  <2>3. StreamTypes'
    BY <2>1 DEF StreamInv, StreamTypes, inputVars
  <2>4. ReaderPlaced'
    BY <2>1, <2>2 DEF StreamInv, ReaderPlaced
  <2>5. /\ \A i, j \in Nat : (Target(i, j)' <=> Target(i, j)) /\ Acquire(Pats, j)' = Acquire(Pats, j)
        /\ readPackets' = readPackets
    BY <2>1, InputKept DEF inputVars
  <2>6. TargetReached'
    BY <2>1, <2>5 DEF StreamInv, TargetReached, NotPast
  <2>7. CompleteCountsOnce'
    BY <2>1, <2>2 DEF StreamInv, CompleteCountsOnce, Readable
  <2>8. QED BY <2>3, <2>4, <2>6, <2>7 DEF StreamInv
<1>11. QED BY <1>1, <1>2, <1>3, <1>4, <1>5, <1>6, <1>7, <1>8, <1>9, <1>10 DEF Next

\* A scan that could be completed is, every packet of a complete one was counted
\* once, and discovery knows where the reader is, within a packet.
LEMMA StreamInvImplies == StreamInv => CompleteAsDefined
<1> SUFFICES ASSUME StreamInv PROVE CompleteAsDefined
  OBVIOUS
<1>1. CompleteCountsOnce
  BY DEF StreamInv
<1>2. OffsetNearReader
  BY DEF StreamInv, ReaderPlaced, OffsetNearReader
<1>3. CompleteWhenPossible
  <2> SUFFICES ASSUME phase = "done", mode = "program", NEW i \in Readable(0), NEW j \in Readable(0),
                      Analyzable(i), Analyzable(j), OneIsFound(i, j),
                      \A k \in Readable(0) : k < j => stream[k] # EmptyPat
               PROVE  status = "complete"
    BY DEF CompleteWhenPossible
  <2>1. i \in Nat /\ j \in Nat
    BY ReadableIs, StreamIs DEF StreamInv
  <2>2. Target(i, j)
    BY DEF Target
  <2>3. QED BY <2>1, <2>2 DEF StreamInv, TargetReached
<1>4. QED BY <1>1, <1>2, <1>3 DEF CompleteAsDefined

\* For every input, range, size of the reads and set of programs: an analysis is
\* complete when a PAT of an input of one read allows it, or one of two PATs of a longer
\* input that no sequence of full reads can both miss, whatever failed before; a complete
\* one has counted every packet of the range once; and the offsets of discovery are those
\* of the reader within a packet.
THEOREM AnalysisCompletes == ScanSpec => []CompleteAsDefined
<1>1. ScanSpec => []StreamInv
  BY StreamInvInit, StreamInvNext, PTL DEF ScanSpec
<1>2. QED BY <1>1, StreamInvImplies, PTL
===============================================================================
