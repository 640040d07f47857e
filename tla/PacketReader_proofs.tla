-------------------------- MODULE PacketReader_proofs --------------------------
(***************************************************************************)
(* The lookahead of packetReader holds what comes next, and the scan reports *)
(* what it should, for every packet size, input, range and size of the       *)
(* search and its buffer.  What is read of the header of a PES packet is the *)
(* same for the analysis and for the packet detail, and the unit of a packet *)
(* is the packets of its PID from one start up to the next.                  *)
(***************************************************************************)
EXTENDS PacketReader, PacketUnit, Induction, SequenceTheorems

\* What a buffer in step holds: count input offsets from at on.
Run(at, count) == [i \in 1 .. count |-> at + i - 1]

\* The lesser of two numbers.
LEMMA MinPair ==
  ASSUME NEW a \in Int, NEW b \in Int
  PROVE  Min({a, b}) = IF a <= b THEN a ELSE b
  BY DEF Min

\* The greater of two numbers.
LEMMA MaxPair ==
  ASSUME NEW a \in Int, NEW b \in Int
  PROVE  Max({a, b}) = IF a >= b THEN a ELSE b
  BY DEF Max

\* A run is a sequence of its length.
LEMMA RunType ==
  ASSUME NEW at \in Nat, NEW count \in Nat
  PROVE  /\ Run(at, count) \in Seq(Nat)
         /\ Len(Run(at, count)) = count
         /\ \A i \in 1 .. count : Run(at, count)[i] = at + i - 1
  BY DEF Run

\* Runs that follow each other are one run.
LEMMA RunCat ==
  ASSUME NEW at \in Nat, NEW a \in Nat, NEW b \in Nat
  PROVE  Run(at, a) \o Run(at + a, b) = Run(at, a + b)
<1>3. Len(Run(at, a)) = a /\ Len(Run(at + a, b)) = b
  BY RunType
<1>4. Run(at, a) \o Run(at + a, b) =
        [i \in 1 .. a + b |-> IF i <= a THEN Run(at, a)[i] ELSE Run(at + a, b)[i - a]]
  BY <1>3
<1>5. \A i \in 1 .. a + b :
        (IF i <= a THEN Run(at, a)[i] ELSE Run(at + a, b)[i - a]) = at + i - 1
  BY DEF Run
<1> QED
  BY <1>4, <1>5 DEF Run

\* What is left of a buffer in step once its first bytes are taken.
LEMMA RunRest ==
  ASSUME NEW at \in Nat, NEW count \in Nat, NEW size \in Nat
  PROVE  SubSeq(Run(at, count), size + 1, Len(Run(at, count))) =
           IF size <= count THEN Run(at + size, count - size) ELSE << >>
<1>1. Len(Run(at, count)) = count
  BY RunType
<1>2. CASE size <= count
  <2>1. SubSeq(Run(at, count), size + 1, count) =
          [i \in 1 .. count - size |-> Run(at, count)[i + size]]
    BY <1>2
  <2>2. \A i \in 1 .. count - size : Run(at, count)[i + size] = at + size + i - 1
    BY DEF Run
  <2>3. SubSeq(Run(at, count), size + 1, count) = Run(at + size, count - size)
    BY <2>1, <2>2 DEF Run
  <2> QED
    BY <1>1, <1>2, <2>3
<1>3. CASE size > count
  BY <1>1, <1>3
<1> QED
  BY <1>2, <1>3

\* The lookahead has a byte.
LEMMA WindowPositive == Window \in Nat /\ Window >= 1
<1>1. PICK a \in Nat : a = ResyncSyncBytes - 1
  BY ReaderAssumption
<1>2. a * PacketSize \in Nat
  BY <1>1, ReaderAssumption
<1> QED
  BY <1>1, <1>2, ReaderAssumption DEF Window

\* The length of an input.
LEMMA LengthType ==
  ASSUME NEW n \in Nat, DOMAIN input = 0 .. n - 1
  PROVE  Length = n
<1>1. Cardinality(0 .. n - 1) = n
  BY FS_Interval
<1> QED
  BY <1>1 DEF Length

\* A buffer that holds k bytes of what comes next, the input read up to them.
InStep(h, p, s, k) == h = Run(p, k) /\ s = p + k

\* What being in step says.
LEMMA InStepFacts ==
  ASSUME NEW h, NEW p \in Nat, NEW s, NEW k \in Nat, InStep(h, p, s, k)
  PROVE  h = Run(p, k) /\ s = p + k /\ Len(h) = k
  BY RunType DEF InStep

\* fill takes what comes next: size bytes, or what the input has left of them.
LEMMA TakenIsNext ==
  ASSUME NEW n \in Nat, Length = n, NEW k \in Nat, pos \in Nat,
         InStep(held, pos, src, k), src <= n, NEW size \in Nat
  PROVE  /\ Taken(size) = Run(pos, Min({size, n - pos}))
         /\ Min({size, n - pos}) \in Nat
         /\ Len(Taken(size)) = Min({size, n - pos})
<1>1. held = Run(pos, k) /\ src = pos + k /\ Len(held) = k
  BY RunType DEF InStep
<1> DEFINE buffered == Min({k, size})
           read     == Min({size - buffered, n - src})
<1>2. buffered = IF k <= size THEN k ELSE size
  BY MinPair
<1>3. buffered \in Nat /\ buffered <= size /\ buffered <= k
  BY <1>2
<1> HIDE DEF buffered
<1>4. read = IF size - buffered <= n - src THEN size - buffered ELSE n - src
  BY <1>1, <1>3, MinPair
<1>5. read \in Nat
  BY <1>1, <1>3, <1>4
<1> HIDE DEF read
<1>6. SubSeq(held, 1, buffered) = Run(pos, buffered)
  <2>1. SubSeq(Run(pos, k), 1, buffered) = [i \in 1 .. buffered |-> Run(pos, k)[i]]
    BY <1>3
  <2>2. \A i \in 1 .. buffered : Run(pos, k)[i] = pos + i - 1
    BY <1>3 DEF Run
  <2> QED
    BY <1>1, <2>1, <2>2 DEF Run
<1>7. [i \in 1 .. read |-> src + i - 1] = Run(src, read)
  BY DEF Run
<1>8. Taken(size) = Run(pos, buffered) \o Run(src, read)
  BY <1>1, <1>6, <1>7 DEF Taken, buffered, read
<1>9. Min({size, n - pos}) = IF size <= n - pos THEN size ELSE n - pos
  BY <1>1, MinPair
<1>10. Min({size, n - pos}) \in Nat /\ Min({size, n - pos}) = buffered + read
  BY <1>1, <1>2, <1>3, <1>4, <1>9
<1>11. Run(pos, buffered) \o Run(src, read) = Run(pos, buffered + read)
  <2>1. CASE read = 0
    BY <1>3, <2>1, RunCat, RunType DEF Run
  <2>2. CASE read > 0
    <3>1. src = pos + buffered
      BY <1>1, <1>2, <1>3, <1>4, <2>2
    <3> QED
      BY <1>3, <1>5, <3>1, RunCat
  <2> QED
    BY <1>5, <2>1, <2>2
<1> QED
  BY <1>8, <1>10, <1>11, RunType

\* What is left of the buffer and how far the input was read after size bytes
\* were there to take.
LEMMA RestInStep ==
  ASSUME NEW n \in Nat, Length = n, NEW k \in 0 .. ResyncBufferSize, pos \in Nat,
         InStep(held, pos, src, k), src <= n, NEW size \in Nat,
         Len(Taken(size)) = size
  PROVE  /\ SubSeq(held, size + 1, Len(held)) =
              IF size <= k THEN Run(pos + size, k - size) ELSE << >>
         /\ src + size - Min({Len(held), size}) = IF size <= k THEN pos + k ELSE pos + size
         /\ pos + size <= n
<1>1. held = Run(pos, k) /\ src = pos + k /\ Len(held) = k /\ k \in Nat
  BY ReaderAssumption, RunType DEF InStep
<1>2. SubSeq(held, size + 1, Len(held)) =
              IF size <= k THEN Run(pos + size, k - size) ELSE << >>
  BY <1>1, RunRest
<1>3. Min({Len(held), size}) = IF k <= size THEN k ELSE size
  BY <1>1, MinPair
<1>4. size = Min({size, n - pos})
  BY <1>1, TakenIsNext
<1>5. Min({size, n - pos}) = IF size <= n - pos THEN size ELSE n - pos
  BY <1>1, MinPair
<1> QED
  BY <1>1, <1>2, <1>3, <1>4, <1>5

-------------------------------------------------------------------------------
(* The inductive invariant: the buffer is a run of what comes next.          *)

Reading ==
  /\ src <= Length
  /\ \E k \in 0 .. ResyncBufferSize : InStep(held, pos, src, k)

IInv ==
  /\ \E n \in Inputs : input \in [0 .. n - 1 -> BOOLEAN]
  /\ end \in Nat /\ src \in Nat /\ pos \in Nat /\ loss \in Nat
  /\ phase # "done" => Reading

\* At the start nothing is buffered.
LEMMA InitIInv == Init => IInv
<1> SUFFICES ASSUME Init PROVE IInv
  OBVIOUS
<1>1. PICK n \in Inputs : input \in [0 .. n - 1 -> BOOLEAN]
  BY DEF Init
<1>2. Length = n /\ n \in Nat
  BY <1>1, LengthType, ReaderAssumption
<1>3. InStep(held, pos, src, 0)
  BY DEF Init, InStep, Run
<1> QED
  BY <1>1, <1>2, <1>3, ReaderAssumption DEF Init, IInv, Reading

\* Serving, putting a packet back, reading more and skipping a byte keep the
\* buffer in step; the other steps leave it alone or end the scan.
LEMMA StepIInv == IInv /\ [Next]_readerVars => IInv'
<1> SUFFICES ASSUME IInv, [Next]_readerVars PROVE IInv'
  OBVIOUS
<1>1. PICK n \in Inputs : input \in [0 .. n - 1 -> BOOLEAN]
  BY DEF IInv
<1>2. n \in Nat /\ Length = n
  BY <1>1, LengthType, ReaderAssumption
<1> USE DEF IInv
<1>3. SUFFICES ASSUME Next PROVE IInv'
  <2>1. ASSUME UNCHANGED readerVars PROVE IInv'
    BY <2>1 DEF readerVars, Reading, Length, InStep
  <2> QED
    BY <1>3, <2>1
<1>4. input' = input /\ end' = end /\ Length' = Length
  BY <1>3 DEF Next, ServePacket, LoseSync, EndOfInput, EndOfRange, ReadMore, Resync,
    SkipByte, StopWithoutMore, StopAtLimit, Stop, Length
<1>5. CASE ServePacket
  <2>1. phase' = phase /\ loss' = loss /\ pos' = pos + PacketSize /\ Reading
    BY <1>5 DEF ServePacket
  <2>2. PICK k \in 0 .. ResyncBufferSize : InStep(held, pos, src, k)
    BY <2>1 DEF Reading
  <2>3. PacketSize \in Nat /\ k \in Nat /\ src <= n
    BY <1>2, <2>1, ReaderAssumption DEF Reading
  <2>4. Len(Taken(PacketSize)) = PacketSize
    BY <1>5 DEF ServePacket
  <2>5. /\ held' = SubSeq(held, PacketSize + 1, Len(held))
        /\ src' = src + PacketSize - Min({Len(held), PacketSize})
    BY <1>5, <2>4 DEF ServePacket, Fill
  <2>6. /\ held' = IF PacketSize <= k THEN Run(pos + PacketSize, k - PacketSize) ELSE << >>
        /\ src' = IF PacketSize <= k THEN pos + k ELSE pos + PacketSize
        /\ pos + PacketSize <= n
    BY <1>2, <2>2, <2>3, <2>4, <2>5, RestInStep
  <2>7. << >> = Run(pos + PacketSize, 0)
    BY DEF Run
  <2>8. src' \in Nat /\ src' <= n
    BY <2>2, <2>3, <2>6 DEF InStep
  <2>9. \E m \in 0 .. ResyncBufferSize : InStep(held', pos', src', m)
    <3>1. CASE PacketSize <= k
      <4>1. k - PacketSize \in 0 .. ResyncBufferSize
        BY <2>3, <3>1, ReaderAssumption
      <4>2. InStep(held', pos', src', k - PacketSize)
        BY <2>1, <2>3, <2>6, <3>1 DEF InStep
      <4> QED
        BY <4>1, <4>2
    <3>2. CASE ~(PacketSize <= k)
      <4>1. InStep(held', pos', src', 0)
        BY <2>1, <2>3, <2>6, <2>7, <3>2 DEF InStep
      <4> QED
        BY <4>1, ReaderAssumption
    <3> QED
      BY <3>1, <3>2
  <2> QED
    BY <1>2, <1>4, <2>1, <2>3, <2>8, <2>9 DEF Reading
<1>6. CASE LoseSync
  <2> DEFINE taken == Taken(PacketSize)
             rest   == SubSeq(held, PacketSize + 1, Len(held))
  <2>1. loss' = pos /\ pos' = pos + 1 /\ Reading
    BY <1>6 DEF LoseSync
  <2>2. PICK k \in 0 .. ResyncBufferSize : InStep(held, pos, src, k)
    BY <2>1 DEF Reading
  <2>3. PacketSize \in Nat /\ PacketSize >= 1 /\ k \in Nat /\ src <= n
    BY <1>2, <2>1, ReaderAssumption DEF Reading
  <2>4. Len(taken) = PacketSize
    BY <1>6 DEF LoseSync
  <2>5. /\ held' = PutBack(taken, rest)
        /\ src' = src + PacketSize - Min({Len(held), PacketSize})
    BY <1>6, <2>4 DEF LoseSync
  <2>6. /\ rest = IF PacketSize <= k THEN Run(pos + PacketSize, k - PacketSize) ELSE << >>
        /\ src' = IF PacketSize <= k THEN pos + k ELSE pos + PacketSize
        /\ pos + PacketSize <= n
    BY <1>2, <2>2, <2>3, <2>4, <2>5, RestInStep
  <2>7. taken = Run(pos, PacketSize)
    BY <1>2, <2>2, <2>3, <2>4, TakenIsNext
  <2>8. SubSeq(taken, 2, PacketSize) = Run(pos + 1, PacketSize - 1)
    <3>1. SubSeq(Run(pos, PacketSize), 1 + 1, Len(Run(pos, PacketSize))) =
            Run(pos + 1, PacketSize - 1)
      BY <2>3, RunRest
    <3> QED
      BY <2>3, <2>7, <3>1, RunType
  <2> DEFINE left == IF PacketSize <= k THEN k - PacketSize ELSE 0
  <2>9. left \in Nat /\ rest = Run(pos + PacketSize, left)
    BY <2>3, <2>6 DEF Run
  <2>10. PacketSize - 1 + left \in 0 .. ResyncBufferSize
    BY <2>3, ReaderAssumption
  <2>11. src' = pos + 1 + (PacketSize - 1 + left)
    BY <2>2, <2>3, <2>6
  <2> HIDE DEF taken, rest, left
  <2>12. SubSeq(taken, 2, PacketSize) \o rest = Run(pos + 1, PacketSize - 1 + left)
    <3>1. /\ pos + PacketSize = pos + 1 + (PacketSize - 1)
          /\ PacketSize - 1 \in Nat /\ pos + 1 \in Nat
      BY <2>3
    <3>2. Run(pos + 1, PacketSize - 1) \o Run(pos + 1 + (PacketSize - 1), left) =
            Run(pos + 1, PacketSize - 1 + left)
      BY <2>9, <3>1, RunCat, Zenon
    <3> QED
      BY <2>8, <2>9, <3>1, <3>2, Zenon
  <2>13. PutBack(taken, rest) = Run(pos + 1, PacketSize - 1 + left)
    <3> DEFINE whole == PacketSize - 1 + left
               all   == Run(pos + 1, whole)
    <3>1. whole \in Nat /\ Len(all) = whole /\ all \in Seq(Nat)
      <4>1. whole \in Nat /\ pos + 1 \in Nat
        BY <2>10, ReaderAssumption
      <4> QED
        BY <4>1, RunType, Zenon
    <3>2. Min({Len(all), ResyncBufferSize}) = whole
      BY <2>10, <3>1, MinPair, ReaderAssumption
    <3>3. SubSeq(all, 1, whole) = all
      BY <3>1
    <3> QED
      BY <2>12, <3>1, <3>2, <3>3 DEF PutBack
  <2>14. InStep(held', pos', src', PacketSize - 1 + left)
    BY <2>1, <2>5, <2>11, <2>13 DEF InStep
  <2>15. src' \in Nat /\ src' <= n
    BY <2>2, <2>3, <2>6 DEF InStep
  <2> QED
    BY <1>2, <1>4, <2>1, <2>10, <2>14, <2>15 DEF Reading
<1>7. CASE ReadMore
  <2>1. phase' = phase /\ loss' = loss /\ pos' = pos /\ Reading
    BY <1>7 DEF ReadMore, Searching
  <2>2. PICK k \in 0 .. ResyncBufferSize : InStep(held, pos, src, k)
    BY <2>1 DEF Reading
  <2>3. k \in Nat /\ src <= n /\ src = pos + k /\ Len(held) = k /\ held = Run(pos, k)
    <3>1. k \in Nat /\ src <= n
      BY <1>2, <2>1, <2>2, ReaderAssumption DEF Reading
    <3> QED
      BY <2>2, <3>1, InStepFacts
  <2>4. Room \in Int /\ Room <= ResyncBufferSize - k
    <3>1. Max({end - (pos + k), 0}) \in Int /\ ResyncBufferSize - k \in Int
      BY <2>3, MaxPair, ReaderAssumption
    <3>2. Min({ResyncBufferSize - k, Max({end - (pos + k), 0})}) =
            IF ResyncBufferSize - k <= Max({end - (pos + k), 0})
            THEN ResyncBufferSize - k ELSE Max({end - (pos + k), 0})
      BY <3>1, MinPair, Zenon
    <3> QED
      BY <2>3, <3>1, <3>2, ReaderAssumption DEF Room
  <2>5. More = IF Room <= n - src THEN Room ELSE n - src
    BY <1>2, <2>3, <2>4, MinPair DEF More
  <2>6. More \in Nat /\ More <= ResyncBufferSize - k /\ More <= n - src
    <3>1. More > 0
      BY <1>7 DEF ReadMore
    <3> QED
      BY <1>2, <2>3, <2>4, <2>5, <3>1, ReaderAssumption
  <2>7. [i \in 1 .. More |-> src + i - 1] = Run(pos + k, More)
    BY <2>3 DEF Run
  <2>8. held' = Run(pos, k) \o Run(pos + k, More) /\ src' = src + More
    BY <1>7, <2>3, <2>7 DEF ReadMore
  <2>9. held' = Run(pos, k + More)
    BY <2>3, <2>6, <2>8, RunCat
  <2>10. InStep(held', pos', src', k + More) /\ k + More \in 0 .. ResyncBufferSize
    BY <2>1, <2>3, <2>6, <2>8, <2>9, ReaderAssumption DEF InStep
  <2> QED
    BY <1>2, <1>4, <2>1, <2>3, <2>6, <2>8, <2>10 DEF Reading
<1>8. CASE SkipByte
  <2>1. phase' = phase /\ loss' = loss /\ pos' = pos + 1 /\ src' = src /\ Reading
    BY <1>8 DEF SkipByte, Searching
  <2>2. PICK k \in 0 .. ResyncBufferSize : InStep(held, pos, src, k)
    BY <2>1 DEF Reading
  <2>3. k \in Nat /\ src = pos + k /\ Len(held) = k /\ held = Run(pos, k)
    BY <2>2, ReaderAssumption, RunType DEF InStep
  <2>4. k >= Window
    BY <1>8, <2>3, ReaderAssumption DEF SkipByte, NeedsMore, Window
  <2>5. k >= 1
    BY <2>3, <2>4, WindowPositive
  <2>6. held' = Run(pos + 1, k - 1)
    <3>1. SubSeq(Run(pos, k), 1 + 1, Len(Run(pos, k))) = Run(pos + 1, k - 1)
      BY <2>3, <2>5, RunRest
    <3> QED
      BY <1>8, <2>3, <3>1 DEF SkipByte
  <2>7. InStep(held', pos', src', k - 1) /\ k - 1 \in 0 .. ResyncBufferSize
    BY <2>1, <2>3, <2>5, <2>6, ReaderAssumption DEF InStep
  <2> QED
    BY <1>2, <1>4, <2>1, <2>7 DEF Reading
<1>9. CASE Resync
  <2>1. pos' = pos /\ held' = held /\ src' = src /\ loss' = loss /\ phase # "done"
    BY <1>9 DEF Resync, Searching
  <2> QED
    BY <1>4, <2>1 DEF Reading, InStep
<1>10. CASE StopWithoutMore
  BY <1>4, <1>10 DEF StopWithoutMore, Stop
<1>11. CASE StopAtLimit
  BY <1>4, <1>11 DEF StopAtLimit, Stop
<1>12. CASE EndOfRange
  BY <1>4, <1>12 DEF EndOfRange
<1>13. CASE EndOfInput
  <2>1. phase' = "done" /\ pos' = pos /\ loss' = loss /\ Reading
    BY <1>13 DEF EndOfInput
  <2>2. PICK k \in 0 .. ResyncBufferSize : InStep(held, pos, src, k)
    BY <2>1 DEF Reading
  <2>3. PacketSize \in Nat /\ k \in Nat /\ src <= n /\ src = pos + k /\ Len(held) = k
    <3>1. PacketSize \in Nat /\ k \in Nat /\ src <= n
      BY <1>2, <2>1, <2>2, ReaderAssumption DEF Reading
    <3> QED
      BY <2>2, <3>1, InStepFacts
  <2>4. /\ Len(Taken(PacketSize)) = Min({PacketSize, n - pos})
        /\ Len(Taken(PacketSize)) \in Nat
    BY <1>2, <2>2, <2>3, TakenIsNext
  <2>5. /\ Min({k, PacketSize}) = IF k <= PacketSize THEN k ELSE PacketSize
        /\ Min({PacketSize, n - pos}) = IF PacketSize <= n - pos THEN PacketSize ELSE n - pos
    BY <2>3, <1>2, MinPair
  <2>6. src' = src + Len(Taken(PacketSize)) - Min({k, PacketSize})
    BY <1>13, <2>3 DEF EndOfInput, Fill
  <2>7. src' \in Nat
    BY <2>3, <2>4, <2>5, <2>6
  <2> QED
    BY <1>1, <1>4, <2>1, <2>7
<1> QED
  BY <1>3, <1>5, <1>6, <1>7, <1>8, <1>9, <1>10, <1>11, <1>12, <1>13 DEF Next

\* packetReader keeps its lookahead in step with the input whatever the sizes:
\* what it holds is what comes next, and it never holds more than its buffer.
THEOREM LookaheadInStep == ReaderSpec => []BufferInStep
<1>1. IInv => BufferInStep
  <2> SUFFICES ASSUME IInv, phase # "done" PROVE BufferInStep
    BY DEF BufferInStep
  <2>1. PICK k \in 0 .. ResyncBufferSize : InStep(held, pos, src, k)
    BY DEF IInv, Reading
  <2>2. k \in Nat /\ k <= ResyncBufferSize /\ src = pos + k /\ held = Run(pos, k)
    BY <2>1, ReaderAssumption DEF InStep
  <2>3. Len(held) = k /\ \A i \in 1 .. k : held[i] = pos + i - 1
    BY <2>2, RunType DEF IInv
  <2> QED
    BY <2>2, <2>3 DEF BufferInStep
<1> QED
  BY <1>1, InitIInv, StepIInv, PTL DEF ReaderSpec

-------------------------------------------------------------------------------
(* The bytes skipped after a set of losses.                                  *)

Skipped(p) == Min(Candidates(p)) - p

\* The sum, as a fold that takes out one loss after another.
AddsUp(h, L) ==
  h = [s \in SUBSET L |-> IF s = {} THEN 0 ELSE Skipped(CHOOSE x \in s : TRUE) + h[s \ {CHOOSE x \in s : TRUE}]]

SkippedIn(L) == (CHOOSE h : AddsUp(h, L))[L]

\* The values of the fold.
Sums(g, S) ==
  /\ \A s \in SUBSET S :
       g[s] = IF s = {} THEN 0 ELSE Skipped(TakenFirst(s)) + g[s \ {TakenFirst(s)}]
  /\ \A s \in SUBSET S : g[s] \in Int
  /\ \A x \in S : Skipped(x) \in Int

\* They do not depend on the order.
LEMMA SumOrder ==
  ASSUME NEW S, IsFiniteSet(S), NEW g, Sums(g, S), NEW whole \in SUBSET S, NEW one \in whole
  PROVE  g[whole] = Skipped(one) + g[whole \ {one}]
<1> DEFINE Holds(s) == \A x \in s : g[s] = Skipped(x) + g[s \ {x}]
           Q == {n \in Nat : \A s \in SUBSET S : Cardinality(s) <= n => Holds(s)}
<1>0. \A s \in SUBSET S : IsFiniteSet(s) /\ Cardinality(s) \in Nat /\ (Cardinality(s) = 0 <=> s = {})
  BY FS_Subset, FS_CardinalityType, FS_EmptySet
<1>1. 0 \in Q
  <2>1. ASSUME NEW s \in SUBSET S, Cardinality(s) <= 0 PROVE Holds(s)
    BY <1>0, <2>1
  <2> HIDE DEF Holds
  <2>2. QED BY <2>1
<1>2. ASSUME NEW n \in Nat, n \in Q PROVE n + 1 \in Q
  <2>1. ASSUME NEW s \in SUBSET S, Cardinality(s) <= n + 1, NEW x \in s
        PROVE  g[s] = Skipped(x) + g[s \ {x}]
    <3> DEFINE y == TakenFirst(s)
               sy == s \ {y}
               sx == s \ {x}
    <3>1. y \in s /\ y \in S /\ x \in S /\ s # {}
      BY TakenOut DEF TakenFirst
    <3>2. g[s] = Skipped(y) + g[sy]
      BY <3>1 DEF Sums
    <3>3. CASE x = y
      BY <3>2, <3>3
    <3>4. CASE x # y
      <4>1. /\ sy \in SUBSET S /\ sx \in SUBSET S /\ x \in sy /\ y \in sx
            /\ Cardinality(sy) <= n /\ Cardinality(sx) <= n
        <5>1. Cardinality(sy) = Cardinality(s) - 1 /\ Cardinality(sx) = Cardinality(s) - 1
          BY <1>0, <3>1, FS_RemoveElement
        <5>2. Cardinality(s) \in Nat
          BY <1>0
        <5>3. sy \in SUBSET S /\ sx \in SUBSET S /\ x \in sy /\ y \in sx
          BY <3>1, <3>4
        <5> HIDE DEF sy, sx
        <5>4. QED BY <2>1, <5>1, <5>2, <5>3
      <4>2. g[sy] = Skipped(x) + g[sy \ {x}] /\ g[sx] = Skipped(y) + g[sx \ {y}]
        <5> HIDE DEF sy, sx, y
        <5>1. QED BY <1>2, <4>1
      <4>3. sy \ {x} = sx \ {y} /\ sy \ {x} \in SUBSET S
        BY <3>1
      <4> DEFINE a == g[sy \ {x}]
                 b == Skipped(x)
                 c == Skipped(y)
      <4>4. a \in Int /\ b \in Int /\ c \in Int
        BY <3>1, <4>3 DEF Sums
      <4>5. g[s] = c + (b + a) /\ g[sx] = c + a
        BY <3>2, <4>2, <4>3
      <4> HIDE DEF a, b, c, sy, sx, y
      <4>6. g[s] = b + g[sx]
        BY <4>4, <4>5
      <4>7. QED BY <4>6 DEF b, sx
    <3>5. QED BY <3>3, <3>4
  <2>2. ASSUME NEW s \in SUBSET S, Cardinality(s) <= n + 1 PROVE Holds(s)
    BY <2>1, <2>2
  <2> HIDE DEF Holds
  <2>3. QED BY <2>2
<1>3. \A n \in Nat : n \in Q
  <2> HIDE DEF Q
  <2> QED BY <1>1, <1>2, SetInduction
<1>4. ASSUME NEW s \in SUBSET S PROVE Holds(s)
  <2>1. Cardinality(s) \in Nat /\ Cardinality(s) \in Q
    BY <1>0, <1>3
  <2> HIDE DEF Holds
  <2>2. QED BY <2>1
<1>5. QED BY <1>4

\* One more loss adds what was skipped after it.
LEMMA SumAdds ==
  ASSUME NEW L, IsFiniteSet(L), NEW p, p \notin L, \A x \in L \cup {p} : Skipped(x) \in Int
  PROVE  /\ SkippedIn(L) \in Int
         /\ SkippedIn(L \cup {p}) = SkippedIn(L) + Skipped(p)
<1> DEFINE S == L \cup {p}
           step == [x \in S |-> [v \in Int |-> Skipped(x) + v]]
<1>1. IsFiniteSet(S)
  BY FS_AddElement
<1>2. step \in [S -> [Int -> Int]] /\ 0 \in Int
  OBVIOUS
<1>3. PICK g \in [SUBSET S -> Int] : IsFold(g, 0, step, S)
  <2> HIDE DEF step, S
  <2> QED BY <1>1, <1>2, FoldExists
<1>4. \A s \in SUBSET S : g[s] = IF s = {} THEN 0 ELSE Skipped(TakenFirst(s)) + g[s \ {TakenFirst(s)}]
  <2>1. ASSUME NEW s \in SUBSET S, s # {}
        PROVE  g[s] = Skipped(TakenFirst(s)) + g[s \ {TakenFirst(s)}]
    <3> DEFINE x == TakenFirst(s)
               t == s \ {x}
    <3>1. x \in S /\ t \in SUBSET S
      <4> HIDE DEF S
      <4> QED BY <1>1, <2>1, TakenOut
    <3>2. g[s] = step[x][g[t]]
      BY <1>3, <2>1 DEF IsFold
    <3> HIDE DEF x, t
    <3>3. g[s] = Skipped(x) + g[t]
      BY <3>1, <3>2
    <3>4. QED BY <3>3 DEF x, t
  <2>2. g[{}] = 0
    BY <1>3 DEF IsFold
  <2>3. QED BY <2>1, <2>2
<1> HIDE DEF step, S
<1>5. ASSUME NEW M \in SUBSET S PROVE SkippedIn(M) = g[M]
  <2> DEFINE body(h) == [s \in SUBSET M |-> IF s = {} THEN 0 ELSE Skipped(TakenFirst(s)) + h[s \ {TakenFirst(s)}]]
             f == CHOOSE h : AddsUp(h, M)
             k == [s \in SUBSET M |-> g[s]]
  <2>1. IsFiniteSet(M)
    BY <1>1, FS_Subset
  <2>2. \A s \in SUBSET M : s \in SUBSET S /\ (s # {} => s \ {TakenFirst(s)} \in SUBSET M)
    BY <2>1, TakenOut
  <2>3. AddsUp(k, M)
    <3>1. \A s \in SUBSET M : k[s] = IF s = {} THEN 0 ELSE Skipped(TakenFirst(s)) + k[s \ {TakenFirst(s)}]
      BY <1>4, <2>2
    <3>2. k = body(k)
      BY <3>1
    <3> HIDE DEF k
    <3>3. QED BY <3>2 DEF AddsUp, TakenFirst
  <2>4. AddsUp(f, M)
    <3> HIDE DEF k
    <3> QED BY <2>3
  <2> HIDE DEF f
  <2>5. \A s \in SUBSET M : f[s] = IF s = {} THEN 0 ELSE Skipped(TakenFirst(s)) + f[s \ {TakenFirst(s)}]
    <3>1. f = body(f)
      BY <2>4 DEF AddsUp, TakenFirst
    <3>2. \A s \in SUBSET M : body(f)[s] = IF s = {} THEN 0 ELSE Skipped(TakenFirst(s)) + f[s \ {TakenFirst(s)}]
      OBVIOUS
    <3> HIDE DEF body
    <3>3. QED BY <3>1, <3>2
  <2> DEFINE T == {s \in SUBSET M : f[s] = g[s]}
  <2>6. {} \in T
    BY <1>4, <2>2, <2>5
  <2>7. ASSUME NEW s \in SUBSET M, s # {} /\ s \ {TakenFirst(s)} \in T PROVE s \in T
    BY <1>4, <2>2, <2>5, <2>7
  <2>8. \A s \in SUBSET M : s \in T
    <3> HIDE DEF T
    <3> QED BY <2>1, <2>6, <2>7, SubsetInduction
  <2>9. M \in SUBSET M
    OBVIOUS
  <2>10. QED BY <2>8, <2>9 DEF SkippedIn, f
<1>6. L \in SUBSET S /\ S \in SUBSET S /\ p \in S /\ S \ {p} = L
  BY DEF S
<1>7. \A x \in S : Skipped(x) \in Int
  BY DEF S
<1>8. \A s \in SUBSET S : g[s] \in Int
  BY <1>3
<1>9. Sums(g, S)
  BY <1>4, <1>7, <1>8 DEF Sums
<1>10. g[S] = Skipped(p) + g[L]
  <2>1. g[S] = Skipped(p) + g[S \ {p}]
    BY <1>1, <1>6, <1>9, SumOrder
  <2>2. QED BY <1>6, <2>1
<1>11. g[L] \in Int /\ Skipped(p) \in Int
  BY <1>6, <1>7, <1>8
<1>12. QED BY <1>5, <1>6, <1>10, <1>11 DEF S

\* Nothing is skipped without a loss.
LEMMA SumOfNone == SkippedIn({}) = 0
<1> DEFINE h == [s \in SUBSET {} |-> 0]
           f == CHOOSE k : AddsUp(k, {})
<1>1. \A s \in SUBSET {} : s = {}
  OBVIOUS
<1>2. AddsUp(h, {})
  <2> DEFINE k == [s \in SUBSET {} |-> IF s = {} THEN 0 ELSE Skipped(CHOOSE x \in s : TRUE) + h[s \ {CHOOSE x \in s : TRUE}]]
  <2>1. \A s \in SUBSET {} : h[s] = k[s]
    BY <1>1
  <2>2. h = k
    BY <2>1
  <2> HIDE DEF h
  <2>3. QED BY <2>2 DEF AddsUp
<1> HIDE DEF h
<1>3. AddsUp(f, {})
  BY <1>2
<1> HIDE DEF f
<1>4. f[{}] = 0
  BY <1>3 DEF AddsUp
<1>5. QED BY <1>4 DEF SkippedIn, f

-------------------------------------------------------------------------------
(* The boundaries the scan comes to.                                         *)

\* Where the bytes that may be read end.
LEMMA LimitIs ==
  ASSUME Length \in Nat, end \in Nat
  PROVE  /\ Limit \in Nat /\ Limit <= Length
         /\ Limit = IF end = 0 \/ Length <= end THEN Length ELSE end
  BY MinPair DEF Limit

\* A least number is the minimum.
LEMMA MinIs ==
  ASSUME NEW T \in SUBSET Nat, NEW m \in T, \A k \in T : m <= k
  PROVE  Min(T) = m
<1>1. m \in Nat /\ \A x \in T : x \in Nat
  OBVIOUS
<1>2. \A x \in T : (\A y \in T : x <= y) => x = m
  BY <1>1
<1>3. QED BY <1>2 DEF Min

\* A greatest number is the maximum.
LEMMA MaxIs ==
  ASSUME NEW T \in SUBSET Nat, NEW m \in T, \A k \in T : k <= m
  PROVE  Max(T) = m
<1>1. m \in Nat /\ \A x \in T : x \in Nat
  OBVIOUS
<1>2. \A x \in T : (\A y \in T : x >= y) => x = m
  BY <1>1
<1>3. \A y \in T : m >= y
  BY <1>1
<1>4. QED BY <1>2, <1>3 DEF Max

\* The alignment the search finds.
LEMMA FirstCandidate ==
  ASSUME Length \in Nat, end \in Nat, NEW p \in Nat, Candidates(p) # {}
  PROVE  /\ Min(Candidates(p)) \in Candidates(p) /\ \A q \in Candidates(p) : Min(Candidates(p)) <= q
         /\ Min(Candidates(p)) \in p + 1 .. Length
         /\ Skipped(p) \in Nat /\ Skipped(p) >= 1
<1> DEFINE C == Candidates(p)
<1>1. C \subseteq p + 1 .. Length
  <2>1. ASSUME NEW q \in C PROVE q \in p + 1 .. Length
    <3>1. q \in p + 1 .. p + MaxResyncScanBytes /\ q + Window <= Limit
      BY DEF Candidates, AlignedAt
    <3>2. Window \in Nat /\ Window >= 1 /\ Limit \in Nat /\ Limit <= Length /\ MaxResyncScanBytes \in Nat
      BY WindowPositive, LimitIs, ReaderAssumption
    <3>3. QED BY <3>1, <3>2
  <2>2. QED BY <2>1
<1>2. C \in SUBSET Nat
  BY <1>1
<1> HIDE DEF C
<1>3. PICK m \in C : \A k \in C : m <= k
  BY <1>2, LeastNatural DEF C
<1>4. Min(C) = m
  BY <1>2, <1>3, MinIs
<1>5. m \in p + 1 .. Length
  BY <1>1, <1>3
<1>6. QED BY <1>3, <1>4, <1>5 DEF C, Skipped

\* What a function of the boundaries has at each.
Follow(h, p) ==
  IF p + PacketSize > Limit THEN {p}
  ELSE IF SyncAt(p) THEN {p} \cup h[p + PacketSize]
  ELSE IF Candidates(p) = {} THEN {p} ELSE {p} \cup h[Min(Candidates(p))]

\* It depends on the later ones.
LEMMA LaterBoundaries ==
  ASSUME Length \in Nat, end \in Nat, NEW p \in 0 .. Length, NEW g, NEW h,
         \A q \in p + 1 .. Length : g[q] = h[q]
  PROVE  Follow(g, p) = Follow(h, p)
<1>1. /\ PacketSize \in Nat /\ PacketSize >= 1 /\ Limit \in Nat /\ Limit <= Length
  BY LimitIs, ReaderAssumption
<1>2. ~(p + PacketSize > Limit) => p + PacketSize \in p + 1 .. Length
  BY <1>1
<1>3. Candidates(p) # {} => Min(Candidates(p)) \in p + 1 .. Length
  BY FirstCandidate
<1>4. QED BY <1>2, <1>3 DEF Follow

\* There is such a function.
LEMMA BoundariesRecur ==
  ASSUME Length \in Nat, end \in Nat
  PROVE  \E f : Boundaries = f[0] /\ \A p \in 0 .. Length : f[p] = Follow(f, p)
<1> DEFINE N == Length
           body(h) == [p \in 0 .. N |-> Follow(h, p)]
           f == CHOOSE h : h = body(h)
           Solves(h, m) == \A p \in N - m .. N : h[p] = Follow(h, p)
           Q == {m \in Nat : m <= N => \E h : Solves(h, m)}
<1>0. N \in Nat
  OBVIOUS
<1>1. 0 \in Q
  <2> DEFINE e == [p \in {} |-> {}]
             h == [p \in {N} |-> Follow(e, p)]
  <2>1. ASSUME NEW p \in N - 0 .. N PROVE h[p] = Follow(h, p)
    <3>1. p = N /\ p \in 0 .. N /\ \A q \in p + 1 .. N : e[q] = h[q]
      BY <1>0
    <3>2. h[p] = Follow(e, p)
      BY <3>1
    <3> HIDE DEF h, e
    <3>3. Follow(e, p) = Follow(h, p)
      BY <3>1, LaterBoundaries
    <3>4. QED BY <3>2, <3>3
  <2>2. Solves(h, 0)
    BY <2>1
  <2> HIDE DEF h, Solves
  <2>3. QED BY <2>2
<1>2. ASSUME NEW m \in Nat, m \in Q PROVE m + 1 \in Q
  <2>1. SUFFICES ASSUME m + 1 <= N PROVE \E h : Solves(h, m + 1)
    <3> HIDE DEF Solves
    <3> QED OBVIOUS
  <2>2. PICK g : Solves(g, m)
    <3> HIDE DEF Solves, N
    <3>1. m <= N
      BY <1>0, <2>1
    <3>2. QED BY <1>2, <3>1
  <2> DEFINE h == [p \in 0 .. N |-> IF p = N - (m + 1) THEN Follow(g, p) ELSE g[p]]
  <2>3. ASSUME NEW p \in N - (m + 1) .. N PROVE h[p] = Follow(h, p)
    <3>1. p \in 0 .. N /\ (p = N - (m + 1) \/ p \in N - m .. N)
      BY <1>0, <2>1
    <3>2. \A q \in p + 1 .. N : g[q] = h[q]
      <4>1. ASSUME NEW q \in p + 1 .. N PROVE g[q] = h[q]
        <5>1. q \in 0 .. N /\ q # N - (m + 1)
          BY <1>0, <3>1
        <5>2. QED BY <5>1
      <4>2. QED BY <4>1
    <3>3. h[p] = IF p = N - (m + 1) THEN Follow(g, p) ELSE g[p]
      BY <3>1
    <3> HIDE DEF h
    <3>4. Follow(g, p) = Follow(h, p)
      BY <3>1, <3>2, LaterBoundaries
    <3>5. p # N - (m + 1) => g[p] = Follow(g, p)
      BY <2>2, <3>1
    <3>6. QED BY <3>3, <3>4, <3>5
  <2>4. Solves(h, m + 1)
    <3> HIDE DEF h
    <3> QED BY <2>3
  <2> HIDE DEF h, Solves
  <2>5. QED BY <2>4
<1>3. \A m \in Nat : m \in Q
  <2> HIDE DEF Q
  <2> QED BY <1>1, <1>2, SetInduction
<1>4. PICK g : Solves(g, N)
  <2> HIDE DEF Solves, N
  <2> QED BY <1>0, <1>3
<1>5. body(g) = body(body(g))
  <2> DEFINE b == body(g)
  <2>1. ASSUME NEW p \in 0 .. N PROVE b[p] = g[p]
    <3>1. p \in N - N .. N
      BY <1>0
    <3>2. g[p] = Follow(g, p)
      BY <1>4, <3>1
    <3>3. QED BY <3>2
  <2>2. ASSUME NEW p \in 0 .. N PROVE Follow(g, p) = Follow(b, p)
    <3>1. \A q \in p + 1 .. N : q \in 0 .. N
      BY <1>0
    <3>2. \A q \in p + 1 .. N : g[q] = b[q]
      BY <2>1, <3>1
    <3> HIDE DEF b
    <3>3. QED BY <3>2, LaterBoundaries
  <2> HIDE DEF b
  <2>3. body(g) = body(b)
    BY <2>2
  <2>4. QED BY <2>3 DEF b
<1>6. f = body(f)
  <2> HIDE DEF body
  <2> QED BY <1>5
<1>7. Boundaries = f[0]
  BY DEF Boundaries, Follow
<1> HIDE DEF f
<1>8. ASSUME NEW p \in 0 .. N PROVE f[p] = Follow(f, p)
  <2>1. body(f)[p] = Follow(f, p)
    OBVIOUS
  <2> HIDE DEF body
  <2>2. QED BY <1>6, <2>1
<1>9. QED BY <1>7, <1>8

-------------------------------------------------------------------------------
(* What has been found up to a boundary.                                     *)

PacketTaken(p) == Run(p, PacketSize)

Losses(V) == {p \in V : ~SyncAt(p)}

\* The boundaries before this one, each of them with a packet, which is among those
\* served, or with a loss that was made good.
Visited(V, here, S) ==
  /\ V \in SUBSET Nat /\ IsFiniteSet(V) /\ \A p \in V : p < here
  /\ here \in 0 .. Length
  /\ \E f : Boundaries = V \cup f[here] /\ \A p \in 0 .. Length : f[p] = Follow(f, p)
  /\ \A p \in V : Complete(p)
  /\ \A p \in Losses(V) : Candidates(p) # {}
  /\ S = {PacketTaken(p) : p \in {q \in V : SyncAt(q)}}

\* The losses that were counted.
Counted(L, c) ==
  /\ c.losses = Cardinality(L)
  /\ L # {} => c.firstLoss \in L /\ \A q \in L : c.firstLoss <= q

\* The losses that were made good.
Recovered(L, c) ==
  /\ c.resyncs = Cardinality(L) /\ c.skipped = SkippedIn(L)
  /\ L = {} => c.maxSkipped = 0
  /\ L # {} =>
       /\ \E first \in L : (\A q \in L : first <= q) /\ c.firstResync = Min(Candidates(first))
       /\ c.maxSkippedAt \in L /\ Skipped(c.maxSkippedAt) = c.maxSkipped
       /\ \A p \in L : Skipped(p) <= c.maxSkipped /\ (Skipped(p) = c.maxSkipped => c.maxSkippedAt <= p)

CheckType ==
  [losses : Nat, firstLoss : Nat, resyncs : Nat, firstResync : Nat, skipped : Int,
   maxSkipped : Nat, maxSkippedAt : Nat, unrecovered : {"none", "limit", "range", "input"}, trailing : Nat]

\* Looking for the next packet.
Scanned(V, here, S, c) ==
  Visited(V, here, S) /\ Counted(Losses(V), c) /\ Recovered(Losses(V), c)

\* Looking for an alignment after a loss.
Searched(V, at, S, c) ==
  /\ Visited(V, at, S) /\ Complete(at) /\ ~SyncAt(at)
  /\ Counted(Losses(V) \cup {at}, c) /\ Recovered(Losses(V), c)

\* Nothing is visited at the start.
LEMMA NothingVisited ==
  ASSUME Length \in Nat, end \in Nat
  PROVE  Scanned({}, 0, {}, NewCheck) /\ NewCheck \in CheckType
<1>1. \E f : Boundaries = {} \cup f[0] /\ \A p \in 0 .. Length : f[p] = Follow(f, p)
  BY BoundariesRecur
<1>2. IsFiniteSet({}) /\ Cardinality({}) = 0
  BY FS_EmptySet
<1>3. Visited({}, 0, {}) /\ Losses({}) = {}
  BY <1>1, <1>2 DEF Visited, Losses
<1>4. QED BY <1>2, <1>3, SumOfNone DEF Scanned, Counted, Recovered, NewCheck, CheckType

\* A packet is served.
LEMMA VisitPacket ==
  ASSUME Length \in Nat, end \in Nat, NEW V, NEW here, NEW S, Visited(V, here, S), Complete(here), SyncAt(here)
  PROVE  /\ Visited(V \cup {here}, here + PacketSize, S \cup {PacketTaken(here)})
         /\ Losses(V \cup {here}) = Losses(V)
<1>1. /\ V \in SUBSET Nat /\ IsFiniteSet(V) /\ \A p \in V : p < here
      /\ here \in 0 .. Length /\ here + PacketSize <= Limit /\ \A p \in V : Complete(p)
      /\ S = {PacketTaken(p) : p \in {q \in V : SyncAt(q)}}
  BY DEF Visited, Complete
<1>2. PacketSize \in Nat /\ PacketSize >= 1 /\ Limit \in Nat /\ Limit <= Length
  BY LimitIs, ReaderAssumption
<1>3. PICK f : Boundaries = V \cup f[here] /\ \A p \in 0 .. Length : f[p] = Follow(f, p)
  BY DEF Visited
<1>4. f[here] = {here} \cup f[here + PacketSize]
  <2>1. f[here] = Follow(f, here) /\ ~(here + PacketSize > Limit)
    BY <1>1, <1>2, <1>3
  <2>2. QED BY <2>1 DEF Follow
<1>5. \A p \in V : p < here + PacketSize
  BY <1>1, <1>2
<1>6. here < here + PacketSize /\ here + PacketSize \in 0 .. Length /\ here \in Nat
  BY <1>1, <1>2
<1>7. IsFiniteSet(V \cup {here})
  BY <1>1, FS_AddElement
<1>8. Losses(V \cup {here}) = Losses(V)
  BY DEF Losses
<1>9. S \cup {PacketTaken(here)} = {PacketTaken(p) : p \in {q \in V \cup {here} : SyncAt(q)}}
  BY <1>1
<1>10. Boundaries = (V \cup {here}) \cup f[here + PacketSize]
  BY <1>3, <1>4
<1>11. \A p \in Losses(V) : Candidates(p) # {}
  BY DEF Visited
<1>12. QED BY <1>1, <1>3, <1>5, <1>6, <1>7, <1>8, <1>9, <1>10, <1>11 DEF Visited

\* A loss is made good.
LEMMA VisitLoss ==
  ASSUME Length \in Nat, end \in Nat, NEW V, NEW at, NEW S, Visited(V, at, S), Complete(at), ~SyncAt(at),
         NEW here, here \in Candidates(at), here = Min(Candidates(at)), here \in at + 1 .. Length
  PROVE  /\ Visited(V \cup {at}, here, S)
         /\ Losses(V \cup {at}) = Losses(V) \cup {at}
<1>1. /\ V \in SUBSET Nat /\ IsFiniteSet(V) /\ \A p \in V : p < at
      /\ at \in 0 .. Length /\ at + PacketSize <= Limit /\ \A p \in V : Complete(p)
      /\ S = {PacketTaken(p) : p \in {q \in V : SyncAt(q)}}
  BY DEF Visited, Complete
<1>2. PacketSize \in Nat /\ PacketSize >= 1 /\ Limit \in Nat /\ Limit <= Length
  BY LimitIs, ReaderAssumption
<1>3. PICK f : Boundaries = V \cup f[at] /\ \A p \in 0 .. Length : f[p] = Follow(f, p)
  BY DEF Visited
<1>4. f[at] = {at} \cup f[here]
  <2>1. f[at] = Follow(f, at) /\ ~(at + PacketSize > Limit)
    BY <1>1, <1>2, <1>3
  <2>2. Candidates(at) # {}
    OBVIOUS
  <2>3. QED BY <2>1, <2>2 DEF Follow
<1>5. \A p \in V : p < here
  BY <1>1
<1>6. at < here /\ here \in 0 .. Length /\ at \in Nat
  BY <1>1
<1>7. IsFiniteSet(V \cup {at})
  BY <1>1, FS_AddElement
<1>8. Losses(V \cup {at}) = Losses(V) \cup {at}
  BY DEF Losses
<1>9. S = {PacketTaken(p) : p \in {q \in V \cup {at} : SyncAt(q)}}
  <2>1. {q \in V \cup {at} : SyncAt(q)} = {q \in V : SyncAt(q)}
    OBVIOUS
  <2>2. QED BY <1>1, <2>1
<1>10. Boundaries = (V \cup {at}) \cup f[here]
  BY <1>3, <1>4
<1>11. \A p \in Losses(V \cup {at}) : Candidates(p) # {}
  BY <1>8 DEF Visited
<1>12. \A p \in V \cup {at} : p < here /\ Complete(p)
  BY <1>1, <1>5, <1>6
<1>13. V \cup {at} \in SUBSET Nat
  BY <1>1, <1>6
<1>14. QED BY <1>3, <1>6, <1>7, <1>8, <1>9, <1>10, <1>11, <1>12, <1>13 DEF Visited

\* The scan ends here.
LEMMA VisitLast ==
  ASSUME Length \in Nat, end \in Nat, NEW V, NEW here, NEW S, Visited(V, here, S),
         ~Complete(here) \/ (~SyncAt(here) /\ Candidates(here) = {})
  PROVE  /\ Boundaries = V \cup {here} /\ Max(Boundaries) = here
         /\ here \in Nat /\ here \in Boundaries
<1>1. V \in SUBSET Nat /\ here \in 0 .. Length /\ \A p \in V : p < here
  BY DEF Visited
<1>2. PICK f : Boundaries = V \cup f[here] /\ \A p \in 0 .. Length : f[p] = Follow(f, p)
  BY DEF Visited
<1>3. Limit \in Nat /\ PacketSize \in Nat
  BY LimitIs, ReaderAssumption
<1>4. f[here] = {here}
  <2>1. f[here] = Follow(f, here) /\ (~Complete(here) => here + PacketSize > Limit)
    BY <1>1, <1>2, <1>3 DEF Complete
  <2>2. QED BY <2>1 DEF Follow
<1>5. Boundaries = V \cup {here}
  BY <1>2, <1>4
<1> DEFINE T == V \cup {here}
<1>6. T \in SUBSET Nat /\ here \in T /\ \A k \in T : k <= here
  BY <1>1
<1> HIDE DEF T
<1>7. Max(T) = here
  BY <1>6, MaxIs
<1>8. QED BY <1>1, <1>5, <1>7 DEF T

\* The fields of the result.
LEMMA CheckFields ==
  ASSUME NEW c \in CheckType
  PROVE  /\ c.losses \in Nat /\ c.firstLoss \in Nat /\ c.resyncs \in Nat /\ c.firstResync \in Nat
         /\ c.skipped \in Int /\ c.maxSkipped \in Nat /\ c.maxSkippedAt \in Nat
         /\ c.unrecovered \in {"none", "limit", "range", "input"} /\ c.trailing \in Nat
  BY DEF CheckType

\* The result with another loss.
LEMMA LossType ==
  ASSUME NEW c \in CheckType, NEW a \in Nat, NEW b \in Nat
  PROVE  [c EXCEPT !.losses = a, !.firstLoss = b] \in CheckType
  BY DEF CheckType

\* The result with another alignment.
LEMMA ResyncType ==
  ASSUME NEW c \in CheckType, NEW i \in Nat, NEW f \in Nat, NEW s \in Int, NEW m \in Nat, NEW a \in Nat
  PROVE  [c EXCEPT !.resyncs = i, !.skipped = s, !.firstResync = f, !.maxSkipped = m, !.maxSkippedAt = a] \in CheckType
  BY DEF CheckType

\* A loss is counted.
LEMMA CountLoss ==
  ASSUME Length \in Nat, end \in Nat, NEW V, NEW at, NEW S, Visited(V, at, S), Complete(at), ~SyncAt(at),
         NEW c \in CheckType, Counted(Losses(V), c), Recovered(Losses(V), c)
  PROVE  Searched(V, at, S, ObserveLoss(c, at)) /\ ObserveLoss(c, at) \in CheckType
<1> DEFINE L == Losses(V)
           d == ObserveLoss(c, at)
<1>1. L \subseteq V /\ V \in SUBSET Nat /\ IsFiniteSet(V) /\ at \in Nat /\ \A p \in V : p < at
  BY DEF Visited, Losses
<1>2. IsFiniteSet(L) /\ Cardinality(L) \in Nat /\ (Cardinality(L) = 0 <=> L = {}) /\ at \notin L
  BY <1>1, FS_Subset, FS_CardinalityType, FS_EmptySet
<1>3. Cardinality(L \cup {at}) = Cardinality(L) + 1
  BY <1>2, FS_AddElement
<1>4. /\ d.losses = c.losses + 1 /\ d.firstLoss = IF c.losses = 0 THEN at ELSE c.firstLoss
      /\ d.resyncs = c.resyncs /\ d.skipped = c.skipped /\ d.firstResync = c.firstResync
      /\ d.maxSkipped = c.maxSkipped /\ d.maxSkippedAt = c.maxSkippedAt
      /\ d \in CheckType
  <2>1. /\ d.losses = c.losses + 1 /\ d.firstLoss = IF c.losses = 0 THEN at ELSE c.firstLoss
        /\ d.resyncs = c.resyncs /\ d.skipped = c.skipped /\ d.firstResync = c.firstResync
        /\ d.maxSkipped = c.maxSkipped /\ d.maxSkippedAt = c.maxSkippedAt
    BY CheckFields DEF ObserveLoss, CheckType
  <2>2. c.losses + 1 \in Nat /\ (IF c.losses = 0 THEN at ELSE c.firstLoss) \in Nat
    BY <1>1, CheckFields
  <2>3. d \in CheckType
    BY <2>2, LossType DEF ObserveLoss
  <2>4. QED BY <2>1, <2>3
<1> HIDE DEF L, d
<1>5. c.losses = Cardinality(L) /\ (L # {} => c.firstLoss \in L /\ \A q \in L : c.firstLoss <= q)
  BY DEF Counted, L
<1>6. Counted(L \cup {at}, d)
  <2>1. CASE L = {}
    BY <1>1, <1>2, <1>3, <1>4, <1>5, <2>1 DEF Counted
  <2>2. CASE L # {}
    <3>1. d.firstLoss = c.firstLoss /\ d.firstLoss \in L
      BY <1>2, <1>4, <1>5, <2>2
    <3>2. d.firstLoss <= at
      <4>1. d.firstLoss \in Nat /\ d.firstLoss < at
        BY <1>1, <3>1
      <4>2. QED BY <1>1, <4>1
    <3>3. QED BY <1>3, <1>4, <1>5, <2>2, <3>1, <3>2 DEF Counted
  <2>3. QED BY <2>1, <2>2
<1>7. Recovered(L, d)
  BY <1>4 DEF Recovered, L
<1>8. QED BY <1>4, <1>6, <1>7 DEF Searched, L, d

\* An alignment is found, and what was skipped counted.
LEMMA CountResync ==
  ASSUME Length \in Nat, end \in Nat, NEW V, NEW at, NEW S, NEW c \in CheckType, Searched(V, at, S, c),
         NEW here, here \in Candidates(at), \A q \in Candidates(at) : here <= q
  PROVE  Scanned(V \cup {at}, here, S, ObserveResync(c, at, here)) /\ ObserveResync(c, at, here) \in CheckType
<1> DEFINE L == Losses(V)
           M == L \cup {at}
           d == ObserveResync(c, at, here)
<1>1. /\ L \subseteq V /\ V \in SUBSET Nat /\ IsFiniteSet(V) /\ at \in Nat /\ \A p \in V : p < at
      /\ Complete(at) /\ ~SyncAt(at) /\ Visited(V, at, S)
      /\ \A p \in L : Candidates(p) # {}
  BY DEF Visited, Losses, Searched
<1>2. IsFiniteSet(L) /\ Cardinality(L) \in Nat /\ (Cardinality(L) = 0 <=> L = {}) /\ at \notin L
  BY <1>1, FS_Subset, FS_CardinalityType, FS_EmptySet
<1>3. Cardinality(M) = Cardinality(L) + 1
  BY <1>2, FS_AddElement
<1>4. \A p \in M : Candidates(p) # {} /\ p \in Nat
  BY <1>1
<1>5. ASSUME NEW p \in M
      PROVE  Skipped(p) \in Nat /\ Skipped(p) >= 1
  BY <1>4, FirstCandidate
<1>6. here = Min(Candidates(at)) /\ here \in at + 1 .. Length /\ Skipped(at) = here - at
  <2>1. /\ Min(Candidates(at)) \in Candidates(at) /\ \A q \in Candidates(at) : Min(Candidates(at)) <= q
        /\ Min(Candidates(at)) \in at + 1 .. Length
    BY <1>1, FirstCandidate
  <2>2. here <= Min(Candidates(at)) /\ Min(Candidates(at)) <= here /\ here \in Int
    BY <2>1 DEF Candidates
  <2>3. here = Min(Candidates(at))
    BY <2>1, <2>2
  <2>4. QED BY <2>1, <2>3 DEF Skipped
<1>7. Visited(V \cup {at}, here, S) /\ Losses(V \cup {at}) = M
  BY <1>1, <1>6, VisitLoss
<1> DEFINE n == here - at
<1>8. n \in Nat /\ n >= 1 /\ here \in Nat
  BY <1>1, <1>6
<1>9. SkippedIn(M) = SkippedIn(L) + n
  <2>1. \A x \in M : Skipped(x) \in Int
    BY <1>5
  <2> HIDE DEF L
  <2>2. QED BY <1>2, <1>6, <2>1, SumAdds
<1>10. /\ d.resyncs = c.resyncs + 1 /\ d.skipped = c.skipped + n
       /\ d.firstResync = IF c.resyncs = 0 THEN here ELSE c.firstResync
       /\ d.maxSkipped = IF n > c.maxSkipped THEN n ELSE c.maxSkipped
       /\ d.maxSkippedAt = IF n > c.maxSkipped THEN at ELSE c.maxSkippedAt
       /\ d.losses = c.losses /\ d.firstLoss = c.firstLoss
       /\ d \in CheckType
  <2>1. /\ d.resyncs = c.resyncs + 1 /\ d.skipped = c.skipped + n
        /\ d.firstResync = IF c.resyncs = 0 THEN here ELSE c.firstResync
        /\ d.maxSkipped = IF n > c.maxSkipped THEN n ELSE c.maxSkipped
        /\ d.maxSkippedAt = IF n > c.maxSkipped THEN at ELSE c.maxSkippedAt
        /\ d.losses = c.losses /\ d.firstLoss = c.firstLoss
    BY CheckFields DEF ObserveResync, CheckType
  <2> DEFINE i == c.resyncs + 1
             f == IF c.resyncs = 0 THEN here ELSE c.firstResync
             s == c.skipped + n
             m == IF n > c.maxSkipped THEN n ELSE c.maxSkipped
             a == IF n > c.maxSkipped THEN at ELSE c.maxSkippedAt
  <2>3. i \in Nat /\ f \in Nat /\ s \in Int /\ m \in Nat /\ a \in Nat
    <3> HIDE DEF n
    <3> QED BY <1>1, <1>8, CheckFields
  <2>4. d = [c EXCEPT !.resyncs = i, !.skipped = s, !.firstResync = f, !.maxSkipped = m, !.maxSkippedAt = a]
    BY DEF ObserveResync
  <2> HIDE DEF d, i, f, s, m, a
  <2>5. d \in CheckType
    BY <2>3, <2>4, ResyncType
  <2>6. QED BY <2>1, <2>5 DEF d
<1>11. Counted(M, c) /\ Recovered(L, c)
  BY DEF Searched
<1>12. Counted(M, d)
  BY <1>10, <1>11 DEF Counted
<1>13. /\ c.resyncs = Cardinality(L) /\ c.skipped = SkippedIn(L)
       /\ c.maxSkipped \in Nat /\ c.maxSkippedAt \in Nat
       /\ L = {} => c.maxSkipped = 0
       /\ L # {} =>
            /\ \E first \in L : (\A q \in L : first <= q) /\ c.firstResync = Min(Candidates(first))
            /\ c.maxSkippedAt \in L /\ Skipped(c.maxSkippedAt) = c.maxSkipped
            /\ \A p \in L : Skipped(p) <= c.maxSkipped /\ (Skipped(p) = c.maxSkipped => c.maxSkippedAt <= p)
  BY <1>11 DEF Recovered, CheckType
<1> HIDE DEF n, d
<1>14. d.resyncs = Cardinality(M) /\ d.skipped = SkippedIn(M) /\ M # {}
  BY <1>3, <1>9, <1>10, <1>13
<1>15. \E first \in M : (\A q \in M : first <= q) /\ d.firstResync = Min(Candidates(first))
  <2>1. CASE L = {}
    BY <1>1, <1>2, <1>6, <1>10, <1>13, <2>1
  <2>2. CASE L # {}
    <3>1. PICK first \in L : (\A q \in L : first <= q) /\ c.firstResync = Min(Candidates(first))
      BY <1>13, <2>2
    <3>2. first \in M /\ first <= at
      <4>1. first \in Nat /\ first < at
        BY <1>1, <3>1
      <4>2. QED BY <1>1, <3>1, <4>1
    <3>3. d.firstResync = c.firstResync
      BY <1>2, <1>10, <1>13, <2>2
    <3>4. QED BY <3>1, <3>2, <3>3
  <2>3. QED BY <2>1, <2>2
<1>16. /\ d.maxSkippedAt \in M /\ Skipped(d.maxSkippedAt) = d.maxSkipped
       /\ \A p \in M : Skipped(p) <= d.maxSkipped /\ (Skipped(p) = d.maxSkipped => d.maxSkippedAt <= p)
  <2>0. Skipped(at) = n
    BY <1>6 DEF n
  <2>1. CASE L = {}
    <3>1. d.maxSkipped = n /\ d.maxSkippedAt = at /\ M = {at}
      BY <1>8, <1>10, <1>13, <2>1
    <3>2. QED BY <1>1, <1>8, <2>0, <3>1
  <2>2. CASE L # {} /\ n > c.maxSkipped
    <3>1. d.maxSkipped = n /\ d.maxSkippedAt = at
      BY <1>10, <2>2
    <3>2. ASSUME NEW p \in L PROVE Skipped(p) < n
      <4>1. Skipped(p) \in Nat /\ Skipped(p) <= c.maxSkipped
        BY <1>5, <1>13, <2>2
      <4>2. QED BY <1>8, <1>13, <2>2, <4>1
    <3>3. ASSUME NEW p \in M PROVE Skipped(p) <= n /\ (Skipped(p) = n => at <= p)
      <4>1. CASE p = at
        BY <1>1, <1>8, <2>0, <4>1
      <4>2. CASE p \in L
        BY <1>5, <1>8, <3>2, <4>2
      <4>3. QED BY <4>1, <4>2
    <3>4. QED BY <2>0, <3>1, <3>3
  <2>3. CASE L # {} /\ ~(n > c.maxSkipped)
    <3>1. d.maxSkipped = c.maxSkipped /\ d.maxSkippedAt = c.maxSkippedAt /\ n <= c.maxSkipped
      BY <1>8, <1>10, <1>13, <2>3
    <3>2. c.maxSkippedAt <= at
      BY <1>1, <1>13, <2>3
    <3>3. ASSUME NEW p \in M PROVE Skipped(p) <= c.maxSkipped /\ (Skipped(p) = c.maxSkipped => c.maxSkippedAt <= p)
      <4>1. CASE p = at
        BY <2>0, <3>1, <3>2, <4>1
      <4>2. CASE p \in L
        BY <1>13, <2>3, <4>2
      <4>3. QED BY <4>1, <4>2
    <3>4. QED BY <1>13, <2>3, <3>1, <3>3
  <2>4. QED BY <2>1, <2>2, <2>3
<1>17. Recovered(M, d)
  BY <1>14, <1>15, <1>16 DEF Recovered
<1>18. QED BY <1>7, <1>10, <1>12, <1>17 DEF Scanned, d

-------------------------------------------------------------------------------
(* What was found is what is defined.                                        *)

\* ScanAsDefined of the packets served, the result, whether the scan was lost and
\* where it ended.
Result(S, c, l, at) ==
  LET losses    == {p \in Boundaries : Complete(p) /\ ~SyncAt(p)}
      recovered == {p \in losses : Candidates(p) # {}}
  IN
  /\ S = {[i \in 1 .. PacketSize |-> p + i - 1] : p \in {q \in Boundaries : Complete(q) /\ SyncAt(q)}}
  /\ c.losses = Cardinality(losses)
  /\ c.losses > 0 => c.firstLoss = Min(losses)
  /\ c.resyncs = Cardinality(recovered)
  /\ c.skipped = SkippedIn(recovered)
  /\ c.resyncs > 0 =>
       /\ c.firstResync = Min(Candidates(Min(recovered)))
       /\ c.maxSkipped = Max({Skipped(p) : p \in recovered})
       /\ c.maxSkippedAt = Min({p \in recovered : Skipped(p) = c.maxSkipped})
  /\ l = (losses # recovered)
  /\ at = Max(Boundaries)
  /\ c.unrecovered = IF losses = recovered THEN "none"
                     ELSE IF Max(Boundaries) + MaxResyncScanBytes + Window <= Limit THEN "limit"
                     ELSE IF end > 0 /\ Length >= end THEN "range" ELSE "input"
  /\ c.trailing = IF Complete(Max(Boundaries)) \/ Length > Limit THEN 0 ELSE Length - Max(Boundaries)

\* Result is what ScanAsDefined says of the state.
LEMMA ResultIsDefined ==
  (phase = "done" => Result(served, check, lost, pos)) => ScanAsDefined
  BY DEF ScanAsDefined, ServedAsDefined, ResultAsDefined, Result, SkippedIn, AddsUp, Skipped, MapThenSumSet, MapThenFoldSet

\* The counts are those of the losses.
LEMMA CountsAreDefined ==
  ASSUME NEW L \in SUBSET Nat, IsFiniteSet(L), NEW c, Counted(L, c)
  PROVE  c.losses = Cardinality(L) /\ (c.losses > 0 => c.firstLoss = Min(L))
<1>1. c.losses = Cardinality(L) /\ (L # {} => c.firstLoss \in L /\ \A q \in L : c.firstLoss <= q)
  BY DEF Counted
<1>2. Cardinality(L) > 0 => L # {}
  BY FS_EmptySet
<1>3. CASE L = {}
  BY <1>1, <1>2, <1>3
<1>4. CASE L # {}
  <2>1. c.firstLoss \in L /\ \A q \in L : c.firstLoss <= q
    BY <1>1, <1>4
  <2>2. Min(L) = c.firstLoss
    BY <2>1, MinIs
  <2>3. QED BY <1>1, <2>2
<1>5. QED BY <1>3, <1>4

\* What is known of the skips is what is defined.
LEMMA SkipsAreDefined ==
  ASSUME NEW L \in SUBSET Nat, IsFiniteSet(L), \A p \in L : Skipped(p) \in Nat, NEW c, Recovered(L, c)
  PROVE  /\ c.resyncs = Cardinality(L) /\ c.skipped = SkippedIn(L)
         /\ c.resyncs > 0 =>
              /\ c.firstResync = Min(Candidates(Min(L)))
              /\ c.maxSkipped = Max({Skipped(p) : p \in L})
              /\ c.maxSkippedAt = Min({p \in L : Skipped(p) = c.maxSkipped})
<1>1. c.resyncs = Cardinality(L) /\ c.skipped = SkippedIn(L)
  BY DEF Recovered
<1>2. Cardinality(L) > 0 => L # {}
  BY FS_EmptySet
<1>3. CASE L = {}
  BY <1>1, <1>2, <1>3
<1>4. CASE L # {}
  <2>1. /\ c.maxSkippedAt \in L /\ Skipped(c.maxSkippedAt) = c.maxSkipped
        /\ \A p \in L : Skipped(p) <= c.maxSkipped /\ (Skipped(p) = c.maxSkipped => c.maxSkippedAt <= p)
    BY <1>4 DEF Recovered
  <2>2. PICK first \in L : (\A q \in L : first <= q) /\ c.firstResync = Min(Candidates(first))
    BY <1>4 DEF Recovered
  <2>3. Min(L) = first
    BY <2>2, MinIs
  <2> DEFINE T == {Skipped(p) : p \in L}
             U == {p \in L : Skipped(p) = c.maxSkipped}
  <2>4. T \in SUBSET Nat /\ c.maxSkipped \in T /\ \A k \in T : k <= c.maxSkipped
    BY <2>1
  <2>5. U \in SUBSET Nat /\ c.maxSkippedAt \in U /\ \A k \in U : c.maxSkippedAt <= k
    BY <2>1
  <2>6. Max(T) = c.maxSkipped
    <3> HIDE DEF T
    <3> QED BY <2>4, MaxIs
  <2>7. Min(U) = c.maxSkippedAt
    <3> HIDE DEF U
    <3> QED BY <2>5, MinIs
  <2>8. QED BY <1>1, <2>2, <2>3, <2>6, <2>7
<1>5. QED BY <1>3, <1>4

\* The result from its sets.
LEMMA ResultFrom ==
  ASSUME NEW L, NEW R, NEW H, NEW S, NEW c, NEW l, NEW at,
         L = {p \in Boundaries : Complete(p) /\ ~SyncAt(p)},
         R = {p \in L : Candidates(p) # {}},
         H = {q \in Boundaries : Complete(q) /\ SyncAt(q)},
         S = {PacketTaken(p) : p \in H},
         c.losses = Cardinality(L), c.losses > 0 => c.firstLoss = Min(L),
         c.resyncs = Cardinality(R), c.skipped = SkippedIn(R),
         c.resyncs > 0 =>
           /\ c.firstResync = Min(Candidates(Min(R)))
           /\ c.maxSkipped = Max({Skipped(p) : p \in R})
           /\ c.maxSkippedAt = Min({p \in R : Skipped(p) = c.maxSkipped}),
         l <=> L # R, l \in BOOLEAN, at = Max(Boundaries),
         c.unrecovered = IF L = R THEN "none"
                         ELSE IF at + MaxResyncScanBytes + Window <= Limit THEN "limit"
                         ELSE IF end > 0 /\ Length >= end THEN "range" ELSE "input",
         c.trailing = IF Complete(at) \/ Length > Limit THEN 0 ELSE Length - at
  PROVE  Result(S, c, l, at)
<1>1. l = (L # R)
  OBVIOUS
<1>2. S = {[i \in 1 .. PacketSize |-> p + i - 1] : p \in H}
  BY DEF PacketTaken, Run
<1>3. QED BY <1>1, <1>2 DEF Result

\* The facts of the losses that were made good.
LEMMA LossFacts ==
  ASSUME Length \in Nat, end \in Nat, NEW V, NEW here, NEW S, Visited(V, here, S)
  PROVE  /\ Losses(V) \in SUBSET Nat /\ IsFiniteSet(Losses(V)) /\ here \notin Losses(V)
         /\ \A p \in Losses(V) : Skipped(p) \in Nat
<1>1. V \in SUBSET Nat /\ IsFiniteSet(V) /\ \A p \in V : p < here
  BY DEF Visited
<1>2. Losses(V) \in SUBSET V
  BY DEF Losses
<1>3. ASSUME NEW p \in Losses(V) PROVE Skipped(p) \in Nat
  <2>1. p \in Nat /\ Candidates(p) # {}
    BY <1>1, <1>2 DEF Visited
  <2>2. QED BY <2>1, FirstCandidate
<1>4. here \in Nat /\ ~(here < here)
  BY DEF Visited
<1>5. here \notin Losses(V)
  BY <1>1, <1>2, <1>4
<1>6. IsFiniteSet(Losses(V))
  BY <1>1, <1>2, FS_Subset
<1>7. QED BY <1>1, <1>2, <1>3, <1>5, <1>6

\* The scan ends where no packet is left to read.
LEMMA EndsInScan ==
  ASSUME Length \in Nat, end \in Nat, NEW V, NEW here, NEW S, NEW c \in CheckType, Scanned(V, here, S, c),
         c.unrecovered = "none", ~Complete(here), NEW t, t = IF Length > Limit THEN 0 ELSE Length - here
  PROVE  Result(S, [c EXCEPT !.trailing = t], FALSE, here)
<1> DEFINE L == Losses(V)
           H == {q \in V : SyncAt(q)}
           d == [c EXCEPT !.trailing = t]
<1>1. Visited(V, here, S) /\ Counted(L, c) /\ Recovered(L, c)
  BY DEF Scanned
<1>2. L \in SUBSET Nat /\ IsFiniteSet(L) /\ \A p \in L : Skipped(p) \in Nat
  BY <1>1, LossFacts
<1>3. Boundaries = V \cup {here} /\ Max(Boundaries) = here
  BY <1>1, VisitLast
<1>4. (\A p \in V : Complete(p)) /\ (\A p \in L : Candidates(p) # {}) /\ S = {PacketTaken(p) : p \in H}
  BY <1>1 DEF Visited
<1>5. L = {p \in Boundaries : Complete(p) /\ ~SyncAt(p)} /\ H = {q \in Boundaries : Complete(q) /\ SyncAt(q)}
  BY <1>3, <1>4 DEF Losses
<1>6. L = {p \in L : Candidates(p) # {}}
  BY <1>4
<1>7. /\ d.losses = c.losses /\ d.firstLoss = c.firstLoss /\ d.resyncs = c.resyncs /\ d.skipped = c.skipped
      /\ d.firstResync = c.firstResync /\ d.maxSkipped = c.maxSkipped /\ d.maxSkippedAt = c.maxSkippedAt
      /\ d.unrecovered = "none" /\ d.trailing = t
  BY DEF CheckType
<1> HIDE DEF L, H, d
<1>8. c.losses = Cardinality(L) /\ (c.losses > 0 => c.firstLoss = Min(L))
  BY <1>1, <1>2, CountsAreDefined
<1>9. /\ c.resyncs = Cardinality(L) /\ c.skipped = SkippedIn(L)
      /\ c.resyncs > 0 =>
           /\ c.firstResync = Min(Candidates(Min(L)))
           /\ c.maxSkipped = Max({Skipped(p) : p \in L})
           /\ c.maxSkippedAt = Min({p \in L : Skipped(p) = c.maxSkipped})
  BY <1>1, <1>2, SkipsAreDefined
<1>10. d.losses = Cardinality(L) /\ (d.losses > 0 => d.firstLoss = Min(L))
  BY <1>7, <1>8
<1>11. /\ d.resyncs = Cardinality(L) /\ d.skipped = SkippedIn(L)
       /\ d.resyncs > 0 =>
            /\ d.firstResync = Min(Candidates(Min(L)))
            /\ d.maxSkipped = Max({Skipped(p) : p \in L})
            /\ d.maxSkippedAt = Min({p \in L : Skipped(p) = d.maxSkipped})
  BY <1>7, <1>9
<1>12. d.trailing = IF Complete(here) \/ Length > Limit THEN 0 ELSE Length - here
  BY <1>7
<1>13. d.unrecovered = IF L = L THEN "none"
                       ELSE IF here + MaxResyncScanBytes + Window <= Limit THEN "limit"
                       ELSE IF end > 0 /\ Length >= end THEN "range" ELSE "input"
  BY <1>7
<1>14. Result(S, d, FALSE, here)
  BY <1>3, <1>4, <1>5, <1>6, <1>10, <1>11, <1>12, <1>13, ResultFrom
<1>15. QED BY <1>14 DEF d

\* The scan ends at a loss without an alignment near enough.
LEMMA EndsInSearch ==
  ASSUME Length \in Nat, end \in Nat, NEW V, NEW at, NEW S, NEW c \in CheckType, Searched(V, at, S, c),
         c.trailing = 0, Candidates(at) = {},
         NEW r, r = IF at + MaxResyncScanBytes + Window <= Limit THEN "limit"
                    ELSE IF end > 0 /\ Length >= end THEN "range" ELSE "input"
  PROVE  Result(S, [c EXCEPT !.unrecovered = r], TRUE, at)
<1> DEFINE R == Losses(V)
           L == R \cup {at}
           H == {q \in V : SyncAt(q)}
           d == [c EXCEPT !.unrecovered = r]
<1>1. Visited(V, at, S) /\ Counted(L, c) /\ Recovered(R, c) /\ Complete(at) /\ ~SyncAt(at)
  BY DEF Searched
<1>2. R \in SUBSET Nat /\ IsFiniteSet(R) /\ (\A p \in R : Skipped(p) \in Nat) /\ at \notin R
  BY <1>1, LossFacts
<1>3. Boundaries = V \cup {at} /\ Max(Boundaries) = at /\ at \in Nat
  BY <1>1, VisitLast
<1>4. (\A p \in V : Complete(p)) /\ (\A p \in R : Candidates(p) # {}) /\ S = {PacketTaken(p) : p \in H}
  BY <1>1 DEF Visited
<1>5. L = {p \in Boundaries : Complete(p) /\ ~SyncAt(p)} /\ H = {q \in Boundaries : Complete(q) /\ SyncAt(q)}
  BY <1>1, <1>3, <1>4 DEF Losses
<1>6. R = {p \in L : Candidates(p) # {}}
  BY <1>4
<1>7. /\ d.losses = c.losses /\ d.firstLoss = c.firstLoss /\ d.resyncs = c.resyncs /\ d.skipped = c.skipped
      /\ d.firstResync = c.firstResync /\ d.maxSkipped = c.maxSkipped /\ d.maxSkippedAt = c.maxSkippedAt
      /\ d.unrecovered = r /\ d.trailing = 0
  BY DEF CheckType
<1>8. L \in SUBSET Nat /\ IsFiniteSet(L) /\ L # R
  <2> HIDE DEF R
  <2> QED BY <1>2, <1>3, FS_AddElement
<1> HIDE DEF L, R, H, d
<1>9. c.losses = Cardinality(L) /\ (c.losses > 0 => c.firstLoss = Min(L))
  BY <1>1, <1>8, CountsAreDefined
<1>10. /\ c.resyncs = Cardinality(R) /\ c.skipped = SkippedIn(R)
       /\ c.resyncs > 0 =>
            /\ c.firstResync = Min(Candidates(Min(R)))
            /\ c.maxSkipped = Max({Skipped(p) : p \in R})
            /\ c.maxSkippedAt = Min({p \in R : Skipped(p) = c.maxSkipped})
  BY <1>1, <1>2, SkipsAreDefined
<1>11. d.losses = Cardinality(L) /\ (d.losses > 0 => d.firstLoss = Min(L))
  BY <1>7, <1>9
<1>12. /\ d.resyncs = Cardinality(R) /\ d.skipped = SkippedIn(R)
       /\ d.resyncs > 0 =>
            /\ d.firstResync = Min(Candidates(Min(R)))
            /\ d.maxSkipped = Max({Skipped(p) : p \in R})
            /\ d.maxSkippedAt = Min({p \in R : Skipped(p) = d.maxSkipped})
  BY <1>7, <1>10
<1>13. d.trailing = IF Complete(at) \/ Length > Limit THEN 0 ELSE Length - at
  BY <1>1, <1>7
<1>14. d.unrecovered = IF L = R THEN "none"
                       ELSE IF at + MaxResyncScanBytes + Window <= Limit THEN "limit"
                       ELSE IF end > 0 /\ Length >= end THEN "range" ELSE "input"
  BY <1>7, <1>8
<1>15. Result(S, d, TRUE, at)
  BY <1>3, <1>4, <1>5, <1>6, <1>8, <1>11, <1>12, <1>13, <1>14, ResultFrom
<1>16. QED BY <1>15 DEF d

-------------------------------------------------------------------------------
(* What the code reads is the input.                                         *)

\* The sync bytes of an alignment are within the lookahead.
LEMMA InWindow ==
  ASSUME NEW j \in 0 .. ResyncSyncBytes - 1
  PROVE  j * PacketSize \in Nat /\ SyncOffset + j * PacketSize + 1 \in 1 .. Window
<1>1. PICK a \in Nat : a = ResyncSyncBytes - 1 - j
  BY ReaderAssumption
<1>2. a * PacketSize \in Nat /\ j * PacketSize \in Nat /\ j \in Nat /\ PacketSize \in Nat
  BY <1>1, ReaderAssumption
<1>3. (a + j) * PacketSize = a * PacketSize + j * PacketSize
  BY <1>1, <1>2
<1>4. a + j = ResyncSyncBytes - 1
  BY <1>1, <1>2, ReaderAssumption
<1>5. Window = SyncOffset + (a * PacketSize + j * PacketSize) + 1
  BY <1>3, <1>4 DEF Window
<1>6. QED BY <1>2, <1>5, ReaderAssumption

\* What is left to read of the input, and where it is.
AtHand(k) ==
  /\ Length \in Nat /\ end \in Nat /\ pos \in Nat /\ src \in Nat /\ k \in Nat
  /\ k <= ResyncBufferSize /\ held = Run(pos, k) /\ src = pos + k /\ src <= Length
  /\ end > 0 => src <= end

\* fill, for a size that may be more than is left.
LEMMA TakenAtHand ==
  ASSUME NEW k, AtHand(k), NEW size \in Nat
  PROVE  /\ Taken(size) = Run(pos, IF pos + size <= Length THEN size ELSE Length - pos)
         /\ Len(Taken(size)) = IF pos + size <= Length THEN size ELSE Length - pos
<1>1. /\ Length \in Nat /\ pos \in Nat /\ k \in Nat /\ InStep(held, pos, src, k) /\ src <= Length /\ pos <= Length
  BY DEF AtHand, InStep
<1>2. /\ Taken(size) = Run(pos, Min({size, Length - pos}))
      /\ Len(Taken(size)) = Min({size, Length - pos})
  BY <1>1, TakenIsNext
<1>3. Min({size, Length - pos}) = IF size <= Length - pos THEN size ELSE Length - pos
  BY <1>1, MinPair
<1>4. size <= Length - pos <=> pos + size <= Length
  BY <1>1
<1>5. QED BY <1>2, <1>3, <1>4

\* A whole packet in the range.
LEMMA PacketAtHand ==
  ASSUME NEW k, AtHand(k), InRange, Len(Taken(PacketSize)) = PacketSize
  PROVE  /\ Complete(pos) /\ Taken(PacketSize) = PacketTaken(pos)
         /\ (input[Taken(PacketSize)[SyncOffset + 1]] <=> SyncAt(pos))
         /\ end > 0 => pos + PacketSize <= end
         /\ pos + PacketSize <= Length
<1>1. Length \in Nat /\ end \in Nat /\ pos \in Nat /\ pos <= Length
  BY DEF AtHand
<1>2. PacketSize \in Nat /\ PacketSize >= 1 /\ SyncOffset \in Nat /\ SyncOffset + 1 \in 1 .. PacketSize
  BY ReaderAssumption
<1>3. /\ Taken(PacketSize) = Run(pos, IF pos + PacketSize <= Length THEN PacketSize ELSE Length - pos)
      /\ PacketSize = IF pos + PacketSize <= Length THEN PacketSize ELSE Length - pos
  BY <1>2, TakenAtHand
<1>4. pos + PacketSize <= Length
  BY <1>1, <1>2, <1>3
<1>5. Taken(PacketSize) = PacketTaken(pos)
  BY <1>3, <1>4 DEF PacketTaken
<1>6. Complete(pos)
  BY <1>1, <1>2, <1>4, LimitIs DEF Complete, InRange
<1>7. Taken(PacketSize)[SyncOffset + 1] = pos + SyncOffset
  <2>1. Run(pos, PacketSize)[SyncOffset + 1] = pos + (SyncOffset + 1) - 1
    BY <1>1, <1>2, RunType
  <2>2. QED BY <1>1, <1>2, <1>5, <2>1 DEF PacketTaken
<1>8. QED BY <1>1, <1>2, <1>4, <1>5, <1>6, <1>7 DEF SyncAt, InRange

\* The input ends before a packet does.
LEMMA TrailingAtHand ==
  ASSUME NEW k, AtHand(k), InRange, Len(Taken(PacketSize)) < PacketSize
  PROVE  ~Complete(pos) /\ Len(Taken(PacketSize)) = IF Length > Limit THEN 0 ELSE Length - pos
<1>1. Length \in Nat /\ end \in Nat /\ pos \in Nat /\ pos <= Length
  BY DEF AtHand
<1>2. PacketSize \in Nat /\ PacketSize >= 1
  BY ReaderAssumption
<1>3. Len(Taken(PacketSize)) = IF pos + PacketSize <= Length THEN PacketSize ELSE Length - pos
  BY <1>2, TakenAtHand
<1>4. ~(pos + PacketSize <= Length)
  BY <1>1, <1>2, <1>3
<1>5. Limit = Length
  BY <1>1, <1>2, <1>4, LimitIs DEF InRange
<1>6. QED BY <1>1, <1>2, <1>3, <1>4, <1>5 DEF Complete

\* The range ends before a packet does.
LEMMA RangeAtHand ==
  ASSUME NEW k, AtHand(k), ~InRange
  PROVE  ~Complete(pos) /\ TrailingAtEOF(end - pos) = IF Length > Limit THEN 0 ELSE Length - pos
<1>1. /\ Length \in Nat /\ end \in Nat /\ pos \in Nat /\ pos <= Length
      /\ end > 0 /\ pos <= end /\ PacketSize \in Nat /\ pos + PacketSize > end
  BY ReaderAssumption DEF AtHand, InRange
<1>2. Limit \in Nat /\ Limit <= Length /\ Limit = IF Length <= end THEN Length ELSE end
  BY <1>1, LimitIs
<1>3. ~Complete(pos)
  BY <1>1, <1>2 DEF Complete
<1> DEFINE rest == end - pos
<1>4. rest \in Nat /\ rest + 1 \in Nat
  BY <1>1
<1>5. /\ Len(Taken(rest)) = IF pos + rest <= Length THEN rest ELSE Length - pos
      /\ Len(Taken(rest + 1)) = IF pos + (rest + 1) <= Length THEN rest + 1 ELSE Length - pos
  <2> HIDE DEF rest
  <2> QED BY <1>4, TakenAtHand
<1>6. pos + rest = end /\ (rest > 0 <=> pos < end)
  BY <1>1
<1> HIDE DEF rest
<1>7. Len(Taken(rest + 1)) <= rest <=> Length <= end
  BY <1>1, <1>4, <1>5, <1>6
<1>8. Length <= end => Len(Taken(rest)) = Length - pos
  BY <1>1, <1>4, <1>5, <1>6
<1>9. TrailingAtEOF(rest) = IF rest > 0 /\ Length <= end THEN Length - pos ELSE 0
  BY <1>7, <1>8 DEF TrailingAtEOF
<1>10. rest = 0 => (IF Length > Limit THEN 0 ELSE Length - pos) = 0
  BY <1>1, <1>2, <1>6
<1>11. Length > Limit <=> ~(Length <= end)
  BY <1>1, <1>2
<1>12. TrailingAtEOF(rest) = IF Length > Limit THEN 0 ELSE Length - pos
  BY <1>4, <1>9, <1>10, <1>11
<1>13. QED BY <1>3, <1>12 DEF rest

\* The lookahead is aligned when the input is.
LEMMA AlignedAtHand ==
  ASSUME NEW k, AtHand(k), ~NeedsMore
  PROVE  (Aligned <=> AlignedAt(pos)) /\ pos + Window <= src
<1>1. /\ Length \in Nat /\ end \in Nat /\ pos \in Nat /\ k \in Nat /\ held = Run(pos, k) /\ src = pos + k
      /\ src <= Length /\ (end > 0 => src <= end)
  BY DEF AtHand
<1>2. Len(held) = k /\ k >= Window /\ Window \in Nat /\ SyncOffset \in Nat
  BY <1>1, RunType, WindowPositive, ReaderAssumption DEF NeedsMore
<1>3. pos + Window <= src /\ pos + Window <= Limit
  BY <1>1, <1>2, LimitIs
<1>4. ASSUME NEW j \in 0 .. ResyncSyncBytes - 1
      PROVE  input[held[SyncOffset + j * PacketSize + 1]] = SyncAt(pos + j * PacketSize)
  <2> DEFINE m == j * PacketSize
  <2>1. m \in Nat /\ SyncOffset + m + 1 \in 1 .. Window
    BY InWindow
  <2> HIDE DEF m
  <2>2. SyncOffset + m + 1 \in 1 .. k
    BY <1>1, <1>2, <2>1
  <2>3. held[SyncOffset + m + 1] = pos + (SyncOffset + m + 1) - 1
    BY <1>1, <2>2, RunType
  <2>4. pos + (SyncOffset + m + 1) - 1 = pos + m + SyncOffset
    BY <1>1, <1>2, <2>1
  <2>5. input[held[SyncOffset + m + 1]] = SyncAt(pos + m)
    BY <2>3, <2>4 DEF SyncAt
  <2>6. QED BY <2>5 DEF m
<1>5. Aligned <=> \A j \in 0 .. ResyncSyncBytes - 1 : SyncAt(pos + j * PacketSize)
  BY <1>4 DEF Aligned
<1>6. QED BY <1>3, <1>5 DEF AlignedAt

\* Nothing more may be read: the lookahead ends where the input or the range does.
LEMMA NoMoreAtHand ==
  ASSUME NEW k, AtHand(k), NeedsMore, More = 0
  PROVE  src = Limit /\ pos + Window > Limit
<1>1. /\ Length \in Nat /\ end \in Nat /\ pos \in Nat /\ k \in Nat /\ src = pos + k /\ src \in Nat
      /\ src <= Length /\ (end > 0 => src <= end) /\ Len(held) = k
  BY RunType DEF AtHand
<1>2. k < Window /\ Window \in Nat /\ Window <= ResyncBufferSize /\ ResyncBufferSize \in Nat
  BY <1>1, WindowPositive, ReaderAssumption DEF NeedsMore
<1> DEFINE room == ResyncBufferSize - k
           left == Max({end - src, 0})
<1>3. room \in Nat /\ room > 0
  BY <1>1, <1>2
<1>4. left = IF end - src >= 0 THEN end - src ELSE 0
  BY <1>1, MaxPair
<1>5. left \in Nat
  BY <1>1, <1>4
<1>6. Room = IF end > 0 THEN Min({room, left}) ELSE room
  BY <1>1 DEF Room
<1> HIDE DEF room, left
<1>7. Min({room, left}) = IF room <= left THEN room ELSE left
  BY <1>3, <1>5, MinPair
<1>8. Room \in Nat
  BY <1>3, <1>5, <1>6, <1>7
<1>9. More = IF Room <= Length - src THEN Room ELSE Length - src
  BY <1>1, <1>8, MinPair DEF More
<1>10. Room = 0 \/ Length = src
  BY <1>1, <1>8, <1>9
<1>11. Room = 0 => end > 0 /\ end <= src
  BY <1>1, <1>3, <1>4, <1>5, <1>6, <1>7
<1>12. src = Limit
  BY <1>1, <1>10, <1>11, LimitIs
<1>13. QED BY <1>1, <1>2, <1>12

\* readMore stays within the range and the input.
LEMMA MoreAtHand ==
  ASSUME NEW k, AtHand(k), More > 0
  PROVE  end > 0 => src + More <= end
<1>1. /\ Length \in Nat /\ end \in Nat /\ pos \in Nat /\ k \in Nat /\ src = pos + k /\ src \in Nat
      /\ src <= Length /\ (end > 0 => src <= end) /\ Len(held) = k /\ k <= ResyncBufferSize
  BY RunType DEF AtHand
<1> DEFINE room == ResyncBufferSize - k
           left == Max({end - src, 0})
<1>3. room \in Nat
  BY <1>1, ReaderAssumption
<1>4. left = IF end - src >= 0 THEN end - src ELSE 0
  BY <1>1, MaxPair
<1>5. left \in Nat
  BY <1>1, <1>4
<1>6. Room = IF end > 0 THEN Min({room, left}) ELSE room
  BY <1>1 DEF Room
<1> HIDE DEF room, left
<1>7. Min({room, left}) = IF room <= left THEN room ELSE left
  BY <1>3, <1>5, MinPair
<1>8. Room \in Nat /\ (end > 0 => Room <= end - src)
  BY <1>1, <1>3, <1>4, <1>5, <1>6, <1>7
<1>9. More = IF Room <= Length - src THEN Room ELSE Length - src
  BY <1>1, <1>8, MinPair DEF More
<1>10. QED BY <1>1, <1>8, <1>9

-------------------------------------------------------------------------------
(* The invariant of the whole scan.                                          *)

\* Where the search is: no alignment before, and the last one seen within the limit.
SearchedTo(at, here, read) ==
  /\ here \in at + 1 .. at + MaxResyncScanBytes + 1
  /\ \A q \in at + 1 .. here - 1 : ~AlignedAt(q)
  /\ here > at + MaxResyncScanBytes => at + MaxResyncScanBytes + Window <= read

Finding ==
  /\ phase # "done" =>
       /\ check \in CheckType /\ check.unrecovered = "none" /\ check.trailing = 0
       /\ lost = FALSE /\ (end > 0 => src <= end)
  /\ phase = "scan" => \E V : Scanned(V, pos, served, check)
  /\ phase = "resync" => (\E V : Searched(V, loss, served, check)) /\ SearchedTo(loss, pos, src)
  /\ phase = "done" => Result(served, check, lost, pos)

\* The input and the range do not change, and neither does what they define.
LEMMA SameScanned ==
  ASSUME input' = input, end' = end, NEW S, NEW c, NEW V, NEW at
  PROVE  Scanned(V, at, S, c)' <=> Scanned(V, at, S, c)
  BY DEF Scanned, Visited, Counted, Recovered, Follow, Losses, PacketTaken, Run, SkippedIn, AddsUp, Skipped, Limit,
    Length, SyncAt, Candidates, AlignedAt, Complete, Boundaries

\* The same of a search,
LEMMA SameSearched ==
  ASSUME input' = input, end' = end, NEW S, NEW c, NEW V, NEW at
  PROVE  Searched(V, at, S, c)' <=> Searched(V, at, S, c)
  BY DEF Searched, Visited, Counted, Recovered, Follow, Losses, PacketTaken, Run, SkippedIn, AddsUp, Skipped, Limit,
    Length, SyncAt, Candidates, AlignedAt, Complete, Boundaries

\* of the result,
LEMMA SameResult ==
  ASSUME input' = input, end' = end, NEW S, NEW c, NEW l, NEW at
  PROVE  Result(S, c, l, at)' <=> Result(S, c, l, at)
  BY DEF Result, SkippedIn, AddsUp, Skipped, Limit, Length, SyncAt, Candidates, AlignedAt, Complete, Boundaries

\* and of where a search is.
LEMMA SameSearch ==
  ASSUME input' = input, end' = end, NEW at, NEW here, NEW read
  PROVE  SearchedTo(at, here, read)' <=> SearchedTo(at, here, read)
  BY DEF SearchedTo, Limit, Length, SyncAt, AlignedAt

\* The next state of each phase.
LEMMA FindingScan ==
  ASSUME input' = input, end' = end, phase' = "scan", check' \in CheckType, check'.unrecovered = "none",
         check'.trailing = 0, lost' = FALSE, end > 0 => src' <= end,
         NEW V, Scanned(V, pos', served', check')
  PROVE  Finding'
<1>1. (\E W : Scanned(W, pos, served, check))'
  BY SameScanned
<1>2. QED BY <1>1 DEF Finding

\* A search goes on.
LEMMA FindingSearch ==
  ASSUME input' = input, end' = end, phase' = "resync", check' \in CheckType, check'.unrecovered = "none",
         check'.trailing = 0, lost' = FALSE, end > 0 => src' <= end,
         NEW V, Searched(V, loss', served', check'), SearchedTo(loss', pos', src')
  PROVE  Finding'
<1>1. (\E W : Searched(W, loss, served, check))'
  BY SameSearched
<1>2. SearchedTo(loss, pos, src)'
  BY SameSearch
<1>3. QED BY <1>1, <1>2 DEF Finding

\* The scan is over.
LEMMA FindingDone ==
  ASSUME input' = input, end' = end, phase' = "done", Result(served', check', lost', pos')
  PROVE  Finding'
<1>1. Result(served, check, lost, pos)'
  BY SameResult
<1>2. QED BY <1>1 DEF Finding

\* Init and the steps.
LEMMA InitFinding == Init => IInv /\ Finding
<1> SUFFICES ASSUME Init PROVE IInv /\ Finding
  OBVIOUS
<1>1. IInv
  BY InitIInv
<1>2. Length \in Nat /\ end \in Nat
  <2>1. PICK n \in Inputs : input \in [0 .. n - 1 -> BOOLEAN]
    BY DEF Init
  <2>2. QED BY <2>1, LengthType, ReaderAssumption DEF Init
<1>3. Scanned({}, 0, {}, NewCheck) /\ NewCheck \in CheckType
  BY <1>2, NothingVisited
<1>4. NewCheck.unrecovered = "none" /\ NewCheck.trailing = 0
  BY DEF NewCheck
<1>5. QED BY <1>1, <1>2, <1>3, <1>4 DEF Init, Finding

\* The lookahead, while the scan goes on.
LEMMA StateAtHand ==
  ASSUME IInv, Finding, phase # "done"
  PROVE  \E k : AtHand(k)
<1>1. PICK n \in Inputs : input \in [0 .. n - 1 -> BOOLEAN]
  BY DEF IInv
<1>2. n \in Nat /\ Length = n
  BY <1>1, LengthType, ReaderAssumption
<1>3. PICK k \in 0 .. ResyncBufferSize : InStep(held, pos, src, k)
  BY DEF IInv, Reading
<1>4. k \in Nat /\ k <= ResyncBufferSize /\ src <= Length /\ held = Run(pos, k) /\ src = pos + k
  BY <1>3, ReaderAssumption DEF IInv, Reading, InStep
<1>5. AtHand(k)
  BY <1>2, <1>4 DEF AtHand, IInv, Finding
<1>6. QED BY <1>5

\* A packet is served.
LEMMA ServeFinds ==
  ASSUME IInv, Finding, ServePacket
  PROVE  Finding'
<1>1. /\ phase = "scan" /\ InRange /\ Len(Taken(PacketSize)) = PacketSize
      /\ input[Taken(PacketSize)[SyncOffset + 1]] /\ Fill(PacketSize)
      /\ served' = served \cup {Taken(PacketSize)} /\ pos' = pos + PacketSize
      /\ input' = input /\ end' = end /\ phase' = "scan" /\ lost' = lost /\ check' = check
  BY DEF ServePacket
<1>2. PICK k : AtHand(k)
  BY <1>1, StateAtHand
<1>3. /\ Complete(pos) /\ Taken(PacketSize) = PacketTaken(pos) /\ SyncAt(pos)
      /\ (end > 0 => pos + PacketSize <= end)
  BY <1>1, <1>2, PacketAtHand
<1>4. PICK V : Scanned(V, pos, served, check)
  BY <1>1 DEF Finding
<1>5. Length \in Nat /\ end \in Nat
  BY <1>2 DEF AtHand
<1>6. /\ Visited(V \cup {pos}, pos + PacketSize, served \cup {PacketTaken(pos)})
      /\ Losses(V \cup {pos}) = Losses(V)
  BY <1>3, <1>4, <1>5, VisitPacket DEF Scanned
<1>7. Scanned(V \cup {pos}, pos', served', check')
  BY <1>1, <1>3, <1>4, <1>6 DEF Scanned
<1>8. end > 0 => src' <= end
  <2>1. /\ k \in Nat /\ pos \in Nat /\ end \in Nat /\ Len(held) = k /\ src = pos + k /\ PacketSize \in Nat
        /\ (end > 0 => src <= end)
    BY <1>2, RunType, ReaderAssumption DEF AtHand
  <2>2. src' = src + PacketSize - Min({k, PacketSize})
    BY <1>1, <2>1 DEF Fill
  <2>3. Min({k, PacketSize}) = IF k <= PacketSize THEN k ELSE PacketSize
    BY <2>1, MinPair
  <2>4. QED BY <1>3, <2>1, <2>2, <2>3
<1>9. check \in CheckType /\ check.unrecovered = "none" /\ check.trailing = 0 /\ lost = FALSE
  BY <1>1 DEF Finding
<1>10. check' \in CheckType /\ check'.unrecovered = "none" /\ check'.trailing = 0 /\ lost' = FALSE
  BY <1>1, <1>9
<1>11. QED BY <1>1, <1>7, <1>8, <1>10, FindingScan

\* A loss starts a search.
LEMMA LoseFinds ==
  ASSUME IInv, Finding, LoseSync
  PROVE  Finding'
<1>1. /\ phase = "scan" /\ InRange /\ Len(Taken(PacketSize)) = PacketSize
      /\ ~input[Taken(PacketSize)[SyncOffset + 1]]
      /\ src' = src + Len(Taken(PacketSize)) - Min({Len(held), PacketSize})
      /\ phase' = "resync" /\ loss' = pos /\ pos' = pos + 1 /\ check' = ObserveLoss(check, pos)
      /\ input' = input /\ end' = end /\ lost' = lost /\ served' = served
  BY DEF LoseSync
<1>2. PICK k : AtHand(k)
  BY <1>1, StateAtHand
<1>3. /\ Complete(pos) /\ ~SyncAt(pos) /\ (end > 0 => pos + PacketSize <= end)
  BY <1>1, <1>2, PacketAtHand
<1>4. PICK V : Scanned(V, pos, served, check)
  BY <1>1 DEF Finding
<1>5. Length \in Nat /\ end \in Nat
  BY <1>2 DEF AtHand
<1>6. check \in CheckType /\ check.unrecovered = "none" /\ check.trailing = 0 /\ lost = FALSE
  BY <1>1 DEF Finding
<1>7. Searched(V, pos, served, ObserveLoss(check, pos)) /\ ObserveLoss(check, pos) \in CheckType
  BY <1>3, <1>4, <1>5, <1>6, CountLoss DEF Scanned
<1>8. Searched(V, loss', served', check') /\ check' \in CheckType
  BY <1>1, <1>7
<1>9. check'.unrecovered = "none" /\ check'.trailing = 0 /\ lost' = FALSE
  BY <1>1, <1>6 DEF ObserveLoss, CheckType
<1>10. end > 0 => src' <= end
  <2>1. /\ k \in Nat /\ pos \in Nat /\ end \in Nat /\ Len(held) = k /\ src = pos + k /\ PacketSize \in Nat
        /\ (end > 0 => src <= end)
    BY <1>2, RunType, ReaderAssumption DEF AtHand
  <2>2. src' = src + PacketSize - Min({k, PacketSize})
    BY <1>1, <2>1
  <2>3. Min({k, PacketSize}) = IF k <= PacketSize THEN k ELSE PacketSize
    BY <2>1, MinPair
  <2>4. QED BY <1>3, <2>1, <2>2, <2>3
<1>11. SearchedTo(pos, pos + 1, src')
  <2>1. pos \in Nat /\ MaxResyncScanBytes \in Nat \ {0}
    BY <1>2, ReaderAssumption DEF AtHand
  <2>2. pos + 1 \in pos + 1 .. pos + MaxResyncScanBytes + 1 /\ ~(pos + 1 > pos + MaxResyncScanBytes)
        /\ pos + 1 .. pos + 1 - 1 = {}
    BY <2>1
  <2>3. QED BY <2>2 DEF SearchedTo
<1>12. SearchedTo(loss', pos', src')
  BY <1>1, <1>11
<1>13. QED BY <1>1, <1>8, <1>9, <1>10, <1>12, FindingSearch

\* More of the input is read.
LEMMA ReadFinds ==
  ASSUME IInv, Finding, ReadMore
  PROVE  Finding'
<1>1. /\ phase = "resync" /\ More > 0 /\ src' = src + More
      /\ input' = input /\ end' = end /\ pos' = pos /\ phase' = phase /\ loss' = loss /\ lost' = lost
      /\ check' = check /\ served' = served
  BY DEF ReadMore, Searching
<1>2. PICK k : AtHand(k)
  BY <1>1, StateAtHand
<1>3. /\ check \in CheckType /\ check.unrecovered = "none" /\ check.trailing = 0 /\ lost = FALSE
      /\ SearchedTo(loss, pos, src)
  BY <1>1 DEF Finding
<1>4. PICK V : Searched(V, loss, served, check)
  BY <1>1 DEF Finding
<1>5. end > 0 => src' <= end
  BY <1>1, <1>2, MoreAtHand
<1>6. SearchedTo(loss, pos, src + More)
  <2>1. src \in Nat /\ loss \in Nat /\ MaxResyncScanBytes \in Nat /\ Window \in Nat
    BY WindowPositive, ReaderAssumption DEF IInv
  <2>2. More \in Int
    <3>1. /\ Length \in Nat /\ end \in Nat /\ pos \in Nat /\ Len(held) = k /\ k \in Nat /\ ResyncBufferSize \in Nat
      BY <1>2, RunType, ReaderAssumption DEF AtHand
    <3>2. Max({end - (pos + k), 0}) \in Int
      BY <3>1, MaxPair
    <3>3. Min({ResyncBufferSize - k, Max({end - (pos + k), 0})}) \in Int
      <4> DEFINE m == Max({end - (pos + k), 0})
      <4> HIDE DEF m
      <4>1. m \in Int
        BY <3>2 DEF m
      <4>2. Min({ResyncBufferSize - k, m}) \in Int
        BY <3>1, <4>1, MinPair
      <4>3. QED BY <4>2 DEF m
    <3>4. Room \in Int
      BY <3>1, <3>3 DEF Room
    <3>5. QED BY <2>1, <3>1, <3>4, MinPair DEF More
  <2>3. loss + MaxResyncScanBytes + Window <= src => loss + MaxResyncScanBytes + Window <= src + More
    BY <1>1, <2>1, <2>2
  <2>4. QED BY <1>3, <2>3 DEF SearchedTo
<1>7. Searched(V, loss', served', check') /\ SearchedTo(loss', pos', src')
  BY <1>1, <1>4, <1>6
<1>8. check' \in CheckType /\ check'.unrecovered = "none" /\ check'.trailing = 0 /\ lost' = FALSE /\ phase' = "resync"
  BY <1>1, <1>3
<1>9. QED BY <1>1, <1>5, <1>7, <1>8, FindingSearch

\* An alignment is found.
LEMMA ResyncFinds ==
  ASSUME IInv, Finding, Resync
  PROVE  Finding'
<1>1. /\ phase = "resync" /\ pos - loss <= MaxResyncScanBytes /\ ~NeedsMore /\ Aligned
      /\ phase' = "scan" /\ check' = ObserveResync(check, loss, pos)
      /\ input' = input /\ end' = end /\ pos' = pos /\ src' = src /\ lost' = lost /\ served' = served
  BY DEF Resync, Searching
<1>2. PICK k : AtHand(k)
  BY <1>1, StateAtHand
<1>3. /\ check \in CheckType /\ check.unrecovered = "none" /\ check.trailing = 0 /\ lost = FALSE
      /\ SearchedTo(loss, pos, src) /\ (end > 0 => src <= end)
  BY <1>1 DEF Finding
<1>4. PICK V : Searched(V, loss, served, check)
  BY <1>1 DEF Finding
<1>5. AlignedAt(pos)
  BY <1>1, <1>2, AlignedAtHand
<1>6. Length \in Nat /\ end \in Nat /\ pos \in Nat /\ loss \in Nat /\ MaxResyncScanBytes \in Nat
  BY <1>2, ReaderAssumption DEF AtHand, IInv
<1>7. pos \in Candidates(loss)
  <2>1. pos \in loss + 1 .. loss + MaxResyncScanBytes
    BY <1>1, <1>3, <1>6 DEF SearchedTo
  <2>2. QED BY <1>5, <2>1 DEF Candidates
<1>8. ASSUME NEW q \in Candidates(loss) PROVE pos <= q
  <2>1. q \in loss + 1 .. loss + MaxResyncScanBytes /\ AlignedAt(q)
    BY <1>8 DEF Candidates
  <2>2. q \notin loss + 1 .. pos - 1
    BY <1>3, <2>1 DEF SearchedTo
  <2>3. QED BY <1>6, <2>1, <2>2
<1>9. /\ Scanned(V \cup {loss}, pos, served, ObserveResync(check, loss, pos))
      /\ ObserveResync(check, loss, pos) \in CheckType
  BY <1>3, <1>4, <1>6, <1>7, <1>8, CountResync
<1>10. Scanned(V \cup {loss}, pos', served', check') /\ check' \in CheckType
  BY <1>1, <1>9
<1>11. check'.unrecovered = "none" /\ check'.trailing = 0 /\ lost' = FALSE /\ (end > 0 => src' <= end)
  BY <1>1, <1>3 DEF ObserveResync, CheckType
<1>12. QED BY <1>1, <1>10, <1>11, FindingScan

\* A byte is left behind.
LEMMA SkipFinds ==
  ASSUME IInv, Finding, SkipByte
  PROVE  Finding'
<1>1. /\ phase = "resync" /\ pos - loss <= MaxResyncScanBytes /\ ~NeedsMore /\ ~Aligned
      /\ pos' = pos + 1 /\ phase' = "resync"
      /\ input' = input /\ end' = end /\ src' = src /\ loss' = loss /\ lost' = lost /\ check' = check /\ served' = served
  BY DEF SkipByte, Searching
<1>2. PICK k : AtHand(k)
  BY <1>1, StateAtHand
<1>3. /\ check \in CheckType /\ check.unrecovered = "none" /\ check.trailing = 0 /\ lost = FALSE
      /\ SearchedTo(loss, pos, src) /\ (end > 0 => src <= end)
  BY <1>1 DEF Finding
<1>4. PICK V : Searched(V, loss, served, check)
  BY <1>1 DEF Finding
<1>5. ~AlignedAt(pos) /\ pos + Window <= src
  BY <1>1, <1>2, AlignedAtHand
<1>6. /\ src \in Nat /\ pos \in Nat /\ loss \in Nat /\ MaxResyncScanBytes \in Nat /\ Window \in Nat
  BY WindowPositive, ReaderAssumption DEF IInv
<1>7. SearchedTo(loss, pos + 1, src)
  <2>1. pos \in loss + 1 .. loss + MaxResyncScanBytes
    BY <1>1, <1>3, <1>6 DEF SearchedTo
  <2>2. pos + 1 \in loss + 1 .. loss + MaxResyncScanBytes + 1
    BY <1>6, <2>1
  <2>3. ASSUME NEW q \in loss + 1 .. (pos + 1) - 1 PROVE ~AlignedAt(q)
    <3>1. q = pos \/ q \in loss + 1 .. pos - 1
      BY <1>6, <2>1
    <3>2. QED BY <1>3, <1>5, <3>1 DEF SearchedTo
  <2>4. pos + 1 > loss + MaxResyncScanBytes => loss + MaxResyncScanBytes + Window <= src
    BY <1>5, <1>6, <2>1
  <2> DEFINE here == pos + 1
  <2>5. \A q \in loss + 1 .. here - 1 : ~AlignedAt(q)
    BY <2>3
  <2>6. here \in loss + 1 .. loss + MaxResyncScanBytes + 1
    BY <2>2
  <2>7. here > loss + MaxResyncScanBytes => loss + MaxResyncScanBytes + Window <= src
    BY <2>4
  <2> HIDE DEF here
  <2>8. SearchedTo(loss, here, src)
    BY <2>5, <2>6, <2>7 DEF SearchedTo
  <2>9. QED BY <2>8 DEF here
<1>8. Searched(V, loss', served', check') /\ SearchedTo(loss', pos', src')
  BY <1>1, <1>4, <1>7
<1>9. check' \in CheckType /\ check'.unrecovered = "none" /\ check'.trailing = 0 /\ lost' = FALSE /\ (end > 0 => src' <= end)
  BY <1>1, <1>3
<1>10. QED BY <1>1, <1>8, <1>9, FindingSearch

\* The search ends where the input or the range does.
LEMMA StopFinds ==
  ASSUME IInv, Finding, StopWithoutMore
  PROVE  Finding'
<1> DEFINE r == IF end > 0 /\ pos + Len(held) >= end THEN "range" ELSE "input"
<1>1. /\ phase = "resync" /\ pos - loss <= MaxResyncScanBytes /\ NeedsMore /\ More = 0
      /\ lost' = TRUE /\ pos' = loss /\ check' = [check EXCEPT !.unrecovered = r] /\ phase' = "done"
      /\ input' = input /\ end' = end /\ served' = served
  BY DEF StopWithoutMore, Stop, Searching
<1>2. PICK k : AtHand(k)
  BY <1>1, StateAtHand
<1>3. check \in CheckType /\ check.trailing = 0 /\ SearchedTo(loss, pos, src)
  BY <1>1 DEF Finding
<1>4. PICK V : Searched(V, loss, served, check)
  BY <1>1 DEF Finding
<1>5. src = Limit /\ pos + Window > Limit
  BY <1>1, <1>2, NoMoreAtHand
<1>6. /\ Length \in Nat /\ end \in Nat /\ pos \in Nat /\ loss \in Nat /\ MaxResyncScanBytes \in Nat
      /\ Window \in Nat /\ Limit \in Nat /\ src = pos + Len(held)
      /\ Limit = IF end = 0 \/ Length <= end THEN Length ELSE end
  BY <1>2, LimitIs, RunType, WindowPositive, ReaderAssumption DEF AtHand, IInv
<1>7. ASSUME NEW q \in Candidates(loss) PROVE FALSE
  <2>1. q \in loss + 1 .. loss + MaxResyncScanBytes /\ AlignedAt(q) /\ q + Window <= Limit
    BY <1>7 DEF Candidates, AlignedAt
  <2>2. q \notin loss + 1 .. pos - 1
    BY <1>3, <2>1 DEF SearchedTo
  <2>3. QED BY <1>5, <1>6, <2>1, <2>2
<1>8. r = IF loss + MaxResyncScanBytes + Window <= Limit THEN "limit"
          ELSE IF end > 0 /\ Length >= end THEN "range" ELSE "input"
  <2>1. ~(loss + MaxResyncScanBytes + Window <= Limit)
    BY <1>1, <1>5, <1>6
  <2>2. (end > 0 /\ pos + Len(held) >= end) <=> (end > 0 /\ Length >= end)
    <3>1. pos + Len(held) = Limit
      BY <1>5, <1>6
    <3>2. end > 0 => (Limit >= end <=> Length >= end)
      BY <1>6
    <3>3. QED BY <3>1, <3>2
  <2>3. QED BY <2>1, <2>2
<1> HIDE DEF r
<1>9. Candidates(loss) = {}
  BY <1>7
<1>10. Result(served, [check EXCEPT !.unrecovered = r], TRUE, loss)
  BY <1>3, <1>4, <1>6, <1>8, <1>9, EndsInSearch
<1>11. Result(served', check', lost', pos')
  BY <1>1, <1>10
<1>12. QED BY <1>1, <1>11, FindingDone

\* The search ends at its limit.
LEMMA LimitFinds ==
  ASSUME IInv, Finding, StopAtLimit
  PROVE  Finding'
<1>1. /\ phase = "resync" /\ ~(pos - loss <= MaxResyncScanBytes)
      /\ lost' = TRUE /\ pos' = loss /\ check' = [check EXCEPT !.unrecovered = "limit"] /\ phase' = "done"
      /\ input' = input /\ end' = end /\ served' = served
  BY DEF StopAtLimit, Stop, Searching
<1>2. PICK k : AtHand(k)
  BY <1>1, StateAtHand
<1>3. check \in CheckType /\ check.trailing = 0 /\ SearchedTo(loss, pos, src) /\ (end > 0 => src <= end)
  BY <1>1 DEF Finding
<1>4. PICK V : Searched(V, loss, served, check)
  BY <1>1 DEF Finding
<1>6. /\ Length \in Nat /\ end \in Nat /\ pos \in Nat /\ loss \in Nat /\ MaxResyncScanBytes \in Nat
      /\ Window \in Nat /\ Limit \in Nat /\ src \in Nat /\ src <= Length
      /\ Limit = IF end = 0 \/ Length <= end THEN Length ELSE end
  BY <1>2, LimitIs, RunType, WindowPositive, ReaderAssumption DEF AtHand, IInv
<1>7. ASSUME NEW q \in Candidates(loss) PROVE FALSE
  <2>1. q \in loss + 1 .. loss + MaxResyncScanBytes /\ AlignedAt(q)
    BY <1>7 DEF Candidates
  <2>2. q \notin loss + 1 .. pos - 1
    BY <1>3, <2>1 DEF SearchedTo
  <2>3. QED BY <1>1, <1>6, <2>1, <2>2
<1>8. loss + MaxResyncScanBytes + Window <= Limit
  <2>1. pos > loss + MaxResyncScanBytes
    BY <1>1, <1>6
  <2>2. loss + MaxResyncScanBytes + Window <= src
    BY <1>3, <2>1 DEF SearchedTo
  <2>3. src <= Limit
    BY <1>3, <1>6
  <2>4. QED BY <1>6, <2>2, <2>3
<1>9. Candidates(loss) = {}
  BY <1>7
<1>10. Result(served, [check EXCEPT !.unrecovered = "limit"], TRUE, loss)
  BY <1>3, <1>4, <1>6, <1>8, <1>9, EndsInSearch
<1>11. Result(served', check', lost', pos')
  BY <1>1, <1>10
<1>12. QED BY <1>1, <1>11, FindingDone

\* The input ends.
LEMMA InputEndFinds ==
  ASSUME IInv, Finding, EndOfInput
  PROVE  Finding'
<1> DEFINE t == Len(Taken(PacketSize))
<1>1. /\ phase = "scan" /\ InRange /\ t < PacketSize
      /\ check' = [check EXCEPT !.trailing = t] /\ phase' = "done"
      /\ input' = input /\ end' = end /\ pos' = pos /\ lost' = lost /\ served' = served
  BY DEF EndOfInput
<1>2. PICK k : AtHand(k)
  BY <1>1, StateAtHand
<1>3. check \in CheckType /\ check.unrecovered = "none" /\ lost = FALSE
  BY <1>1 DEF Finding
<1>4. PICK V : Scanned(V, pos, served, check)
  BY <1>1 DEF Finding
<1>5. Length \in Nat /\ end \in Nat
  BY <1>2 DEF AtHand
<1>6. ~Complete(pos) /\ t = IF Length > Limit THEN 0 ELSE Length - pos
  BY <1>1, <1>2, TrailingAtHand
<1> HIDE DEF t
<1>7. Result(served, [check EXCEPT !.trailing = t], FALSE, pos)
  BY <1>3, <1>4, <1>5, <1>6, EndsInScan
<1>8. Result(served', check', lost', pos')
  BY <1>1, <1>3, <1>7
<1>9. QED BY <1>1, <1>8, FindingDone

\* The range ends.
LEMMA RangeEndFinds ==
  ASSUME IInv, Finding, EndOfRange
  PROVE  Finding'
<1> DEFINE t == TrailingAtEOF(end - pos)
<1>1. /\ phase = "scan" /\ ~InRange
      /\ check' = [check EXCEPT !.trailing = t] /\ phase' = "done"
      /\ input' = input /\ end' = end /\ pos' = pos /\ lost' = lost /\ served' = served
  BY DEF EndOfRange
<1>2. PICK k : AtHand(k)
  BY <1>1, StateAtHand
<1>3. check \in CheckType /\ check.unrecovered = "none" /\ lost = FALSE
  BY <1>1 DEF Finding
<1>4. PICK V : Scanned(V, pos, served, check)
  BY <1>1 DEF Finding
<1>5. Length \in Nat /\ end \in Nat
  BY <1>2 DEF AtHand
<1>6. ~Complete(pos) /\ t = IF Length > Limit THEN 0 ELSE Length - pos
  BY <1>1, <1>2, RangeAtHand
<1> HIDE DEF t
<1>7. Result(served, [check EXCEPT !.trailing = t], FALSE, pos)
  BY <1>3, <1>4, <1>5, <1>6, EndsInScan
<1>8. Result(served', check', lost', pos')
  BY <1>1, <1>3, <1>7
<1>9. QED BY <1>1, <1>8, FindingDone

\* A step that changes nothing.
LEMMA StillFinds ==
  ASSUME Finding, UNCHANGED readerVars
  PROVE  Finding'
<1>1. /\ input' = input /\ end' = end /\ src' = src /\ pos' = pos /\ phase' = phase /\ loss' = loss /\ lost' = lost
      /\ check' = check /\ served' = served
  BY DEF readerVars
<1>2. (phase = "scan" => \E V : Scanned(V, pos, served, check))'
  BY <1>1, SameScanned DEF Finding
<1>3. (phase = "resync" => (\E V : Searched(V, loss, served, check)) /\ SearchedTo(loss, pos, src))'
  BY <1>1, SameSearched, SameSearch DEF Finding
<1>4. (phase = "done" => Result(served, check, lost, pos))'
  BY <1>1, SameResult DEF Finding
<1>5. (phase # "done" =>
         /\ check \in CheckType /\ check.unrecovered = "none" /\ check.trailing = 0
         /\ lost = FALSE /\ (end > 0 => src <= end))'
  <2>1. CheckType' = CheckType
    BY DEF CheckType
  <2>2. QED BY <1>1, <2>1 DEF Finding
<1>6. QED BY <1>2, <1>3, <1>4, <1>5 DEF Finding

\* Every step.
LEMMA StepFinding == IInv /\ Finding /\ [Next]_readerVars => (IInv /\ Finding)'
<1> SUFFICES ASSUME IInv, Finding, [Next]_readerVars PROVE (IInv /\ Finding)'
  OBVIOUS
<1>1. IInv'
  BY StepIInv
<1>2. Finding'
  BY ServeFinds, LoseFinds, ReadFinds, ResyncFinds, SkipFinds, StopFinds, LimitFinds, InputEndFinds,
    RangeEndFinds, StillFinds DEF Next
<1>3. QED BY <1>1, <1>2

\* packetReader's whole report, whatever the sizes, the input and the range: the
\* packets of the aligned boundaries are served, each once, every loss is counted and
\* what it skipped, and the scan ends where and for the reason it should.
THEOREM ScanIsAsDefined == ReaderSpec => []ScanAsDefined
<1>1. Finding => ScanAsDefined
  BY ResultIsDefined DEF Finding
<1> QED
  BY <1>1, InitFinding, StepFinding, PTL DEF ReaderSpec

-------------------------------------------------------------------------------
(* The header of a PES packet.  First, folds from the left.                   *)

\* The function a fold from the left is the value of.
IsLeftFold(g, base, step, N) ==
  \A s \in SUBSET (1 .. N) :
    g[s] = IF s = {} THEN base ELSE step[Max(s)][g[s \ {Max(s)}]]

\* The greatest of the first numbers, of which the last is taken or not.
LEMMA MaxOfFirst ==
  ASSUME NEW n \in Nat, NEW s \in SUBSET (1 .. n + 1)
  PROVE  /\ n + 1 \in s => Max(s) = n + 1 /\ s \ {n + 1} \in SUBSET (1 .. n)
         /\ n + 1 \notin s => s \in SUBSET (1 .. n)
<1>1. CASE n + 1 \in s
  <2>1. s \in SUBSET Nat /\ \A x \in s : x <= n + 1
    OBVIOUS
  <2>2. Max(s) = n + 1
    BY <1>1, <2>1, MaxIs
  <2>3. QED BY <1>1, <2>2
<1>2. CASE n + 1 \notin s
  <2>1. \A x \in s : x \in 1 .. n + 1 /\ x # n + 1
    BY <1>2
  <2>2. \A x \in s : x \in 1 .. n
    BY <2>1
  <2>3. QED BY <1>2, <2>2
<1>3. QED BY <1>1, <1>2

\* A subset of the first numbers has a greatest.
LEMMA MaxInFirst ==
  ASSUME NEW n \in Nat, NEW s \in SUBSET (1 .. n), s # {}
  PROVE  Max(s) \in s /\ s \ {Max(s)} \in SUBSET (1 .. n)
<1>1. s \in SUBSET Nat /\ \A x \in s : x <= n
  OBVIOUS
<1>2. PICK m \in s : \A x \in s : x <= m
  BY <1>1, GreatestNatural
<1>3. Max(s) = m
  BY <1>1, <1>2, MaxIs
<1>4. QED BY <1>2, <1>3

\* A fold from the left has a value for every set of places.
LEMMA LeftFoldExists ==
  ASSUME NEW N \in Nat, NEW X, NEW base \in X, NEW step \in [1 .. N -> [X -> X]]
  PROVE  \E g \in [SUBSET (1 .. N) -> X] : IsLeftFold(g, base, step, N)
<1> DEFINE Has(n) == \E g \in [SUBSET (1 .. n) -> X] : IsLeftFold(g, base, step, n)
           Q == {n \in Nat : n <= N => Has(n)}
<1>1. 0 \in Q
  <2> DEFINE h == [s \in SUBSET (1 .. 0) |-> base]
  <2>1. \A s \in SUBSET (1 .. 0) : s = {}
    OBVIOUS
  <2>2. h \in [SUBSET (1 .. 0) -> X] /\ \A s \in SUBSET (1 .. 0) : h[s] = base
    OBVIOUS
  <2> HIDE DEF h
  <2>3. IsLeftFold(h, base, step, 0)
    BY <2>1, <2>2 DEF IsLeftFold
  <2>4. QED BY <2>2, <2>3
<1>2. ASSUME NEW n \in Nat, n \in Q PROVE n + 1 \in Q
  <2>1. SUFFICES ASSUME n + 1 <= N PROVE Has(n + 1)
    <3> HIDE DEF Has
    <3> QED OBVIOUS
  <2>0. Has(n)
    <3> HIDE DEF Has
    <3> QED BY <1>2, <2>1
  <2>2. PICK h \in [SUBSET (1 .. n) -> X] : IsLeftFold(h, base, step, n)
    BY <2>0
  <2> DEFINE g == [s \in SUBSET (1 .. n + 1) |->
                     IF n + 1 \in s THEN step[n + 1][h[s \ {n + 1}]] ELSE h[s]]
  <2>3. ASSUME NEW s \in SUBSET (1 .. n + 1)
        PROVE  /\ n + 1 \in s => /\ Max(s) = n + 1 /\ s \ {n + 1} \in SUBSET (1 .. n)
                                 /\ step[n + 1][h[s \ {n + 1}]] \in X
               /\ n + 1 \notin s => s \in SUBSET (1 .. n) /\ h[s] \in X
    <3>1. step[n + 1] \in [X -> X]
      BY <2>1
    <3>2. QED BY <2>2, <3>1, MaxOfFirst
  <2>4. g \in [SUBSET (1 .. n + 1) -> X]
    BY <2>3
  <2>5. \A s \in SUBSET (1 .. n) : s \in SUBSET (1 .. n + 1) /\ g[s] = h[s]
    OBVIOUS
  <2>6. ASSUME NEW s \in SUBSET (1 .. n + 1)
        PROVE  g[s] = IF s = {} THEN base ELSE step[Max(s)][g[s \ {Max(s)}]]
    <3>1. CASE n + 1 \in s
      <4>1. g[s] = step[n + 1][h[s \ {n + 1}]]
        BY <3>1
      <4> HIDE DEF g
      <4>2. QED BY <2>3, <2>5, <3>1, <4>1
    <3>2. CASE n + 1 \notin s
      <4>1. s \in SUBSET (1 .. n)
        BY <2>3, <3>2
      <4> HIDE DEF g
      <4>2. h[s] = IF s = {} THEN base ELSE step[Max(s)][h[s \ {Max(s)}]]
        BY <2>2, <4>1 DEF IsLeftFold
      <4>3. CASE s = {}
        BY <2>5, <4>1, <4>2, <4>3
      <4>4. CASE s # {}
        <5>1. s \ {Max(s)} \in SUBSET (1 .. n)
          BY <4>1, <4>4, MaxInFirst
        <5>2. QED BY <2>5, <4>1, <4>2, <4>4, <5>1
      <4>5. QED BY <4>3, <4>4
    <3>3. QED BY <3>1, <3>2
  <2> HIDE DEF g
  <2>7. QED BY <2>4, <2>6 DEF IsLeftFold
<1>3. \A n \in Nat : n \in Q
  <2> HIDE DEF Q
  <2> QED BY <1>1, <1>2, SetInduction
<1>4. Has(N)
  <2> HIDE DEF Has
  <2> QED BY <1>3
<1>5. QED BY <1>4

\* The first numbers, without the last.
LEMMA FirstWithoutLast ==
  ASSUME NEW n \in Nat \ {0}
  PROVE  /\ 1 .. n # {} /\ Max(1 .. n) = n /\ (1 .. n) \ {n} = 1 .. n - 1
<1>1. 1 .. n \in SUBSET Nat /\ n \in 1 .. n /\ \A x \in 1 .. n : x <= n
  OBVIOUS
<1>2. Max(1 .. n) = n
  BY <1>1, MaxIs
<1>3. \A i \in 1 .. n : i # n => i \in 1 .. n - 1
  OBVIOUS
<1>4. \A i \in 1 .. n - 1 : i \in 1 .. n /\ i # n
  OBVIOUS
<1>5. QED BY <1>1, <1>2, <1>3, <1>4

-------------------------------------------------------------------------------
(* The payloads of a PES packet.                                             *)

\* The lengths of the first payloads, added up.
PayloadSums(h, payloads) ==
  /\ h \in [0 .. Len(payloads) -> Nat]
  /\ h[0] = 0 /\ \A n \in 1 .. Len(payloads) : h[n] = h[n - 1] + payloads[n]

\* There are such sums.
LEMMA SumsExist ==
  ASSUME NEW payloads \in Seq(Nat)
  PROVE  \E h : PayloadSums(h, payloads)
<1> DEFINE N == Len(payloads)
           step == [n \in 1 .. N |-> [k \in Nat |-> k + payloads[n]]]
<1>1. N \in Nat /\ \A n \in 1 .. N : payloads[n] \in Nat
  OBVIOUS
<1>2. 0 \in Nat /\ step \in [1 .. N -> [Nat -> Nat]]
  BY <1>1
<1>3. PICK h \in [0 .. N -> Nat] : IsRecursion(h, 0, step, N)
  <2> HIDE DEF step, N
  <2> QED BY <1>1, <1>2, RecursionExists
<1>4. ASSUME NEW n \in 1 .. N PROVE h[n] = h[n - 1] + payloads[n]
  <2>1. n \in 0 .. N /\ n - 1 \in 0 .. N /\ n # 0
    BY <1>1
  <2>2. h[n] = step[n][h[n - 1]] /\ h[n - 1] \in Nat
    <3> HIDE DEF step, N
    <3> QED BY <1>3, <2>1 DEF IsRecursion
  <2>3. QED BY <2>2
<1>5. 0 \in 0 .. N /\ h[0] = 0
  <2>1. 0 \in 0 .. N
    BY <1>1
  <2> HIDE DEF step, N
  <2>2. QED BY <1>3, <2>1 DEF IsRecursion
<1>6. QED BY <1>3, <1>4, <1>5 DEF PayloadSums

\* FoldLeft adds the lengths up.
LEMMA LengthsFolded ==
  ASSUME NEW payloads \in Seq(Nat), NEW h, PayloadSums(h, payloads)
  PROVE  FoldLeft(LAMBDA s, k : s + k, 0, payloads) = h[Len(payloads)]
<1> DEFINE N == Len(payloads)
           step == [n \in 1 .. N |-> [k \in Nat |-> k + payloads[n]]]
           body(g) == [s \in SUBSET (1 .. N) |->
                         IF s = {} THEN 0 ELSE g[s \ {Max(s)}] + payloads[Max(s)]]
           fold == CHOOSE g : g = body(g)
<1>1. N \in Nat /\ DOMAIN payloads = 1 .. N /\ \A n \in 1 .. N : payloads[n] \in Nat
  OBVIOUS
<1>2. step \in [1 .. N -> [Nat -> Nat]]
  BY <1>1
<1>3. PICK g \in [SUBSET (1 .. N) -> Nat] : IsLeftFold(g, 0, step, N)
  <2> HIDE DEF step, N
  <2> QED BY <1>1, <1>2, LeftFoldExists
<1>4. g = body(g)
  <2>1. ASSUME NEW s \in SUBSET (1 .. N)
        PROVE  g[s] = IF s = {} THEN 0 ELSE g[s \ {Max(s)}] + payloads[Max(s)]
    <3>1. CASE s = {}
      BY <1>3, <3>1 DEF IsLeftFold
    <3>2. CASE s # {}
      <4>1. Max(s) \in 1 .. N /\ s \ {Max(s)} \in SUBSET (1 .. N)
        BY <1>1, <3>2, MaxInFirst
      <4>2. g[s] = step[Max(s)][g[s \ {Max(s)}]] /\ g[s \ {Max(s)}] \in Nat
        <5> HIDE DEF step, N
        <5> QED BY <1>3, <3>2, <4>1 DEF IsLeftFold
      <4>3. QED BY <3>2, <4>1, <4>2
    <3>3. QED BY <3>1, <3>2
  <2> HIDE DEF N
  <2>2. QED BY <2>1
<1>5. fold = body(fold)
  <2> HIDE DEF body
  <2> QED BY <1>4
<1>6. FoldLeft(LAMBDA s, k : s + k, 0, payloads) = fold[1 .. N]
  BY <1>1 DEF FoldLeft, MapThenFoldSet
<1> HIDE DEF fold
<1>7. \A s \in SUBSET (1 .. N) :
        fold[s] = IF s = {} THEN 0 ELSE fold[s \ {Max(s)}] + payloads[Max(s)]
  <2> DEFINE b == body(fold)
  <2>1. \A s \in SUBSET (1 .. N) :
          b[s] = IF s = {} THEN 0 ELSE fold[s \ {Max(s)}] + payloads[Max(s)]
    OBVIOUS
  <2> HIDE DEF b
  <2>2. fold = b
    BY <1>5 DEF b
  <2>3. QED BY <2>1, <2>2
<1> DEFINE Q == {n \in Nat : n <= N => fold[1 .. n] = h[n]}
<1>8. 0 \in Q
  <2>1. 1 .. 0 = {} /\ 1 .. 0 \in SUBSET (1 .. N)
    OBVIOUS
  <2>2. fold[1 .. 0] = 0
    BY <1>7, <2>1
  <2>3. QED BY <2>2 DEF PayloadSums
<1>9. ASSUME NEW n \in Nat, n \in Q PROVE n + 1 \in Q
  <2>1. SUFFICES ASSUME n + 1 <= N PROVE fold[1 .. n + 1] = h[n + 1]
    OBVIOUS
  <2>2. n + 1 \in Nat \ {0} /\ n + 1 - 1 = n /\ 1 .. n + 1 \in SUBSET (1 .. N) /\ n + 1 \in 1 .. N
    BY <1>1, <2>1
  <2>3. 1 .. n + 1 # {} /\ Max(1 .. n + 1) = n + 1 /\ (1 .. n + 1) \ {n + 1} = 1 .. n
    BY <2>2, FirstWithoutLast, SMTT(40)
  <2>4. fold[1 .. n + 1] = fold[1 .. n] + payloads[n + 1]
    <3> HIDE DEF N
    <3> QED BY <1>7, <2>2, <2>3
  <2>5. h[n + 1] = h[n] + payloads[n + 1]
    BY <2>2 DEF PayloadSums
  <2>6. fold[1 .. n] = h[n]
    BY <1>9, <2>1
  <2>7. QED BY <2>4, <2>5, <2>6
<1>10. \A n \in Nat : n \in Q
  <2> HIDE DEF Q
  <2> QED BY <1>8, <1>9, SetInduction
<1>11. fold[1 .. N] = h[N]
  BY <1>1, <1>10
<1>12. QED BY <1>6, <1>11

\* A Pes that holds so many bytes.
Holding(total) ==
  [retained |-> Min({MaxPesHeaderSize, total}), received |-> total,
   fields |-> NoFields, problem |-> "none"]

\* What AppendPayload does to a Pes.
LEMMA AppendIs ==
  ASSUME NEW r \in Nat, NEW total \in Nat, NEW length \in Nat
  PROVE  AppendPayload([retained |-> r, received |-> total, fields |-> NoFields, problem |-> "none"],
                       length) =
           [retained |-> r + Min({MaxPesHeaderSize - r, length}), received |-> total + length,
            fields |-> NoFields, problem |-> "none"]
<1> DEFINE o == [retained |-> r, received |-> total, fields |-> NoFields, problem |-> "none"]
           m == Min({MaxPesHeaderSize - r, length})
           t == total + length
<1>1. o.retained = r /\ o.received = total
  OBVIOUS
<1>2. AppendPayload(o, length) = [o EXCEPT !.received = t, !.retained = r + m]
  BY <1>1 DEF AppendPayload
<1> HIDE DEF m, t
<1>3. [o EXCEPT !.received = t, !.retained = r + m] =
        [retained |-> r + m, received |-> t, fields |-> NoFields, problem |-> "none"]
  <2>1. [o EXCEPT !.received = t, !.retained = r + m] =
          [[o EXCEPT !.received = t] EXCEPT !.retained = r + m]
    <3> DEFINE k == r + m
    <3>1. o = [retained |-> r, received |-> total, fields |-> NoFields, problem |-> "none"]
      OBVIOUS
    <3> HIDE DEF k, o
    <3>2. [o EXCEPT !.received = t, !.retained = k] = [[o EXCEPT !.received = t] EXCEPT !.retained = k]
      BY <3>1, Zenon
    <3>3. QED BY <3>2 DEF k
  <2> DEFINE a == [retained |-> r, received |-> t, fields |-> NoFields, problem |-> "none"]
  <2>2. [o EXCEPT !.received = t] = a
    OBVIOUS
  <2>3. [a EXCEPT !.retained = r + m] =
          [retained |-> r + m, received |-> t, fields |-> NoFields, problem |-> "none"]
    OBVIOUS
  <2> HIDE DEF o, a
  <2>4. QED BY <2>1, <2>2, <2>3
<1>4. QED BY <1>2, <1>3 DEF m, t

\* One more payload.
LEMMA HoldsMore ==
  ASSUME NEW total \in Nat, NEW length \in Nat
  PROVE  AppendPayload(Holding(total), length) = Holding(total + length)
<1> DEFINE r == Min({MaxPesHeaderSize, total})
<1>1. MaxPesHeaderSize = 264
  BY DEF MaxPesHeaderSize
<1>2. r = IF 264 <= total THEN 264 ELSE total
  BY <1>1, MinPair
<1>3. Min({264 - r, length}) = IF 264 - r <= length THEN 264 - r ELSE length
  BY <1>2, MinPair
<1>4. Min({264, total + length}) = IF 264 <= total + length THEN 264 ELSE total + length
  BY MinPair
<1>5. r + Min({264 - r, length}) = Min({264, total + length})
  BY <1>2, <1>3, <1>4
<1> HIDE DEF r
<1>6. Holding(total) = [retained |-> r, received |-> total, fields |-> NoFields, problem |-> "none"]
  BY DEF Holding, r
<1>7. AppendPayload(Holding(total), length) =
        [retained |-> r + Min({264 - r, length}), received |-> total + length,
         fields |-> NoFields, problem |-> "none"]
  <2>1. r \in Nat
    BY <1>2
  <2>2. QED BY <1>1, <1>6, <2>1, AppendIs
<1>8. QED BY <1>1, <1>5, <1>7 DEF Holding

\* What is left in the Pes of all the payloads.
LEMMA PayloadsFolded ==
  ASSUME NEW payloads \in Seq(Nat), NEW h, PayloadSums(h, payloads)
  PROVE  FoldLeft(AppendPayload, NewPes, payloads) = Holding(h[Len(payloads)])
<1> DEFINE N == Len(payloads)
           step == [n \in 1 .. N |-> [k \in Nat |-> k + payloads[n]]]
           body(g) == [s \in SUBSET (1 .. N) |->
                         IF s = {} THEN NewPes ELSE AppendPayload(g[s \ {Max(s)}], payloads[Max(s)])]
           fold == CHOOSE g : g = body(g)
<1>1. N \in Nat /\ DOMAIN payloads = 1 .. N /\ \A n \in 1 .. N : payloads[n] \in Nat
  OBVIOUS
<1>2. step \in [1 .. N -> [Nat -> Nat]]
  BY <1>1
<1>3. PICK f \in [SUBSET (1 .. N) -> Nat] : IsLeftFold(f, 0, step, N)
  <2> HIDE DEF step, N
  <2> QED BY <1>1, <1>2, LeftFoldExists
<1>0. NewPes = Holding(0)
  BY MinPair DEF NewPes, Holding, MaxPesHeaderSize
<1> DEFINE g == [s \in SUBSET (1 .. N) |-> Holding(f[s])]
<1>4. g = body(g)
  <2>1. ASSUME NEW s \in SUBSET (1 .. N)
        PROVE  Holding(f[s]) = IF s = {} THEN NewPes
                               ELSE AppendPayload(g[s \ {Max(s)}], payloads[Max(s)])
    <3>1. CASE s = {}
      BY <1>0, <1>3, <3>1 DEF IsLeftFold
    <3>2. CASE s # {}
      <4>1. Max(s) \in 1 .. N /\ s \ {Max(s)} \in SUBSET (1 .. N)
        BY <1>1, <3>2, MaxInFirst
      <4>2. f[s] = step[Max(s)][f[s \ {Max(s)}]] /\ f[s \ {Max(s)}] \in Nat
        <5> HIDE DEF step, N
        <5> QED BY <1>3, <3>2, <4>1 DEF IsLeftFold
      <4>3. f[s] = f[s \ {Max(s)}] + payloads[Max(s)]
        BY <4>1, <4>2
      <4>4. g[s \ {Max(s)}] = Holding(f[s \ {Max(s)}])
        BY <4>1
      <4>5. payloads[Max(s)] \in Nat
        BY <1>1, <4>1
      <4> HIDE DEF g, N, step
      <4>6. QED BY <3>2, <4>2, <4>3, <4>4, <4>5, HoldsMore
    <3>3. QED BY <3>1, <3>2
  <2> DEFINE G == g
  <2>2. G = [s \in SUBSET (1 .. N) |-> IF s = {} THEN NewPes
                               ELSE AppendPayload(G[s \ {Max(s)}], payloads[Max(s)])]
    <3>1. \A s \in SUBSET (1 .. N) : 
            Holding(f[s]) = IF s = {} THEN NewPes
                            ELSE AppendPayload(G[s \ {Max(s)}], payloads[Max(s)])
      BY <2>1
    <3>2. G = [s \in SUBSET (1 .. N) |-> Holding(f[s])]
      OBVIOUS
    <3> HIDE DEF G, N
    <3>3. QED BY <3>1, <3>2
  <2>3. QED BY <2>2
<1>5. fold = body(fold)
  <2> HIDE DEF body, g
  <2> QED BY <1>4
<1>6. FoldLeft(AppendPayload, NewPes, payloads) = fold[1 .. N]
  BY <1>1 DEF FoldLeft, MapThenFoldSet
<1> HIDE DEF fold, g
<1>7. \A s \in SUBSET (1 .. N) :
        fold[s] = IF s = {} THEN NewPes ELSE AppendPayload(fold[s \ {Max(s)}], payloads[Max(s)])
  <2> DEFINE b == body(fold)
  <2>1. \A s \in SUBSET (1 .. N) :
          b[s] = IF s = {} THEN NewPes ELSE AppendPayload(fold[s \ {Max(s)}], payloads[Max(s)])
    OBVIOUS
  <2> HIDE DEF b
  <2>2. fold = b
    BY <1>5 DEF b
  <2>3. QED BY <2>1, <2>2
<1> DEFINE Q == {n \in Nat : n <= N => fold[1 .. n] = Holding(h[n])}
<1>8. 0 \in Q
  <2>1. 1 .. 0 = {} /\ 1 .. 0 \in SUBSET (1 .. N)
    OBVIOUS
  <2>2. fold[1 .. 0] = NewPes
    BY <1>7, <2>1
  <2>3. QED BY <1>0, <2>2 DEF PayloadSums
<1>9. ASSUME NEW n \in Nat, n \in Q PROVE n + 1 \in Q
  <2>1. SUFFICES ASSUME n + 1 <= N PROVE fold[1 .. n + 1] = Holding(h[n + 1])
    OBVIOUS
  <2>2. n + 1 \in Nat \ {0} /\ n + 1 - 1 = n /\ 1 .. n + 1 \in SUBSET (1 .. N) /\ n + 1 \in 1 .. N
    BY <1>1, <2>1
  <2>3. 1 .. n + 1 # {} /\ Max(1 .. n + 1) = n + 1 /\ (1 .. n + 1) \ {n + 1} = 1 .. n
    BY <2>2, FirstWithoutLast
  <2>4. fold[1 .. n + 1] = AppendPayload(fold[1 .. n], payloads[n + 1])
    <3> HIDE DEF N
    <3> QED BY <1>7, <2>2, <2>3
  <2>5. h[n + 1] = h[n] + payloads[n + 1] /\ h[n] \in Nat /\ payloads[n + 1] \in Nat
    <3>1. n \in 0 .. N
      BY <1>1, <2>1
    <3>2. h[n] \in Nat
      BY <3>1 DEF PayloadSums
    <3>3. h[n + 1] = h[n + 1 - 1] + payloads[n + 1]
      BY <2>2 DEF PayloadSums
    <3>4. QED BY <1>1, <2>2, <3>2, <3>3
  <2>6. fold[1 .. n] = Holding(h[n])
    BY <1>9, <2>1
  <2>7. QED BY <2>4, <2>5, <2>6, HoldsMore
<1>10. \A n \in Nat : n \in Q
  <2> HIDE DEF Q
  <2> QED BY <1>8, <1>9, SetInduction
<1>11. fold[1 .. N] = Holding(h[N])
  BY <1>1, <1>10
<1>12. QED BY <1>6, <1>11

-------------------------------------------------------------------------------
(* What Parse accepts.                                                       *)

\* The bytes of a PES packet.
IsBytes(h) == DOMAIN h \subseteq Nat /\ \A i \in DOMAIN h : h[i] \in 0 .. 255

LEMMA ByteTyped ==
  ASSUME NEW h, IsBytes(h), NEW i
  PROVE  Byte(h, i) \in 0 .. 255
  BY DEF IsBytes, Byte

LEMMA BitTyped ==
  ASSUME NEW h, IsBytes(h), NEW b \in Nat
  PROVE  Bit(h, b) \in {0, 1}
<1> DEFINE k == 7 - (b % 8)
           x == Byte(h, b \div 8)
<1>1. k \in 0 .. 7
  OBVIOUS
<1>2. 2 ^ k \in Nat \ {0}
  <2>1. /\ 2 ^ 0 = 1 /\ 2 ^ 1 = 2 /\ 2 ^ 2 = 4 /\ 2 ^ 3 = 8
        /\ 2 ^ 4 = 16 /\ 2 ^ 5 = 32 /\ 2 ^ 6 = 64 /\ 2 ^ 7 = 128
    OBVIOUS
  <2>2. \/ k = 0 \/ k = 1 \/ k = 2 \/ k = 3 \/ k = 4 \/ k = 5 \/ k = 6 \/ k = 7
    BY <1>1
  <2> HIDE DEF k
  <2>3. CASE k = 0
    BY <2>1, <2>3
  <2>4. CASE k = 1
    BY <2>1, <2>4
  <2>5. CASE k = 2
    BY <2>1, <2>5
  <2>6. CASE k = 3
    BY <2>1, <2>6
  <2>7. CASE k = 4
    BY <2>1, <2>7
  <2>8. CASE k = 5
    BY <2>1, <2>8
  <2>9. CASE k = 6
    BY <2>1, <2>9
  <2>10. CASE k = 7
    BY <2>1, <2>10
  <2>11. QED BY <2>2, <2>3, <2>4, <2>5, <2>6, <2>7, <2>8, <2>9, <2>10
<1>3. x \in Nat
  BY ByteTyped
<1>4. Bit(h, b) = (x \div 2 ^ k) % 2
  BY DEF Bit
<1> DEFINE y == 2 ^ k
<1> HIDE DEF y, x
<1>5. y \in Nat \ {0}
  BY <1>2 DEF y
<1>6. (x \div y) \in Int
  BY <1>3, <1>5
<1>7. (x \div y) % 2 \in {0, 1}
  BY <1>6
<1>8. QED BY <1>4, <1>7 DEF y

\* The fields of a header.
LEMMA FieldsTyped ==
  ASSUME NEW h, IsBytes(h)
  PROVE  /\ PtsDtsFlags(h) \in 0 .. 3
         /\ HeaderDataLength(h) \in 0 .. 255
         /\ StreamId(h) \in 0 .. 255
         /\ PacketLength(h) \in Nat
         /\ \A i \in 0 .. 7 : HeaderFlag(h, i) \in {0, 1}
         /\ Required(h) \in Nat
         /\ PtsDtsFlags(h) = 2 => Required(h) >= 5
         /\ PtsDtsFlags(h) = 3 => Required(h) >= 10
         /\ Required(h) >= HeaderFlag(h, 7)
<1>1. PtsDtsFlags(h) \in 0 .. 3
  BY ByteTyped DEF PtsDtsFlags
<1>2. HeaderDataLength(h) \in 0 .. 255 /\ StreamId(h) \in 0 .. 255 /\ PacketLength(h) \in Nat
  <2>1. Byte(h, 3) \in 0 .. 255 /\ Byte(h, 4) \in 0 .. 255 /\ Byte(h, 5) \in 0 .. 255 /\ Byte(h, 8) \in 0 .. 255
    BY ByteTyped
  <2> DEFINE a == Byte(h, 4)
             b == Byte(h, 5)
  <2>2. PacketLength(h) = 256 * a + b /\ HeaderDataLength(h) = Byte(h, 8) /\ StreamId(h) = Byte(h, 3)
    BY DEF HeaderDataLength, StreamId, PacketLength
  <2> HIDE DEF a, b
  <2>3. a \in 0 .. 255 /\ b \in 0 .. 255
    BY <2>1 DEF a, b
  <2>4. 256 * a + b \in Nat
    BY <2>3
  <2>5. QED BY <2>1, <2>2, <2>4
<1>3. ASSUME NEW i \in 0 .. 7 PROVE HeaderFlag(h, i) \in {0, 1}
  BY BitTyped DEF HeaderFlag
<1>4. /\ Required(h) \in Nat
      /\ PtsDtsFlags(h) = 2 => Required(h) >= 5
      /\ PtsDtsFlags(h) = 3 => Required(h) >= 10
      /\ Required(h) >= HeaderFlag(h, 7)
  BY <1>1, <1>3 DEF Required
<1>5. QED BY <1>1, <1>2, <1>3, <1>4

\* pesExtensionSize needs more than there is exactly when the extension ends
\* behind it, wherever the lengths lie that it did not follow.
LEMMA ExtensionFits ==
  ASSUME NEW h, IsBytes(h), NEW at \in Nat, NEW size \in Int
  PROVE  /\ ExtensionSize(h, at, size) <= size <=> ExtensionEnd(h, at) <= at + size
         /\ ExtensionEnd(h, at) >= at + 1
         /\ ExtensionSize(h, at, size) \in Int /\ ExtensionEnd(h, at) \in Int
<1> DEFINE flag(i) == Bit(h, 8 * at + i)
           pack  == 1 + 16 * flag(0)
           b == Byte(h, at + pack)
           after == pack + (IF flag(1) = 1 THEN 1 + b ELSE 0) + 2 * flag(2) + 2 * flag(3)
           c == Byte(h, at + after)
<1>1. /\ flag(0) \in {0, 1} /\ flag(1) \in {0, 1} /\ flag(2) \in {0, 1} /\ flag(3) \in {0, 1}
      /\ flag(7) \in {0, 1}
  BY BitTyped
<1>2. b \in 0 .. 255 /\ c \in 0 .. 255
  BY ByteTyped
<1>3. ExtensionSize(h, at, size) =
        IF flag(1) = 1 /\ pack >= size THEN pack + 1
        ELSE IF flag(7) = 0 THEN after
        ELSE IF after >= size THEN after + 1
        ELSE after + 1 + (c % 128)
  BY DEF ExtensionSize
<1>4. ExtensionEnd(h, at) = at + after + flag(7) * (1 + (c % 128))
  <2>1. at + 1 + 16 * flag(0) = at + pack
    BY <1>1
  <2>2. at + pack + flag(1) * (1 + b) + 2 * flag(2) + 2 * flag(3) = at + after
    BY <1>1, <1>2
  <2> HIDE DEF flag
  <2>3. ExtensionEnd(h, at) =
          LET e == at + 1 + 16 * flag(0)
              a == e + flag(1) * (1 + Byte(h, e)) + 2 * flag(2) + 2 * flag(3)
          IN a + flag(7) * (1 + (Byte(h, a) % 128))
    BY DEF ExtensionEnd, flag
  <2>4. QED BY <2>1, <2>2, <2>3
<1>5. pack \in Nat \ {0} /\ after \in Nat /\ after >= pack /\ (flag(1) = 1 => after >= pack + 1)
  BY <1>1, <1>2
<1>6. c % 128 \in 0 .. 127
  BY <1>2
<1> DEFINE d == c % 128
           f1 == flag(1)
           f7 == flag(7)
<1> HIDE DEF after, pack, c, d, f1, f7, flag
<1>7. /\ ExtensionSize(h, at, size) =
            IF f1 = 1 /\ pack >= size THEN pack + 1
            ELSE IF f7 = 0 THEN after
            ELSE IF after >= size THEN after + 1
            ELSE after + 1 + d
      /\ ExtensionEnd(h, at) = at + after + f7 * (1 + d)
      /\ f1 \in {0, 1} /\ f7 \in {0, 1} /\ d \in Nat
      /\ (f1 = 1 => after >= pack + 1)
  BY <1>1, <1>3, <1>4, <1>5, <1>6 DEF f1, f7, d
<1>8. f7 * (1 + d) = IF f7 = 1 THEN 1 + d ELSE 0
  <2>1. CASE f7 = 0
    BY <2>1, <1>7
  <2>2. CASE f7 = 1
    BY <2>2, <1>7
  <2>3. QED BY <1>7, <2>1, <2>2
<1>9. QED BY <1>5, <1>7, <1>8

\* Nine are a sequence.
LEMMA NineInSequence ==
  ASSUME NEW a, NEW b, NEW c, NEW d, NEW e, NEW f, NEW g, NEW h, NEW i
  PROVE  <<a, b, c, d, e, f, g, h, i>> \in Seq({a, b, c, d, e, f, g, h, i})
  OBVIOUS

\* What a concatenation holds.
LEMMA ConcatIs ==
  ASSUME NEW S, NEW s \in Seq(S), NEW t \in Seq(S)
  PROVE  /\ Len(s \o t) = Len(s) + Len(t) /\ DOMAIN (s \o t) = 1 .. Len(s) + Len(t)
         /\ \A i \in 1 .. Len(s) : (s \o t)[i] = s[i]
         /\ \A i \in 1 .. Len(t) : (s \o t)[i + Len(s)] = t[i]
<1> DEFINE m == Len(s)
           k == Len(t)
<1>0. m \in Nat /\ k \in Nat
  BY LenProperties
<1>1. /\ s \o t \in Seq(S)
      /\ Len(s \o t) = m + k
      /\ \A i \in 1 .. m + k : (s \o t)[i] = IF i <= m THEN s[i] ELSE t[i - m]
  BY ConcatProperties
<1>2. DOMAIN (s \o t) = 1 .. m + k
  BY <1>1, LenProperties
<1> HIDE DEF m, k
<1>3. ASSUME NEW i \in 1 .. k PROVE i + m \in 1 .. m + k /\ ~(i + m <= m) /\ (i + m) - m = i
  BY <1>0
<1>4. \A i \in 1 .. k : (s \o t)[i + m] = t[i]
  BY <1>1, <1>3, Zenon
<1>5. ASSUME NEW i \in 1 .. m PROVE i \in 1 .. m + k /\ i <= m
  BY <1>0
<1>6. \A i \in 1 .. m : (s \o t)[i] = s[i]
  BY <1>1, <1>5, Zenon
<1>7. QED BY <1>1, <1>2, <1>4, <1>6, Zenon DEF m, k

LEMMA SequencesGrow ==
  ASSUME NEW S, NEW T, S \subseteq T, NEW s \in Seq(S)
  PROVE  s \in Seq(T)
  OBVIOUS

\* One check, and the others.
LEMMA ChecksIn ==
  ASSUME NEW h, NEW n
  PROVE  /\ Len(FixedChecks(h, n)) = 3 /\ Len(OptionalChecks(h, n)) = 9
         /\ \A i \in 1 .. 3 : FixedChecks(h, n)[i].problem # "none"
         /\ \A i \in 1 .. 9 : OptionalChecks(h, n)[i].problem # "none"
         /\ \E S : FixedChecks(h, n) \in Seq(S) /\ OptionalChecks(h, n) \in Seq(S)
<1>1. Len(FixedChecks(h, n)) = 3 /\ \A i \in 1 .. 3 : FixedChecks(h, n)[i].problem # "none"
  BY DEF FixedChecks, Check
<1>2. Len(OptionalChecks(h, n)) = 9
  BY DEF OptionalChecks
<1>3. \A i \in 1 .. 9 : OptionalChecks(h, n)[i].problem # "none"
  BY DEF OptionalChecks, Check
<1>4. FixedChecks(h, n) \in Seq({FixedChecks(h, n)[i] : i \in 1 .. 3})
  BY <1>1 DEF FixedChecks
<1>5. \E S : OptionalChecks(h, n) \in Seq(S)
  <2> DEFINE length == HeaderDataLength(h)
             left   == length - Required(h) + 1
             c1 == Check("truncated", n < 9)
             c2 == Check("flags", Byte(h, 6) \div 64 # 2)
             c3 == Check("flags", PtsDtsFlags(h) = 1)
             c4 == Check("length", length < Required(h))
             c5 == Check("length", PacketLength(h) # 0 /\ PacketLength(h) < 3 + length)
             c6 == Check("truncated", n < 9 + length)
             c7 == Check("length", /\ HeaderFlag(h, 7) = 1
                                   /\ ExtensionSize(h, 9 + Required(h) - 1, left) > left)
             c8 == Check("markers", PtsDtsFlags(h) = 2 /\ ~ValidTimestamp(h, 9, 2))
             c9 == Check("markers", /\ PtsDtsFlags(h) = 3
                                    /\ ~ValidTimestamp(h, 9, 3) \/ ~ValidTimestamp(h, 14, 1))
  <2>1. OptionalChecks(h, n) = <<c1, c2, c3, c4, c5, c6, c7, c8, c9>>
    BY Zenon DEF OptionalChecks
  <2> HIDE DEF c1, c2, c3, c4, c5, c6, c7, c8, c9
  <2>2. <<c1, c2, c3, c4, c5, c6, c7, c8, c9>> \in Seq({c1, c2, c3, c4, c5, c6, c7, c8, c9})
    BY NineInSequence
  <2>3. OptionalChecks(h, n) \in Seq({c1, c2, c3, c4, c5, c6, c7, c8, c9})
    BY <2>1, <2>2, Zenon
  <2>4. QED BY <2>3, Zenon
<1>6. PICK S : OptionalChecks(h, n) \in Seq(S)
  BY <1>5
<1> DEFINE F == {FixedChecks(h, n)[i] : i \in 1 .. 3}
<1>7. FixedChecks(h, n) \in Seq(S \cup F) /\ OptionalChecks(h, n) \in Seq(S \cup F)
  <2> HIDE DEF F
  <2>1. S \subseteq S \cup F /\ F \subseteq S \cup F
    OBVIOUS
  <2>2. FixedChecks(h, n) \in Seq(F)
    BY <1>4 DEF F
  <2>3. QED BY <1>6, <2>1, <2>2, SequencesGrow
<1>8. QED BY <1>1, <1>2, <1>3, <1>7

\* Whether a header begins as it should, and whether its optional part does.
BeginsWell(h, n) == n >= 6 /\ HasPrefix(h) /\ StreamId(h) >= 188

Announced(h) == IF HeaderFlag(h, 7) = 1 THEN ExtensionEnd(h, 9 + Required(h) - 1)
                ELSE 9 + Required(h)

HoldsAll(h, n) ==
  /\ n >= 9 /\ n >= 9 + HeaderDataLength(h) /\ Announced(h) <= 9 + HeaderDataLength(h)
  /\ Byte(h, 6) \div 64 = 2 /\ PtsDtsFlags(h) # 1
  /\ PacketLength(h) = 0 \/ 9 + HeaderDataLength(h) <= 6 + PacketLength(h)
  /\ HasTimestamp(h) => ValidTimestamp(h, 9, PtsDtsFlags(h))
  /\ PtsDtsFlags(h) = 3 => ValidTimestamp(h, 14, 1)

LEMMA FixedPass ==
  ASSUME NEW h, IsBytes(h), NEW n \in Nat
  PROVE  (\A i \in 1 .. 3 : ~FixedChecks(h, n)[i].fails) <=> BeginsWell(h, n)
<1>0. StreamId(h) \in Int
  BY FieldsTyped
<1>1. /\ FixedChecks(h, n)[1].fails <=> n >= 3 /\ ~HasPrefix(h)
      /\ FixedChecks(h, n)[2].fails <=> n >= 4 /\ StreamId(h) < 188
      /\ FixedChecks(h, n)[3].fails <=> n < 6
  BY DEF FixedChecks, Check
<1>2. \A i \in 1 .. 3 : i = 1 \/ i = 2 \/ i = 3
  OBVIOUS
<1>3. (\A i \in 1 .. 3 : ~FixedChecks(h, n)[i].fails) <=>
        /\ ~FixedChecks(h, n)[1].fails /\ ~FixedChecks(h, n)[2].fails
        /\ ~FixedChecks(h, n)[3].fails
  BY <1>2
<1>4. QED BY <1>0, <1>1, <1>3 DEF BeginsWell

LEMMA OptionalPass ==
  ASSUME NEW h, IsBytes(h), NEW n \in Nat
  PROVE  (\A i \in 1 .. 9 : ~OptionalChecks(h, n)[i].fails) <=> HoldsAll(h, n)
<1> DEFINE length == HeaderDataLength(h)
           req == Required(h)
           left == length - req + 1
           at == 9 + req - 1
           size == ExtensionSize(h, at, left)
           f(i) == OptionalChecks(h, n)[i].fails
<1>1. /\ f(1) <=> n < 9
      /\ f(2) <=> Byte(h, 6) \div 64 # 2
      /\ f(3) <=> PtsDtsFlags(h) = 1
      /\ f(4) <=> length < req
      /\ f(5) <=> PacketLength(h) # 0 /\ PacketLength(h) < 3 + length
  BY DEF OptionalChecks, Check
<1>2. /\ f(6) <=> n < 9 + length
      /\ f(7) <=> HeaderFlag(h, 7) = 1 /\ size > left
      /\ f(8) <=> PtsDtsFlags(h) = 2 /\ ~ValidTimestamp(h, 9, 2)
      /\ f(9) <=> PtsDtsFlags(h) = 3 /\ (~ValidTimestamp(h, 9, 3) \/ ~ValidTimestamp(h, 14, 1))
  BY DEF OptionalChecks, Check
<1>3. \A i \in 1 .. 9 : i \in {1, 2, 3, 4, 5, 6, 7, 8, 9}
  OBVIOUS
<1>4. (\A i \in 1 .. 9 : ~f(i)) <=>
        ~f(1) /\ ~f(2) /\ ~f(3) /\ ~f(4) /\ ~f(5) /\ ~f(6) /\ ~f(7) /\ ~f(8) /\ ~f(9)
  <2> HIDE DEF f
  <2> QED BY <1>3
<1>5. /\ length \in 0 .. 255 /\ req \in Nat /\ PacketLength(h) \in Nat /\ left \in Int /\ at \in Nat
      /\ PtsDtsFlags(h) \in 0 .. 3
      /\ HeaderFlag(h, 7) \in {0, 1} /\ req >= HeaderFlag(h, 7)
  BY FieldsTyped
<1>6. at + left = 9 + length
  BY <1>5
<1>7. /\ size <= left <=> ExtensionEnd(h, at) <= 9 + length
      /\ ExtensionEnd(h, at) >= 9 + req
  <2>1. /\ size <= left <=> ExtensionEnd(h, at) <= at + left
        /\ ExtensionEnd(h, at) >= at + 1
    <3> HIDE DEF at, left
    <3> QED BY <1>5, ExtensionFits
  <2>2. at + 1 = 9 + req
    BY <1>5
  <2>3. QED BY <1>6, <2>1, <2>2
<1>8. size \in Int /\ ExtensionEnd(h, at) \in Int
  <2> HIDE DEF at, left
  <2> QED BY <1>5, ExtensionFits
<1>9. Announced(h) = IF HeaderFlag(h, 7) = 1 THEN ExtensionEnd(h, at) ELSE 9 + req
  BY DEF Announced
<1> HIDE DEF f, size, at, left, length, req
<1>10. (~f(4) /\ ~f(7)) <=> Announced(h) <= 9 + length
  BY <1>1, <1>2, <1>5, <1>7, <1>8, <1>9
<1>11. ~f(5) <=> PacketLength(h) = 0 \/ 9 + length <= 6 + PacketLength(h)
  BY <1>1, <1>5
<1>12. ~f(1) /\ ~f(6) <=> n >= 9 /\ n >= 9 + length
  BY <1>1, <1>2, <1>5
<1>13. ~f(8) /\ ~f(9) <=>
         /\ HasTimestamp(h) => ValidTimestamp(h, 9, PtsDtsFlags(h))
         /\ PtsDtsFlags(h) = 3 => ValidTimestamp(h, 14, 1)
  BY <1>2 DEF HasTimestamp
<1>14. ~f(2) /\ ~f(3) <=> Byte(h, 6) \div 64 = 2 /\ PtsDtsFlags(h) # 1
  BY <1>1
<1>15. (\A i \in 1 .. 9 : ~OptionalChecks(h, n)[i].fails) <=> \A i \in 1 .. 9 : ~f(i)
  BY DEF f
<1>16. QED BY <1>4, <1>10, <1>11, <1>12, <1>13, <1>14, <1>15 DEF HoldsAll, length

\* Parse finds no problem exactly when the header begins as it should and holds all
\* that it announces.
LEMMA ProblemIs ==
  ASSUME NEW h, IsBytes(h), NEW n \in Nat
  PROVE  Problem(h, n) = "none" <=>
           BeginsWell(h, n) /\ (StreamHasPesHeader(StreamId(h)) => HoldsAll(h, n))
<1> DEFINE optional == StreamHasPesHeader(StreamId(h))
           fixed  == FixedChecks(h, n)
           rest   == OptionalChecks(h, n)
           checks == fixed \o If(optional, rest)
           failed == {i \in DOMAIN checks : checks[i].fails}
           size   == IF optional THEN 12 ELSE 3
<1>1. Problem(h, n) = IF failed = {} THEN "none" ELSE checks[Min(failed)].problem
  BY DEF Problem
<1>2. /\ Len(fixed) = 3 /\ Len(rest) = 9
      /\ \A i \in 1 .. 3 : fixed[i].problem # "none"
      /\ \A i \in 1 .. 9 : rest[i].problem # "none"
  BY ChecksIn
<1>3. PICK S : fixed \in Seq(S) /\ rest \in Seq(S)
  BY ChecksIn
<1>4. /\ Len(checks) = size /\ DOMAIN checks = 1 .. size
      /\ \A i \in 1 .. 3 : checks[i] = fixed[i]
      /\ optional => \A i \in 1 .. 9 : checks[i + 3] = rest[i]
  <2> HIDE DEF fixed, rest, optional
  <2>1. CASE optional
    <3>1. checks = fixed \o rest
      BY <2>1 DEF If
    <3> HIDE DEF checks
    <3> HIDE DEF failed, size
    <3>2. /\ Len(checks) = 3 + 9 /\ DOMAIN checks = 1 .. 3 + 9
          /\ \A i \in 1 .. 3 : checks[i] = fixed[i]
          /\ \A i \in 1 .. 9 : checks[i + 3] = rest[i]
      <4>1. /\ Len(fixed \o rest) = 3 + 9 /\ DOMAIN (fixed \o rest) = 1 .. 3 + 9
            /\ \A i \in 1 .. 3 : (fixed \o rest)[i] = fixed[i]
            /\ \A i \in 1 .. 9 : (fixed \o rest)[i + 3] = rest[i]
        <5>1. fixed \in Seq(S) /\ rest \in Seq(S) /\ Len(fixed) = 3 /\ Len(rest) = 9
          BY <1>2, <1>3
        <5>2. /\ Len(fixed \o rest) = Len(fixed) + Len(rest)
              /\ DOMAIN (fixed \o rest) = 1 .. Len(fixed) + Len(rest)
              /\ \A i \in 1 .. Len(fixed) : (fixed \o rest)[i] = fixed[i]
              /\ \A i \in 1 .. Len(rest) : (fixed \o rest)[i + Len(fixed)] = rest[i]
          BY <1>3, ConcatIs
        <5>3. QED BY <5>1, <5>2, Zenon
      <4>2. QED BY <3>1, <4>1, Zenon
    <3>3. size = 12
      BY <2>1 DEF size
    <3>4. QED BY <3>2, <3>3
  <2>2. CASE ~optional
    <3>1. checks = fixed \o <<>>
      BY <2>2 DEF If
    <3>2. checks = fixed
      BY <1>3, <3>1, ConcatEmptySeq
    <3> HIDE DEF checks
    <3>3. QED BY <1>2, <1>3, <2>2, <3>2
  <2>3. QED BY <2>1, <2>2
<1>5. failed = {} <=> /\ \A i \in 1 .. 3 : ~fixed[i].fails
                      /\ optional => \A i \in 1 .. 9 : ~rest[i].fails
  <2> HIDE DEF fixed, rest, checks, optional
  <2>1. failed = {} <=> \A i \in 1 .. size : ~checks[i].fails
    BY <1>4
  <2>2. CASE optional
    <3>1. \A i \in 4 .. 12 : i - 3 \in 1 .. 9 /\ checks[i] = rest[i - 3]
      <4>1. ASSUME NEW i \in 4 .. 12 PROVE i - 3 \in 1 .. 9 /\ (i - 3) + 3 = i
        OBVIOUS
      <4>2. \A k \in 1 .. 9 : checks[k + 3] = rest[k]
        BY <1>4, <2>2
      <4>3. QED BY <4>1, <4>2
    <3>2. \A i \in 1 .. 9 : i + 3 \in 1 .. 12 /\ checks[i + 3] = rest[i]
      BY <1>4, <2>2
    <3>3. \A i \in 1 .. 12 : i \in 1 .. 3 \/ i \in 4 .. 12
      OBVIOUS
    <3>4. \A i \in 1 .. 3 : i \in 1 .. 12
      OBVIOUS
    <3>5. (\A i \in 1 .. 12 : ~checks[i].fails) <=>
            (\A i \in 1 .. 3 : ~fixed[i].fails) /\ (\A i \in 1 .. 9 : ~rest[i].fails)
      BY <1>4, <3>1, <3>2, <3>3, <3>4
    <3>6. QED BY <2>1, <2>2, <3>5
  <2>3. CASE ~optional
    BY <1>4, <2>1, <2>3
  <2>4. QED BY <2>2, <2>3
<1>6. ASSUME failed # {} PROVE checks[Min(failed)].problem # "none"
  <2> HIDE DEF checks, fixed, rest, optional
  <2>1. failed \in SUBSET Nat /\ \A i \in failed : i \in 1 .. size
    BY <1>4
  <2>2. Min(failed) \in failed
    <3> HIDE DEF failed
    <3>1. PICK m \in failed : \A k \in failed : m <= k
      BY <1>6, <2>1, LeastNatural
    <3>2. QED BY <3>1 DEF Min
  <2>3. Min(failed) \in 1 .. size
    BY <2>1, <2>2
  <2> DEFINE m == Min(failed)
  <2> HIDE DEF m
  <2>4. m \in 1 .. size
    BY <2>3 DEF m
  <2>5. CASE m \in 1 .. 3
    BY <1>2, <1>4, <2>5 DEF m
  <2>6. CASE m \notin 1 .. 3
    <3>1. optional /\ m - 3 \in 1 .. 9 /\ (m - 3) + 3 = m
      BY <2>4, <2>6
    <3>2. checks[m] = rest[m - 3]
      BY <1>4, <3>1
    <3>3. QED BY <1>2, <3>1, <3>2 DEF m
  <2>7. QED BY <2>5, <2>6
<1>7. Problem(h, n) = "none" <=> failed = {}
  <2> HIDE DEF failed, checks
  <2> QED BY <1>1, <1>6
<1>8. QED BY <1>5, <1>7, FixedPass, OptionalPass

-------------------------------------------------------------------------------
(* Timestamps.                                                               *)

\* Bits that follow each other.
LEMMA BitsTyped ==
  ASSUME NEW at \in Nat, NEW n \in Nat
  PROVE  /\ Bits(at, n) \in Seq(Nat) /\ Len(Bits(at, n)) = n
         /\ \A i \in 1 .. n : Bits(at, n)[i] = at + i - 1
  BY DEF Bits

LEMMA BitsJoin ==
  ASSUME NEW at \in Nat, NEW m \in Nat, NEW k \in Nat
  PROVE  Bits(at, m) \o Bits(at + m, k) = Bits(at, m + k)
<1>1. Len(Bits(at, m)) = m /\ Len(Bits(at + m, k)) = k
  BY BitsTyped, SMTT(40)
<1>2. Bits(at, m) \o Bits(at + m, k) =
        [i \in 1 .. m + k |-> IF i <= m THEN Bits(at, m)[i] ELSE Bits(at + m, k)[i - m]]
  BY <1>1
<1>3. \A i \in 1 .. m + k :
        (IF i <= m THEN Bits(at, m)[i] ELSE Bits(at + m, k)[i - m]) = at + i - 1
  BY DEF Bits
<1>4. QED BY <1>2, <1>3 DEF Bits

\* Sequences of numbers, flattened one by one.
LEMMA FlattenNumbers ==
  ASSUME NEW N \in Nat, NEW f \in [1 .. N -> Seq(Nat)]
  PROVE  /\ FlattenSeq([k \in 1 .. 0 |-> f[k]]) = <<>>
         /\ \A n \in 1 .. N :
              FlattenSeq([k \in 1 .. n |-> f[k]]) = FlattenSeq([k \in 1 .. n - 1 |-> f[k]]) \o f[n]
  BY FlattenStep

\* Three of them.
LEMMA FlattenThree ==
  ASSUME NEW f \in [1 .. 3 -> Seq(Nat)]
  PROVE  FlattenSeq([k \in 1 .. 3 |-> f[k]]) = (f[1] \o f[2]) \o f[3]
<1> DEFINE flat(n) == FlattenSeq([k \in 1 .. n |-> f[k]])
<1>1. flat(0) = <<>> /\ \A n \in 1 .. 3 : flat(n) = flat(n - 1) \o f[n]
  <2>1. 3 \in Nat
    OBVIOUS
  <2>2. QED BY <2>1, FlattenNumbers
<1>3. f[1] \in Seq(Nat) /\ f[2] \in Seq(Nat)
  OBVIOUS
<1> HIDE DEF flat
<1>2. /\ 1 \in 1 .. 3 /\ 2 \in 1 .. 3 /\ 3 \in 1 .. 3
      /\ flat(1 - 1) = flat(0) /\ flat(2 - 1) = flat(1) /\ flat(3 - 1) = flat(2)
  <2>1. 1 - 1 = 0 /\ 2 - 1 = 1 /\ 3 - 1 = 2
    OBVIOUS
  <2>2. 1 \in 1 .. 3 /\ 2 \in 1 .. 3 /\ 3 \in 1 .. 3
    OBVIOUS
  <2>3. flat(1 - 1) = flat(0) /\ flat(2 - 1) = flat(1) /\ flat(3 - 1) = flat(2)
    BY <2>1
  <2>4. QED BY <2>2, <2>3
<1>4. flat(1) = <<>> \o f[1]
  BY <1>1, <1>2, Zenon
<1>5. flat(1) = f[1]
  BY <1>3, <1>4, ConcatEmptySeq
<1>6. flat(2) = f[1] \o f[2]
  BY <1>1, <1>2, <1>5, Zenon
<1>7. flat(3) = (f[1] \o f[2]) \o f[3]
  BY <1>1, <1>2, <1>6, Zenon
<1>8. QED BY <1>7 DEF flat

\* The bits of a run.
BitsOf(run) == Bits(run.at, run.length)

IsRun(run) == run.at \in Nat /\ run.length \in Nat

\* Three runs, one after the other.
LEMMA ConcatThree ==
  ASSUME NEW runs, DOMAIN runs = 1 .. 3, IsRun(runs[1]), IsRun(runs[2]), IsRun(runs[3])
  PROVE  Concat(runs) = (BitsOf(runs[1]) \o BitsOf(runs[2])) \o BitsOf(runs[3])
<1> DEFINE a == runs[1]
           b == runs[2]
           c == runs[3]
           f == [i \in 1 .. 3 |-> BitsOf(runs[i])]
<1>2. BitsOf(a) \in Seq(Nat) /\ BitsOf(b) \in Seq(Nat) /\ BitsOf(c) \in Seq(Nat)
  <2>1. \A at, n \in Nat : Bits(at, n) \in Seq(Nat)
    BY BitsTyped
  <2>2. QED BY <2>1, Zenon DEF IsRun, BitsOf
<1>3. \A i \in 1 .. 3 : i = 1 \/ i = 2 \/ i = 3
  OBVIOUS
<1>4. f \in [1 .. 3 -> Seq(Nat)]
  <2>1. \A i \in 1 .. 3 : BitsOf(runs[i]) \in Seq(Nat)
    BY <1>2, <1>3, Zenon
  <2>2. QED BY <2>1, Zenon
<1>5. f[1] = BitsOf(a) /\ f[2] = BitsOf(b) /\ f[3] = BitsOf(c)
  <2>1. 1 \in 1 .. 3 /\ 2 \in 1 .. 3 /\ 3 \in 1 .. 3
    OBVIOUS
  <2>2. QED BY <2>1, Zenon
<1>6. Concat(runs) = FlattenSeq(f)
  BY Zenon DEF Concat, BitsOf
<1>7. f = [k \in 1 .. 3 |-> f[k]]
  BY Zenon
<1> HIDE DEF f
<1>8. FlattenSeq(f) = (f[1] \o f[2]) \o f[3]
  BY <1>4, <1>7, FlattenThree
<1>9. QED BY <1>5, <1>6, <1>8, Zenon

\* Concatenation is associative.
LEMMA BitsAssociate ==
  ASSUME NEW s \in Seq(Nat), NEW t \in Seq(Nat), NEW u \in Seq(Nat)
  PROVE  /\ (s \o t) \o u = s \o (t \o u)
         /\ s \o t \in Seq(Nat) /\ Len(s \o t) = Len(s) + Len(t)
<1>1. (s \o t) \o u = s \o (t \o u)
  BY ConcatAssociative
<1>2. s \o t \in Seq(Nat) /\ Len(s \o t) = Len(s) + Len(t)
  BY ConcatProperties
<1>3. QED BY <1>1, <1>2

\* pesTimestamp and timestampBits read the same bits.
LEMMA TimestampIs ==
  ASSUME NEW at \in Nat
  PROVE  /\ Concat(TimestampRuns(at)) = Timestamp(at)
         /\ Len(Timestamp(at)) = 33
<1> DEFINE A == Bits(8 * at + 4, 3)
           B == Bits(8 * (at + 1), 8)
           C == Bits(8 * (at + 2), 7)
           D == Bits(8 * (at + 3), 8)
           E == Bits(8 * (at + 4), 7)
           BC == Bits(8 * (at + 1), 15)
           DE == Bits(8 * (at + 3), 15)
<1>1. BC = B \o C /\ DE = D \o E
  <2>1. ASSUME NEW x \in Nat, NEW y, y = x + 8 PROVE Bits(x, 8) \o Bits(y, 7) = Bits(x, 15)
    <3> DEFINE m == 8
               k == 7
               total == 15
    <3>1. m \in Nat /\ k \in Nat /\ total = m + k /\ y = x + m
      BY <2>1
    <3> HIDE DEF m, k, total
    <3>2. Bits(x, m) \o Bits(x + m, k) = Bits(x, m + k)
      BY <2>1, <3>1, BitsJoin
    <3>3. Bits(x, m) \o Bits(y, k) = Bits(x, total)
      BY <3>1, <3>2, Zenon
    <3>4. QED BY <3>3, Zenon DEF m, k, total
  <2>2. /\ 8 * (at + 1) \in Nat /\ 8 * (at + 2) = 8 * (at + 1) + 8
        /\ 8 * (at + 3) \in Nat /\ 8 * (at + 4) = 8 * (at + 3) + 8
    OBVIOUS
  <2>3. BC = B \o C
    BY <2>1, <2>2, Zenon
  <2>4. DE = D \o E
    BY <2>1, <2>2, Zenon
  <2>5. QED BY <2>3, <2>4
<1>0. /\ 8 * at + 4 \in Nat /\ 8 * (at + 1) \in Nat /\ 8 * (at + 2) \in Nat /\ 8 * (at + 3) \in Nat
      /\ 8 * (at + 4) \in Nat /\ 3 \in Nat /\ 7 \in Nat /\ 8 \in Nat /\ 15 \in Nat
  OBVIOUS
<1>2. /\ A \in Seq(Nat) /\ B \in Seq(Nat) /\ C \in Seq(Nat) /\ D \in Seq(Nat)
      /\ E \in Seq(Nat) /\ BC \in Seq(Nat) /\ DE \in Seq(Nat)
  <2>1. \A x, n \in Nat : Bits(x, n) \in Seq(Nat)
    BY BitsTyped
  <2>2. QED BY <1>0, <2>1, Zenon
<1>9. Len(A) = 3 /\ Len(BC) = 15 /\ Len(DE) = 15
  <2>1. \A x, n \in Nat : Len(Bits(x, n)) = n
    BY BitsTyped
  <2>2. QED BY <1>0, <2>1, Zenon
<1>3. Concat(TimestampRuns(at)) = A \o BC \o DE
  <2> DEFINE a == BitsAt(at, 4, 3)
             b == BitsAt(at + 1, 0, 15)
             c == BitsAt(at + 3, 0, 15)
  <2>1. /\ a.at = 8 * at + 4 /\ a.length = 3 /\ b.at = 8 * (at + 1) /\ b.length = 15
        /\ c.at = 8 * (at + 3) /\ c.length = 15
    BY DEF BitsAt
  <2>2. TimestampRuns(at) = <<a, b, c>>
    BY Zenon DEF TimestampRuns
  <2> HIDE DEF a, b, c
  <2>3. IsRun(a) /\ IsRun(b) /\ IsRun(c)
    BY <1>0, <2>1, Zenon DEF IsRun
  <2>4. BitsOf(a) = A /\ BitsOf(b) = BC /\ BitsOf(c) = DE
    BY <2>1, Zenon DEF BitsOf
  <2>5. Concat(<<a, b, c>>) = (BitsOf(a) \o BitsOf(b)) \o BitsOf(c)
    <3> DEFINE runs == <<a, b, c>>
    <3>1. DOMAIN runs = 1 .. 3 /\ runs[1] = a /\ runs[2] = b /\ runs[3] = c
      OBVIOUS
    <3> HIDE DEF runs
    <3>2. Concat(runs) = (BitsOf(runs[1]) \o BitsOf(runs[2])) \o BitsOf(runs[3])
      BY <2>3, <3>1, ConcatThree, Zenon
    <3>3. QED BY <3>1, <3>2, Zenon DEF runs
  <2>6. QED BY <2>2, <2>4, <2>5, Zenon
<1>4. Timestamp(at) = A \o B \o C \o D \o E
  BY DEF Timestamp
<1> HIDE DEF A, B, C, D, E, BC, DE
<1>10. \A s, t, u \in Seq(Nat) :
         (s \o t) \o u = s \o (t \o u) /\ s \o t \in Seq(Nat) /\ Len(s \o t) = Len(s) + Len(t)
  BY BitsAssociate
<1>11. A \o BC \in Seq(Nat)
  BY <1>2, <1>10, Zenon
<1>12. \A s, t, u \in Seq(Nat) : (s \o t) \o u = s \o (t \o u)
  BY <1>10
<1>5. (A \o B) \o C = A \o BC
  <2>1. (A \o B) \o C = A \o (B \o C)
    <3>1. A \in Seq(Nat) /\ B \in Seq(Nat) /\ C \in Seq(Nat)
      BY <1>2, Zenon
    <3>2. QED BY <3>1, <1>12
  <2>2. QED BY <1>1, <2>1
<1>6. ((A \o BC) \o D) \o E = (A \o BC) \o DE
  <2>1. ((A \o BC) \o D) \o E = (A \o BC) \o (D \o E)
    <3> DEFINE x == A \o BC
    <3> HIDE DEF x
    <3>1. x \in Seq(Nat)
      BY <1>11 DEF x
    <3>2. D \in Seq(Nat) /\ E \in Seq(Nat)
      BY <1>2, Zenon
    <3>3. (x \o D) \o E = x \o (D \o E)
      BY <1>12, <3>1, <3>2
    <3>4. QED BY <3>3 DEF x
  <2>2. QED BY <1>1, <2>1
<1>7. Len((A \o BC) \o DE) = 33
  <2>1. Len(A \o BC) = Len(A) + Len(BC)
    BY <1>2, <1>10, Zenon
  <2>2. Len((A \o BC) \o DE) = Len(A \o BC) + Len(DE)
    BY <1>2, <1>10, <1>11, Zenon
  <2>3. QED BY <1>9, <2>1, <2>2
<1>8. QED BY <1>3, <1>4, <1>5, <1>6, <1>7

-------------------------------------------------------------------------------
(* The optional fields of a header.                                          *)

\* A field Optional makes.
LEMMA OptionalIs ==
  ASSUME NEW name, NEW when, NEW bits
  PROVE  /\ Optional(name, when, bits).name = name
         /\ Optional(name, when, bits).when = when
         /\ Optional(name, when, bits).bits = bits
  BY Zenon DEF Optional

\* The bits of those that are present, by name.
BitsByName(present) ==
  [n \in {f.name : f \in present} |-> (CHOOSE f \in present : f.name = n).bits]

LEMMA BitsByNameIs ==
  ASSUME NEW present, NEW f \in present, \A g \in present : g.name = f.name => g = f
  PROVE  f.name \in DOMAIN BitsByName(present) /\ BitsByName(present)[f.name] = f.bits
<1>1. f.name \in {g.name : g \in present}
  OBVIOUS
<1>2. (CHOOSE g \in present : g.name = f.name) = f
  OBVIOUS
<1>3. QED BY <1>1, <1>2, Zenon DEF BitsByName

\* The PTS and the DTS among the optional fields.
LEMMA OptionalTimestamps ==
  ASSUME NEW h, IsBytes(h)
  PROVE  /\ "PTS" \in DOMAIN OptionalFields(h) <=> HasTimestamp(h)
         /\ "DTS" \in DOMAIN OptionalFields(h) <=> PtsDtsFlags(h) = 3
         /\ HasTimestamp(h) => OptionalFields(h)["PTS"] = Timestamp(9)
         /\ PtsDtsFlags(h) = 3 => OptionalFields(h)["DTS"] = Timestamp(14)
<1> DEFINE flag(i) == HeaderFlag(h, i) = 1
           escr == 9 + (IF HasTimestamp(h) THEN 5 * (PtsDtsFlags(h) - 1) ELSE 0)
           rate == escr + 6 * HeaderFlag(h, 2)
           mode == rate + 3 * HeaderFlag(h, 3)
           copy == mode + HeaderFlag(h, 4)
           crc  == copy + HeaderFlag(h, 5)
           base == Bits(8 * escr + 2, 3) \o Bits(8 * escr + 6, 15) \o Bits(8 * escr + 22, 15)
           pts  == Optional("PTS", HasTimestamp(h), Timestamp(9))
           dts  == Optional("DTS", PtsDtsFlags(h) = 3, Timestamp(14))
           f3   == Optional("ESCR_base", flag(2), base)
           f4   == Optional("ESCR_extension", flag(2), Bits(8 * escr + 38, 9))
           f5   == Optional("ES_rate", flag(3), Bits(8 * rate + 1, 22))
           f6   == Optional("trick_mode_control", flag(4), Bits(8 * mode, 3))
           f7   == Optional("additional_copy_info", flag(5), Bits(8 * copy + 1, 7))
           f8   == Optional("previous_PES_packet_CRC", flag(6), Bits(8 * crc, 16))
           present == {f \in {pts, dts, f3, f4, f5, f6, f7, f8} : f.when}
<1>1. OptionalFields(h) = BitsByName(present)
  BY Zenon DEF OptionalFields, BitsByName
<1>2. /\ pts.name = "PTS" /\ pts.when = HasTimestamp(h) /\ pts.bits = Timestamp(9)
      /\ dts.name = "DTS" /\ dts.when = (PtsDtsFlags(h) = 3) /\ dts.bits = Timestamp(14)
      /\ f3.name = "ESCR_base" /\ f4.name = "ESCR_extension" /\ f5.name = "ES_rate"
      /\ f6.name = "trick_mode_control" /\ f7.name = "additional_copy_info"
      /\ f8.name = "previous_PES_packet_CRC"
  <2>1. pts.name = "PTS" /\ pts.when = HasTimestamp(h) /\ pts.bits = Timestamp(9)
    BY OptionalIs
  <2>2. dts.name = "DTS" /\ dts.when = (PtsDtsFlags(h) = 3) /\ dts.bits = Timestamp(14)
    BY OptionalIs
  <2>3. f3.name = "ESCR_base"
    BY OptionalIs
  <2>4. f4.name = "ESCR_extension"
    BY OptionalIs
  <2>5. f5.name = "ES_rate"
    BY OptionalIs
  <2>6. f6.name = "trick_mode_control"
    BY OptionalIs
  <2>7. f7.name = "additional_copy_info"
    BY OptionalIs
  <2>8. f8.name = "previous_PES_packet_CRC"
    BY OptionalIs
  <2>9. QED BY <2>1, <2>2, <2>3, <2>4, <2>5, <2>6, <2>7, <2>8, Zenon
<1> HIDE DEF pts, dts, f3, f4, f5, f6, f7, f8
<1>3. \A f \in present : f.name = "PTS" => f = pts
  BY <1>2
<1>4. \A f \in present : f.name = "DTS" => f = dts
  BY <1>2
<1>5. pts \in present <=> HasTimestamp(h)
  BY <1>2, Zenon
<1>6. dts \in present <=> PtsDtsFlags(h) = 3
  BY <1>2, Zenon
<1> HIDE DEF present
<1>7. \A n : n \in DOMAIN OptionalFields(h) => \E f \in present : f.name = n
  BY <1>1, Zenon DEF BitsByName
<1>8. HasTimestamp(h) => "PTS" \in DOMAIN OptionalFields(h) /\ OptionalFields(h)["PTS"] = Timestamp(9)
  <2>1. ASSUME HasTimestamp(h) PROVE pts \in present /\ \A g \in present : g.name = pts.name => g = pts
    BY <1>2, <1>3, <1>5, <2>1, Zenon
  <2>2. ASSUME HasTimestamp(h)
        PROVE  pts.name \in DOMAIN BitsByName(present) /\ BitsByName(present)[pts.name] = pts.bits
    BY <2>1, <2>2, BitsByNameIs
  <2>3. QED BY <1>1, <1>2, <2>2, Zenon
<1>9. PtsDtsFlags(h) = 3 => "DTS" \in DOMAIN OptionalFields(h) /\ OptionalFields(h)["DTS"] = Timestamp(14)
  <2>1. ASSUME PtsDtsFlags(h) = 3 PROVE dts \in present /\ \A g \in present : g.name = dts.name => g = dts
    BY <1>2, <1>4, <1>6, <2>1, Zenon
  <2>2. ASSUME PtsDtsFlags(h) = 3
        PROVE  dts.name \in DOMAIN BitsByName(present) /\ BitsByName(present)[dts.name] = dts.bits
    BY <2>1, <2>2, BitsByNameIs
  <2>3. QED BY <1>1, <1>2, <2>2, Zenon
<1>10. "PTS" \in DOMAIN OptionalFields(h) => HasTimestamp(h)
  BY <1>3, <1>5, <1>7, Zenon
<1>11. "DTS" \in DOMAIN OptionalFields(h) => PtsDtsFlags(h) = 3
  BY <1>4, <1>6, <1>7, Zenon
<1>12. QED BY <1>8, <1>9, <1>10, <1>11, Zenon

-------------------------------------------------------------------------------
(* The fields of a layer.                                                    *)

\* A field of five bytes that holds a timestamp.
LEMMA TimestampField ==
  ASSUME NEW name, NEW at \in Nat
  PROVE  /\ Field(name, TimestampRuns(at)).name = name
         /\ \A size \in Nat : Inside(Field(name, TimestampRuns(at)), size) <=> at + 5 <= size
         /\ Shown(Field(name, TimestampRuns(at))) = Timestamp(at)
<1> DEFINE runs == TimestampRuns(at)
           last == BitsAt(at + 3, 0, 15)
           offset == runs[1].at \div 8
           stop == (last.at + last.length + 7) \div 8
           f == Field(name, runs)
<1>1. Len(runs) = 3 /\ runs # <<>> /\ runs[1] = BitsAt(at, 4, 3) /\ runs[3] = last
  BY DEF TimestampRuns
<1>2. offset = at /\ stop = at + 5
  <2>1. runs[1].at = 8 * at + 4 /\ last.at = 8 * (at + 3) /\ last.length = 15
    BY <1>1 DEF BitsAt
  <2> HIDE DEF runs, last
  <2>2. (8 * at + 4) \div 8 = at
    OBVIOUS
  <2>3. (8 * (at + 3) + 15 + 7) \div 8 = at + 5
    OBVIOUS
  <2>4. QED BY <2>1, <2>2, <2>3
<1>3. Len(Concat(runs)) = 33
  BY TimestampIs
<1>4. /\ f.name = name /\ f.offset = offset /\ f.length = stop - offset
      /\ f.runs = IF Len(Concat(runs)) = 8 * (stop - offset) THEN <<>> ELSE runs
  <2>1. runs[Len(runs)] = last
    BY <1>1, Zenon
  <2> HIDE DEF runs
  <2>2. Field(name, runs) = [name |-> name, offset |-> offset, length |-> stop - offset,
                             runs |-> IF Len(Concat(runs)) = 8 * (stop - offset) THEN <<>> ELSE runs]
    BY <2>1, Zenon DEF Field
  <2> HIDE DEF offset, stop
  <2>3. QED BY <2>2
<1> HIDE DEF runs, offset, stop, f
<1>5. f.offset = at /\ f.length = 5 /\ f.runs = runs
  BY <1>2, <1>3, <1>4
<1>6. \A size \in Nat : Inside(f, size) <=> at + 5 <= size
  BY <1>5 DEF Inside
<1>7. Shown(f) = Timestamp(at)
  <2>1. Concat(runs) = Timestamp(at)
    BY TimestampIs DEF runs
  <2>2. QED BY <1>1, <1>5, <2>1, Zenon DEF Shown
<1>8. QED BY <1>4, <1>6, <1>7 DEF f, runs

\* A field of whole bytes.
LEMMA BytesField ==
  ASSUME NEW name, NEW i \in Nat, NEW n \in Nat
  PROVE  /\ Field(name, <<BitsAt(i, 0, 8 * n)>>).name = name
         /\ \A size \in Nat : Inside(Field(name, <<BitsAt(i, 0, 8 * n)>>), size) <=> i + n <= size
<1> DEFINE run == BitsAt(i, 0, 8 * n)
           runs == <<run>>
           offset == run.at \div 8
           stop == (run.at + run.length + 7) \div 8
           f == Field(name, runs)
<1>1. runs[1] = run /\ runs[Len(runs)] = run
  OBVIOUS
<1>2. offset = i /\ stop = i + n
  <2>1. run.at = 8 * i + 0 /\ run.length = 8 * n
    BY DEF BitsAt
  <2> HIDE DEF run
  <2>2. (8 * i + 0) \div 8 = i
    OBVIOUS
  <2>3. (8 * i + 0 + 8 * n + 7) \div 8 = i + n
    OBVIOUS
  <2>4. QED BY <2>1, <2>2, <2>3
<1>4. f.name = name /\ f.offset = offset /\ f.length = stop - offset
  <2> HIDE DEF run, runs
  <2>2. Field(name, runs) = [name |-> name, offset |-> offset, length |-> stop - offset,
                             runs |-> IF Len(Concat(runs)) = 8 * (stop - offset) THEN <<>> ELSE runs]
    BY <1>1, Zenon DEF Field
  <2> HIDE DEF offset, stop
  <2>3. QED BY <2>2
<1> HIDE DEF run, runs, offset, stop, f
<1>5. \A size \in Nat : Inside(f, size) <=> i + n <= size
  BY <1>2, <1>4 DEF Inside
<1>6. QED BY <1>4, <1>5 DEF f, runs, run

\* What is in a concatenation.
LEMMA ToSetConcat ==
  ASSUME NEW S, NEW s \in Seq(S), NEW t \in Seq(S)
  PROVE  s \o t \in Seq(S) /\ ToSet(s \o t) = ToSet(s) \cup ToSet(t)
<1>1. /\ s \o t \in Seq(S)
      /\ DOMAIN s = 1 .. Len(s) /\ DOMAIN t = 1 .. Len(t)
      /\ DOMAIN (s \o t) = 1 .. Len(s) + Len(t)
      /\ \A i \in 1 .. Len(s) : (s \o t)[i] = s[i]
      /\ \A i \in 1 .. Len(t) : (s \o t)[i + Len(s)] = t[i]
      /\ Len(s) \in Nat /\ Len(t) \in Nat
  <2>1. s \o t \in Seq(S) /\ Len(s) \in Nat /\ Len(t) \in Nat
    BY ConcatProperties
  <2>2. DOMAIN s = 1 .. Len(s) /\ DOMAIN t = 1 .. Len(t)
    OBVIOUS
  <2>3. QED BY <2>1, <2>2, ConcatIs
<1> DEFINE u == s \o t
           m == Len(s)
           k == Len(t)
<1> HIDE DEF u, m, k
<1>2. ASSUME NEW i \in 1 .. m + k PROVE u[i] \in ToSet(s) \cup ToSet(t)
  <2>1. m \in Nat /\ k \in Nat
    BY <1>1 DEF m, k
  <2>2. CASE i <= m
    <3>1. i \in 1 .. m /\ i \in DOMAIN s /\ u[i] = s[i]
      BY <1>1, <2>1, <2>2 DEF u, m
    <3>2. QED BY <3>1 DEF ToSet
  <2>3. CASE i > m
    <3>1. i - m \in 1 .. k /\ (i - m) + m = i
      BY <2>1, <2>3
    <3>2. i - m \in DOMAIN t /\ u[i] = t[i - m]
      BY <1>1, <3>1 DEF u, m, k
    <3>3. QED BY <3>2 DEF ToSet
  <2>4. QED BY <2>1, <2>2, <2>3
<1>3. ASSUME NEW x \in ToSet(s) PROVE x \in ToSet(u)
  <2>1. PICK i \in DOMAIN s : x = s[i]
    BY DEF ToSet
  <2>2. i \in DOMAIN u /\ u[i] = s[i]
    BY <1>1 DEF u
  <2>3. QED BY <2>1, <2>2 DEF ToSet
<1>4. ASSUME NEW x \in ToSet(t) PROVE x \in ToSet(u)
  <2>1. PICK i \in DOMAIN t : x = t[i]
    BY DEF ToSet
  <2>2. i + m \in DOMAIN u /\ u[i + m] = t[i]
    BY <1>1 DEF u, m
  <2>3. QED BY <2>1, <2>2 DEF ToSet
<1>5. \A x \in ToSet(u) : \E i \in 1 .. m + k : x = u[i]
  BY <1>1 DEF ToSet, u, m, k
<1>6. QED BY <1>1, <1>2, <1>3, <1>4, <1>5 DEF u

\* Sequences of three and of at most one.
Three(a, b, c) == <<a, b, c>>

LEMMA ToSetThree ==
  ASSUME NEW S, NEW a \in S, NEW b \in S, NEW c \in S
  PROVE  Three(a, b, c) \in Seq(S) /\ ToSet(Three(a, b, c)) = {a, b, c}
<1>1. <<a, b, c>> \in Seq(S)
  OBVIOUS
<1>2. ToSet(<<a, b, c>>) = {a, b, c}
  <2> DEFINE s == <<a, b, c>>
  <2>1. DOMAIN s = 1 .. 3 /\ s[1] = a /\ s[2] = b /\ s[3] = c
    OBVIOUS
  <2> HIDE DEF s
  <2>2. \A i \in 1 .. 3 : i = 1 \/ i = 2 \/ i = 3
    OBVIOUS
  <2>3. 1 \in 1 .. 3 /\ 2 \in 1 .. 3 /\ 3 \in 1 .. 3
    OBVIOUS
  <2>4. ToSet(s) = {a, b, c}
    BY <2>1, <2>2, <2>3 DEF ToSet
  <2>5. QED BY <2>4 DEF s
<1>3. QED BY <1>1, <1>2 DEF Three

LEMMA ToSetIf ==
  ASSUME NEW S, NEW a \in S, NEW condition
  PROVE  /\ If(condition, <<a>>) \in Seq(S)
         /\ ToSet(If(condition, <<a>>)) = {x \in {a} : condition}
<1>1. ToSet(<<a>>) = {a}
  <2> DEFINE s == <<a>>
  <2>1. DOMAIN s = {1} /\ s[1] = a
    OBVIOUS
  <2> HIDE DEF s
  <2>2. ToSet(s) = {a}
    BY <2>1 DEF ToSet
  <2>3. QED BY <2>2 DEF s
<1>2. ToSet(<<>>) = {}
  BY DEF ToSet
<1>3. <<a>> \in Seq(S) /\ <<>> \in Seq(S)
  OBVIOUS
<1>4. CASE condition
  BY <1>1, <1>3, <1>4 DEF If
<1>5. CASE ~condition
  BY <1>2, <1>3, <1>5 DEF If
<1>6. QED BY <1>4, <1>5

-------------------------------------------------------------------------------
\* The fields of decodePesHeader.
PtsField == Field("PTS", TimestampRuns(9))
DtsField == Field("DTS", TimestampRuns(14))
LengthField == Field("PES_packet_length", <<BitsAt(4, 0, 16)>>)
HeaderLengthField == Field("PES_header_data_length", <<BitsAt(8, 0, 8)>>)

\* One of the two timestamps.
IsTimestamp(f) == f.name \in {"PTS", "DTS"}

LEMMA DetailFieldsAre ==
  ASSUME NEW h, IsBytes(h), NEW n \in Nat
  PROVE  LET fields == ToSet(DetailFields(h, n))
             whole  == n >= 9 /\ StreamHasPesHeader(StreamId(h))
         IN /\ \A f \in fields : IsTimestamp(f) => whole /\ \/ f = PtsField /\ HasTimestamp(h)
                                                            \/ f = DtsField /\ PtsDtsFlags(h) = 3
            /\ whole /\ HasTimestamp(h) => PtsField \in fields
            /\ whole /\ PtsDtsFlags(h) = 3 => DtsField \in fields
            /\ LengthField \in fields
            /\ n >= 6 /\ StreamHasPesHeader(StreamId(h)) => HeaderLengthField \in fields
<1> DEFINE c1 == Field("packet_start_code_prefix", <<BitsAt(0, 0, 24)>>)
           c2 == Field("stream_id", <<BitsAt(3, 0, 8)>>)
           c3 == LengthField
           c4 == Field("PES_scrambling_control", <<BitsAt(6, 2, 2)>>)
           c5 == Field("PTS_DTS_flags", <<BitsAt(7, 0, 2)>>)
           c6 == HeaderLengthField
           fixed == Three(c1, c2, c3)
           flags == Three(c4, c5, c6)
           pts   == If(PtsDtsFlags(h) >= 2, <<PtsField>>)
           dts   == If(PtsDtsFlags(h) = 3, <<DtsField>>)
           has   == StreamHasPesHeader(StreamId(h))
           S     == {c1, c2, c3, c4, c5, c6, PtsField, DtsField}
<1>1. DetailFields(h, n) = IF n < 6 \/ ~has THEN fixed
                           ELSE IF n < 9 THEN fixed \o flags
                           ELSE fixed \o flags \o (pts \o dts)
  BY Zenon DEF Three, If, DetailFields, TimestampFields, PtsField, DtsField, LengthField, HeaderLengthField
<1>2. \A f \in {c1, c2, c3, c4, c5, c6} : ~IsTimestamp(f)
  <2>1. /\ c1.name = "packet_start_code_prefix" /\ c2.name = "stream_id"
        /\ c3.name = "PES_packet_length" /\ c4.name = "PES_scrambling_control"
        /\ c5.name = "PTS_DTS_flags" /\ c6.name = "PES_header_data_length"
    <3>1. \A name, runs : Field(name, runs).name = name
      BY Zenon DEF Field
    <3>2. QED BY <3>1, Zenon DEF LengthField, HeaderLengthField
  <2> HIDE DEF c1, c2, c3, c4, c5, c6
  <2>2. QED BY <2>1 DEF IsTimestamp
<1> HIDE DEF c1, c2, c4, c5
<1>4. /\ pts \in Seq(S) /\ ToSet(pts) = {f \in {PtsField} : PtsDtsFlags(h) >= 2}
      /\ dts \in Seq(S) /\ ToSet(dts) = {f \in {DtsField} : PtsDtsFlags(h) = 3}
  <2>1. PtsField \in S /\ DtsField \in S
    BY Zenon
  <2> HIDE DEF S
  <2>2. pts \in Seq(S) /\ ToSet(pts) = {f \in {PtsField} : PtsDtsFlags(h) >= 2}
    BY <2>1, ToSetIf
  <2>3. dts \in Seq(S) /\ ToSet(dts) = {f \in {DtsField} : PtsDtsFlags(h) = 3}
    BY <2>1, ToSetIf
  <2>4. QED BY <2>2, <2>3
<1>5. /\ ToSet(fixed) = {c1, c2, c3}
      /\ ToSet(fixed \o flags) = {c1, c2, c3, c4, c5, c6}
      /\ ToSet(fixed \o flags \o (pts \o dts)) =
           {c1, c2, c3, c4, c5, c6} \cup (ToSet(pts) \cup ToSet(dts))
  <2>1. c1 \in S /\ c2 \in S /\ c3 \in S /\ c4 \in S /\ c5 \in S /\ c6 \in S
    BY Zenon
  <2> HIDE DEF S, c3, c6, pts, dts
  <2>2. fixed \in Seq(S) /\ ToSet(fixed) = {c1, c2, c3}
    BY <2>1, ToSetThree
  <2>3. flags \in Seq(S) /\ ToSet(flags) = {c4, c5, c6}
    BY <2>1, ToSetThree
  <2> HIDE DEF fixed, flags
  <2>4. \A s, t \in Seq(S) : s \o t \in Seq(S) /\ ToSet(s \o t) = ToSet(s) \cup ToSet(t)
    BY ToSetConcat
  <2>5. fixed \o flags \in Seq(S) /\ ToSet(fixed \o flags) = ToSet(fixed) \cup ToSet(flags)
    BY <2>2, <2>3, <2>4, Zenon
  <2>6. pts \o dts \in Seq(S) /\ ToSet(pts \o dts) = ToSet(pts) \cup ToSet(dts)
    BY <1>4, <2>4, Zenon
  <2>7. ToSet(fixed \o flags \o (pts \o dts)) = ToSet(fixed \o flags) \cup ToSet(pts \o dts)
    BY <2>4, <2>5, <2>6, Zenon
  <2>8. ToSet(fixed \o flags) = {c1, c2, c3, c4, c5, c6}
    BY <2>2, <2>3, <2>5
  <2>9. QED BY <2>2, <2>6, <2>7, <2>8, Zenon
<1> HIDE DEF fixed, flags, pts, dts, S
<1>7. HasTimestamp(h) <=> PtsDtsFlags(h) >= 2
  BY FieldsTyped DEF HasTimestamp
<1> DEFINE fields == ToSet(DetailFields(h, n))
<1> HIDE DEF has, c3, c6
<1>8. CASE n < 6 \/ ~has
  <2>1. fields = {c1, c2, c3}
    BY <1>1, <1>5, <1>8
  <2> HIDE DEF fields
  <2>2. QED BY <1>2, <1>8, <2>1 DEF has, c3, fields
<1>9. CASE has /\ n >= 6 /\ n < 9
  <2>1. fields = {c1, c2, c3, c4, c5, c6}
    BY <1>1, <1>5, <1>9
  <2> HIDE DEF fields
  <2>2. QED BY <1>2, <1>9, <2>1 DEF has, c3, c6, fields
<1>10. CASE has /\ n >= 9
  <2>1. fields = {c1, c2, c3, c4, c5, c6} \cup (ToSet(pts) \cup ToSet(dts))
    BY <1>1, <1>5, <1>10
  <2> HIDE DEF fields
  <2>2. QED BY <1>2, <1>4, <1>7, <1>10, <2>1 DEF has, c3, c6, fields
<1>11. QED BY <1>8, <1>9, <1>10

\* The values a layer shows.
LEMMA LayerIs ==
  ASSUME NEW fields, NEW size, NEW f \in ToSet(fields),
         \A g \in ToSet(fields) : g.name = f.name => g = f
  PROVE  /\ f.name \in DOMAIN Layer(fields, size) <=> Inside(f, size)
         /\ Inside(f, size) => Layer(fields, size)[f.name] = Shown(f)
<1> DEFINE inside == {g \in ToSet(fields) : Inside(g, size)}
<1>1. DOMAIN Layer(fields, size) = {g.name : g \in inside}
  BY Zenon DEF Layer
<1>2. f.name \in {g.name : g \in inside} <=> Inside(f, size)
  BY Zenon
<1>3. ASSUME Inside(f, size) PROVE (CHOOSE g \in inside : g.name = f.name) = f
  BY <1>3, Zenon
<1>4. ASSUME Inside(f, size) PROVE Layer(fields, size)[f.name] = Shown(f)
  BY <1>2, <1>3, <1>4, Zenon DEF Layer
<1>5. QED BY <1>1, <1>2, <1>4, Zenon

-------------------------------------------------------------------------------
(* The whole header.                                                         *)

\* The Pes after Parse.
LEMMA CollectedIs ==
  ASSUME NEW object, NEW p, p.payloads \in Seq(Nat), NEW s, PayloadSums(s, p.payloads)
  PROVE  LET c == Collected(object, p)
             n == Min({MaxPesHeaderSize, s[Len(p.payloads)]})
             read == c.problem = "none" /\ StreamHasPesHeader(StreamId(p.bytes))
         IN /\ c.problem = Problem(p.bytes, n)
            /\ c.fields = IF read THEN Over(OptionalFields(p.bytes), NoFields) ELSE NoFields
<1> DEFINE h == p.bytes
           total == s[Len(p.payloads)]
           n == Min({MaxPesHeaderSize, total})
           problem == Problem(h, n)
           fields == IF problem = "none" /\ StreamHasPesHeader(StreamId(h))
                       THEN Over(OptionalFields(h), NoFields) ELSE NoFields
<1>1. FoldLeft(AppendPayload, InitializePes(object), p.payloads) = Holding(total)
  <2>1. InitializePes(object) = NewPes
    BY DEF InitializePes
  <2>2. FoldLeft(AppendPayload, NewPes, p.payloads) = Holding(total)
    BY PayloadsFolded
  <2>3. QED BY <2>1, <2>2, Zenon
<1>2. Collected(object, p) = ParsePes(Holding(total), h)
  BY <1>1, Zenon DEF Collected
<1>3. Holding(total).retained = n /\ Holding(total).fields = NoFields
  BY Zenon DEF Holding
<1>4. ParsePes(Holding(total), h) = [Holding(total) EXCEPT !.problem = problem, !.fields = fields]
  BY <1>3, Zenon DEF ParsePes
<1>5. /\ [Holding(total) EXCEPT !.problem = problem, !.fields = fields].problem = problem
      /\ [Holding(total) EXCEPT !.problem = problem, !.fields = fields].fields = fields
  <2> HIDE DEF problem, fields, n, total
  <2>1. DOMAIN Holding(total) = {"retained", "received", "fields", "problem"}
    BY DEF Holding
  <2>2. QED BY <2>1, Zenon
<1>6. Collected(object, p).problem = problem /\ Collected(object, p).fields = fields
  BY <1>2, <1>4, <1>5, Zenon
<1>7. QED BY <1>6, Zenon

\* Bounds of the fields of a header.
LEMMA FieldsBounded ==
  ASSUME NEW h, IsBytes(h)
  PROVE  /\ HeaderDataLength(h) \in Nat /\ Required(h) \in Nat /\ PtsDtsFlags(h) \in 0 .. 3
         /\ HeaderFlag(h, 7) \in {0, 1} /\ Required(h) >= HeaderFlag(h, 7)
         /\ PtsDtsFlags(h) = 2 => Required(h) >= 5
         /\ PtsDtsFlags(h) = 3 => Required(h) >= 10
<1>1. HeaderDataLength(h) \in 0 .. 255 /\ Required(h) \in Nat /\ PtsDtsFlags(h) \in 0 .. 3
      /\ Required(h) >= HeaderFlag(h, 7)
      /\ (PtsDtsFlags(h) = 2 => Required(h) >= 5)
      /\ (PtsDtsFlags(h) = 3 => Required(h) >= 10)
      /\ \A i \in 0 .. 7 : HeaderFlag(h, i) \in {0, 1}
  BY FieldsTyped
<1>2. 7 \in 0 .. 7
  OBVIOUS
<1>3. HeaderFlag(h, 7) \in {0, 1}
  BY <1>1, <1>2, Zenon
<1>4. \A x \in 0 .. 255 : x \in Nat
  OBVIOUS
<1>5. HeaderDataLength(h) \in Nat
  BY <1>1, <1>4, Zenon
<1>6. QED BY <1>1, <1>3, <1>5, Zenon

\* Where the two fields of a header lie that tell how far it goes.
LEMMA LengthsInside ==
  ASSUME NEW size \in Nat
  PROVE  /\ Inside(LengthField, size) => size >= 6
         /\ Inside(HeaderLengthField, size) => size >= 9
<1>1. \A name : \A i, n \in Nat :
        Inside(Field(name, <<BitsAt(i, 0, 8 * n)>>), size) => i + n <= size
  BY BytesField
<1>2. 4 \in Nat /\ 2 \in Nat /\ 8 \in Nat /\ 1 \in Nat /\ 8 * 2 = 16 /\ 8 * 1 = 8
  OBVIOUS
<1>3. Inside(Field("PES_packet_length", <<BitsAt(4, 0, 8 * 2)>>), size) => 4 + 2 <= size
  BY <1>1, <1>2, Zenon
<1>4. Inside(Field("PES_header_data_length", <<BitsAt(8, 0, 8 * 1)>>), size) => 8 + 1 <= size
  BY <1>1, <1>2, Zenon
<1>5. Inside(LengthField, size) => 4 + 2 <= size
  BY <1>2, <1>3, Zenon DEF LengthField
<1>6. Inside(HeaderLengthField, size) => 8 + 1 <= size
  BY <1>2, <1>4, Zenon DEF HeaderLengthField
<1>7. QED BY <1>5, <1>6

\* The sums of describePesUnit are those of the payloads.
LEMMA GatheredIs ==
  ASSUME NEW h, IsBytes(h), NEW payloads \in Seq(Nat), payloads # <<>>,
         NEW s, PayloadSums(s, payloads)
  PROVE  LET bytes == Gathered(h, payloads).bytes
         IN /\ bytes \in Nat
            /\ /\ StreamHasPesHeader(StreamId(h))
               /\ s[Len(payloads)] >= 9 + HeaderDataLength(h)
               => bytes >= 9 + HeaderDataLength(h)
            /\ Gathered(h, payloads).count \in 1 .. Len(payloads)
<1> DEFINE N == Len(payloads)
           sum[k \in 0 .. N] == IF k = 0 THEN 0 ELSE sum[k - 1] + payloads[k]
           enough(g) == {k \in DOMAIN payloads : g[k] >= Need(h, g[k])}
           count(g) == IF enough(g) = {} THEN N ELSE Min(enough(g))
<1>1. Gathered(h, payloads).bytes = sum[count(sum)]
  BY Zenon DEF Gathered
<1>2. N \in Nat \ {0} /\ DOMAIN payloads = 1 .. N
  OBVIOUS
<1>3. sum = s
  <2>1. s = [k \in 0 .. N |-> IF k = 0 THEN 0 ELSE s[k - 1] + payloads[k]]
    BY <1>2 DEF PayloadSums
  <2>2. sum = [k \in 0 .. N |-> IF k = 0 THEN 0 ELSE sum[k - 1] + payloads[k]]
    BY <2>1, Zenon
  <2> DEFINE Equal == {k \in Nat : k <= N => sum[k] = s[k]}
  <2> HIDE DEF sum
  <2>3. sum[0] = 0 /\ s[0] = 0
    BY <2>1, <2>2, <1>2
  <2>4. ASSUME NEW k \in Nat, k \in Equal PROVE k + 1 \in Equal
    <3>1. CASE k + 1 <= N
      <4>1. k + 1 \in 0 .. N /\ k + 1 # 0 /\ (k + 1) - 1 = k /\ k <= N
        BY <1>2, <3>1
      <4>2. sum[k + 1] = sum[k] + payloads[k + 1]
        BY <2>2, <4>1
      <4>3. s[k + 1] = s[k] + payloads[k + 1]
        BY <2>1, <4>1
      <4>4. QED BY <2>4, <4>1, <4>2, <4>3
    <3>2. QED BY <1>2, <3>1
  <2>5. \A k \in Nat : k \in Equal
    <3>1. 0 \in Equal
      BY <2>3
    <3> HIDE DEF Equal
    <3>2. QED BY <2>4, <3>1, SetInduction
  <2>6. \A k \in 0 .. N : sum[k] = s[k]
    BY <1>2, <2>5
  <2>7. sum = [k \in 0 .. N |-> sum[k]]
    BY <2>2, Zenon
  <2>8. s = [k \in 0 .. N |-> s[k]]
    BY <2>1, Zenon
  <2>9. QED BY <2>6, <2>7, <2>8, Zenon
<1> HIDE DEF sum
<1>4. count(s) \in 1 .. N /\ (enough(s) # {} => count(s) \in enough(s))
  <2>1. ASSUME enough(s) # {} PROVE Min(enough(s)) \in enough(s)
    <3> DEFINE e == enough(s)
    <3>1. e \in SUBSET Nat /\ e # {}
      BY <1>2, <2>1
    <3> HIDE DEF e
    <3>2. PICK m \in e : \A k \in e : m <= k
      BY <3>1, LeastNatural
    <3>3. Min(e) \in e
      BY <3>2 DEF Min
    <3>4. QED BY <3>3 DEF e
  <2>2. \A k \in enough(s) : k \in 1 .. N
    BY <1>2
  <2> HIDE DEF enough
  <2>3. QED BY <1>2, <2>1, <2>2
<1> DEFINE c == count(s)
           bytes == s[c]
           header == 9 + HeaderDataLength(h)
<1>5. Gathered(h, payloads).bytes = bytes
  BY <1>1, <1>3, Zenon
<1>6. Gathered(h, payloads).count \in 1 .. Len(payloads)
  <2>1. Gathered(h, payloads).count = count(sum)
    BY Zenon DEF Gathered, sum
  <2>2. QED BY <1>3, <1>4, <2>1, Zenon
<1>7. enough(s) = {} => c = N
  OBVIOUS
<1>8. c \in enough(s) => bytes >= Need(h, bytes)
  OBVIOUS
<1> HIDE DEF enough, count, c
<1>9. c \in 1 .. N
  BY <1>4 DEF c
<1>10. bytes \in Nat
  BY <1>2, <1>9 DEF PayloadSums
<1>11. ASSUME StreamHasPesHeader(StreamId(h)), s[N] >= header
       PROVE  bytes >= header
  <2>1. CASE enough(s) = {}
    BY <1>7, <1>11, <2>1
  <2>2. CASE enough(s) # {}
    <3>1. bytes >= Need(h, bytes)
      BY <1>4, <1>8, <2>2 DEF c
    <3> HIDE DEF bytes
    <3>2. HeaderDataLength(h) \in Nat
      BY FieldsBounded
    <3>3. QED BY <1>10, <1>11, <3>1, <3>2 DEF Need
  <2>3. QED BY <2>1, <2>2
<1>12. QED BY <1>5, <1>10, <1>11, <1>6

-------------------------------------------------------------------------------
\* What AcceptedAsDefined says of n bytes of a header.
LEMMA AcceptedIs ==
  ASSUME NEW p, p.payloads \in Seq(Nat), IsBytes(p.bytes), NEW object, packet = p,
         pes = Collected(object, p)
  PROVE  AcceptedAsDefined
<1> DEFINE h == p.bytes
           total == FoldLeft(LAMBDA s, k : s + k, 0, p.payloads)
           n == Min({MaxPesHeaderSize, total})
<1>1. PICK s : PayloadSums(s, p.payloads)
  BY SumsExist
<1>2. total = s[Len(p.payloads)]
  BY <1>1, LengthsFolded
<1>3. s[Len(p.payloads)] \in Nat
  BY <1>1 DEF PayloadSums
<1>4. n \in Nat
  <2> HIDE DEF total
  <2>1. total \in Nat
    BY <1>2, <1>3
  <2>2. QED BY <2>1, MinPair DEF MaxPesHeaderSize
<1>5. pes.problem = Problem(h, n)
  <2>1. Collected(object, p).problem = Problem(p.bytes, Min({MaxPesHeaderSize, s[Len(p.payloads)]}))
    BY <1>1, CollectedIs
  <2>2. QED BY <1>2, <2>1, Zenon
<1> HIDE DEF n, total
<1>6. Problem(h, n) = "none" <=>
        BeginsWell(h, n) /\ (StreamHasPesHeader(StreamId(h)) => HoldsAll(h, n))
  BY <1>4, ProblemIs
<1>7. QED BY <1>5, <1>6, Zenon DEF AcceptedAsDefined, BeginsWell, HoldsAll, Announced, n, total

\* The timestamps of a PES packet that is collected are those its unit has.
LEMMA CollectedTimestamps ==
  ASSUME NEW p, p.payloads \in Seq(Nat), p.payloads # <<>>, IsBytes(p.bytes), NEW object,
         NEW c, c = Collected(object, p), c.problem = "none"
  PROVE  LET h     == p.bytes
             has   == StreamHasPesHeader(StreamId(h))
             stamps == UnitTimestamps(h, Gathered(h, p.payloads).bytes)
             known == {"PTS", "DTS"} \cap DOMAIN c.fields
             pts   == has /\ HasTimestamp(h)
             dts   == has /\ PtsDtsFlags(h) = 3
         IN /\ known \subseteq {"PTS", "DTS"} /\ ("PTS" \in known <=> pts) /\ ("DTS" \in known <=> dts)
            /\ pts => c.fields["PTS"] = Timestamp(9) /\ stamps["PTS"] = Timestamp(9)
            /\ dts => c.fields["DTS"] = Timestamp(14) /\ stamps["DTS"] = Timestamp(14)
            /\ DOMAIN stamps = known
<1> DEFINE h     == p.bytes
           has   == StreamHasPesHeader(StreamId(h))
           bytes == Gathered(h, p.payloads).bytes
           stamps == UnitTimestamps(h, bytes)
           known == {"PTS", "DTS"} \cap DOMAIN c.fields
<1>1. PICK s : PayloadSums(s, p.payloads)
  BY SumsExist
<1> DEFINE total == s[Len(p.payloads)]
           n == Min({MaxPesHeaderSize, total})
<1>2. total \in Nat
  BY <1>1 DEF PayloadSums
<1>3. n \in Nat /\ n <= total
  BY <1>2, MinPair DEF MaxPesHeaderSize
<1>4. /\ Problem(h, n) = "none"
      /\ c.fields = IF has THEN Over(OptionalFields(h), NoFields) ELSE NoFields
  BY <1>1, CollectedIs
<1>5. has => n >= 9 + HeaderDataLength(h) /\ Required(h) <= HeaderDataLength(h)
  <2>1. has => HoldsAll(h, n)
    BY <1>3, <1>4, ProblemIs
  <2>2. /\ HeaderFlag(h, 7) \in {0, 1} /\ Required(h) \in Nat /\ HeaderDataLength(h) \in Nat
        /\ Required(h) >= HeaderFlag(h, 7)
    BY FieldsBounded, Zenon
  <2>3. HeaderFlag(h, 7) = 1 => ExtensionEnd(h, 9 + Required(h) - 1) >= 9 + Required(h) - 1 + 1
    <3>1. 9 + Required(h) - 1 \in Nat
      BY <2>2
    <3>2. QED BY <3>1, ExtensionFits
  <2>4. has => Announced(h) <= 9 + HeaderDataLength(h) /\ n >= 9 + HeaderDataLength(h)
    BY <2>1 DEF HoldsAll
  <2>5. HeaderFlag(h, 7) = 1 => Announced(h) = ExtensionEnd(h, 9 + Required(h) - 1)
    BY DEF Announced
  <2>6. HeaderFlag(h, 7) # 1 => Announced(h) = 9 + Required(h)
    BY DEF Announced
  <2>7. HeaderFlag(h, 7) = 1 => ExtensionEnd(h, 9 + Required(h) - 1) \in Int
    <3>1. 9 + Required(h) - 1 \in Nat
      BY <2>2
    <3>2. QED BY <3>1, ExtensionFits
  <2> HIDE DEF n, has
  <2>8. QED BY <1>3, <2>2, <2>3, <2>4, <2>5, <2>6, <2>7
<1> DEFINE pts == has /\ HasTimestamp(h)
           dts == has /\ PtsDtsFlags(h) = 3
<1>6. dts => pts
  BY DEF HasTimestamp
<1>7. HasTimestamp(h) <=> PtsDtsFlags(h) >= 2
  BY FieldsTyped DEF HasTimestamp
<1>8. bytes \in Nat /\ (has => bytes >= 9) /\ (pts => bytes >= 14) /\ (dts => bytes >= 19)
  <2>1. bytes \in Nat /\ (has /\ total >= 9 + HeaderDataLength(h) => bytes >= 9 + HeaderDataLength(h))
    BY <1>1, GatheredIs
  <2>2. /\ HeaderDataLength(h) \in Nat /\ Required(h) \in Nat /\ PtsDtsFlags(h) \in 0 .. 3
        /\ PtsDtsFlags(h) = 2 => Required(h) >= 5
        /\ PtsDtsFlags(h) = 3 => Required(h) >= 10
    BY FieldsBounded, Zenon
  <2> HIDE DEF bytes, n, total, has
  <2>3. has => bytes >= 9 + HeaderDataLength(h) /\ Required(h) <= HeaderDataLength(h)
    BY <1>2, <1>3, <1>5, <2>1, <2>2
  <2>4. HasTimestamp(h) => PtsDtsFlags(h) = 2 \/ PtsDtsFlags(h) = 3
    BY DEF HasTimestamp
  <2>5. QED BY <2>1, <2>2, <2>3, <2>4
\* The analysis.
<1>9. /\ known \subseteq {"PTS", "DTS"} /\ ("PTS" \in known <=> pts) /\ ("DTS" \in known <=> dts)
      /\ pts => c.fields["PTS"] = Timestamp(9)
      /\ dts => c.fields["DTS"] = Timestamp(14)
  <2> DEFINE o == OptionalFields(h)
  <2>1. /\ "PTS" \in DOMAIN o <=> HasTimestamp(h)
        /\ "DTS" \in DOMAIN o <=> PtsDtsFlags(h) = 3
        /\ HasTimestamp(h) => o["PTS"] = Timestamp(9)
        /\ PtsDtsFlags(h) = 3 => o["DTS"] = Timestamp(14)
    BY OptionalTimestamps
  <2>2. DOMAIN NoFields = {}
    BY DEF NoFields
  <2> HIDE DEF o, has
  <2>3. DOMAIN Over(o, NoFields) = DOMAIN o
    BY <2>2 DEF Over
  <2>4. \A t \in DOMAIN o : Over(o, NoFields)[t] = o[t]
    BY <2>2 DEF Over
  <2>5. CASE has
    <3>1. c.fields = Over(o, NoFields)
      BY <1>4, <2>5 DEF o
    <3>2. known = {"PTS", "DTS"} \cap DOMAIN o
      BY <2>3, <3>1, Zenon
    <3>3. \A t \in DOMAIN o : c.fields[t] = o[t]
      BY <2>4, <3>1, Zenon
    <3> HIDE DEF known
    <3>4. QED BY <2>1, <2>5, <3>2, <3>3
  <2>6. CASE ~has
    <3>1. c.fields = NoFields
      BY <1>4, <2>6
    <3>2. known = {}
      BY <2>2, <3>1, Zenon
    <3>3. QED BY <2>6, <3>2
  <2>7. QED BY <2>5, <2>6
\* The detail of the unit.
<1>10. /\ DOMAIN stamps = known
       /\ pts => stamps["PTS"] = Timestamp(9)
       /\ dts => stamps["DTS"] = Timestamp(14)
  <2>1. 9 \in Nat /\ 14 \in Nat
    OBVIOUS
  <2>2. Concat(TimestampRuns(9)) = Timestamp(9) /\ Concat(TimestampRuns(14)) = Timestamp(14)
    BY <2>1, TimestampIs
  <2> DEFINE given == {t \in {"PTS", "DTS"} :
                         /\ bytes >= 9 /\ has
                         /\ \/ t = "PTS" /\ PtsDtsFlags(h) >= 2 /\ bytes >= 14
                            \/ t = "DTS" /\ PtsDtsFlags(h) = 3 /\ bytes >= 19}
  <2>3. stamps = [t \in given |-> Concat(TimestampRuns(IF t = "PTS" THEN 9 ELSE 14))]
    BY Zenon DEF UnitTimestamps
  <2>4. given = known
    <3> HIDE DEF has, bytes, known
    <3>1. QED BY <1>7, <1>8, <1>9
  <2>5. pts => "PTS" \in given
    BY <1>9, <2>4, Zenon
  <2>6. dts => "DTS" \in given
    BY <1>9, <2>4, Zenon
  <2> HIDE DEF given, stamps, known
  <2>7. pts => stamps["PTS"] = Concat(TimestampRuns(9))
    BY <2>3, <2>5, Zenon
  <2>8. dts => stamps["DTS"] = Concat(TimestampRuns(14))
    <3>1. "DTS" # "PTS"
      OBVIOUS
    <3>2. QED BY <2>3, <2>6, <3>1, Zenon
  <2>9. QED BY <2>2, <2>3, <2>4, <2>7, <2>8, Zenon
<1>11. QED BY <1>9, <1>10, Zenon

\* They are the same in both.
LEMMA UnitStampsAre ==
  ASSUME NEW p, p.payloads \in Seq(Nat), p.payloads # <<>>, IsBytes(p.bytes), NEW object,
         Collected(object, p).problem = "none"
  PROVE  LET s     == UnitTimestamps(p.bytes, Gathered(p.bytes, p.payloads).bytes)
             known == {"PTS", "DTS"} \cap DOMAIN Collected(object, p).fields
         IN DOMAIN s = known /\ \A t \in known : s[t] = Collected(object, p).fields[t]
<1>1. PICK c : c = Collected(object, p)
  OBVIOUS
<1> DEFINE h     == p.bytes
           has   == StreamHasPesHeader(StreamId(h))
           s     == UnitTimestamps(h, Gathered(h, p.payloads).bytes)
           known == {"PTS", "DTS"} \cap DOMAIN c.fields
           pts   == has /\ HasTimestamp(h)
           dts   == has /\ PtsDtsFlags(h) = 3
<1>2. /\ known \subseteq {"PTS", "DTS"} /\ ("PTS" \in known <=> pts) /\ ("DTS" \in known <=> dts)
      /\ pts => c.fields["PTS"] = Timestamp(9) /\ s["PTS"] = Timestamp(9)
      /\ dts => c.fields["DTS"] = Timestamp(14) /\ s["DTS"] = Timestamp(14)
      /\ DOMAIN s = known
  BY <1>1, CollectedTimestamps
<1> HIDE DEF s, known, pts, dts
<1>3. \A t \in known : s[t] = c.fields[t]
  BY <1>2, Zenon
<1>4. QED BY <1>1, <1>2, <1>3, Zenon DEF s, known

\* The packet detail agrees with it.
LEMMA TimestampsDo ==
  ASSUME NEW p, p.payloads \in Seq(Nat), p.payloads # <<>>, IsBytes(p.bytes), NEW object,
         packet = p, pes = Collected(object, p)
  PROVE  TimestampsAgree
<1> DEFINE h     == p.bytes
           has   == StreamHasPesHeader(StreamId(h))
           bytes == Gathered(h, p.payloads).bytes
           stamps == UnitTimestamps(h, bytes)
           size  == p.payloads[1]
           list  == DetailFields(h, size)
           first == Layer(list, size)
           known == {"PTS", "DTS"} \cap DOMAIN pes.fields
<1> SUFFICES ASSUME pes.problem = "none"
             PROVE  /\ DOMAIN stamps = known
                    /\ \A t \in known : stamps[t] = pes.fields[t]
                    /\ \A t \in {"PTS", "DTS"} \cap DOMAIN first :
                         t \in known /\ first[t] = pes.fields[t]
                    /\ Truncated(list, size) \/ known \subseteq DOMAIN first
  BY Zenon DEF TimestampsAgree, PesLayer
<1>1. size \in Nat
  OBVIOUS
<1> DEFINE pts == has /\ HasTimestamp(h)
           dts == has /\ PtsDtsFlags(h) = 3
\* The analysis, and the detail of the unit.
<1>2. /\ known \subseteq {"PTS", "DTS"} /\ ("PTS" \in known <=> pts) /\ ("DTS" \in known <=> dts)
      /\ pts => pes.fields["PTS"] = Timestamp(9) /\ stamps["PTS"] = Timestamp(9)
      /\ dts => pes.fields["DTS"] = Timestamp(14) /\ stamps["DTS"] = Timestamp(14)
      /\ DOMAIN stamps = known
  BY CollectedTimestamps
\* The detail of the first packet.
<1> DEFINE fields == ToSet(list)
           whole == size >= 9 /\ has
<1>3. /\ \A f \in fields : IsTimestamp(f) => whole /\ \/ f = PtsField /\ HasTimestamp(h)
                                                      \/ f = DtsField /\ PtsDtsFlags(h) = 3
      /\ whole /\ HasTimestamp(h) => PtsField \in fields
      /\ whole /\ PtsDtsFlags(h) = 3 => DtsField \in fields
      /\ LengthField \in fields
      /\ size >= 6 /\ has => HeaderLengthField \in fields
  <2> HIDE DEF size
  <2>1. QED BY <1>1, DetailFieldsAre
<1>4. /\ PtsField.name = "PTS" /\ Shown(PtsField) = Timestamp(9)
      /\ DtsField.name = "DTS" /\ Shown(DtsField) = Timestamp(14)
      /\ Inside(LengthField, size) => size >= 6
      /\ Inside(HeaderLengthField, size) => size >= 9
  <2>1. 9 \in Nat /\ 14 \in Nat /\ 4 \in Nat /\ 8 \in Nat /\ 1 \in Nat /\ 2 \in Nat
    OBVIOUS
  <2>2. PtsField.name = "PTS" /\ Shown(PtsField) = Timestamp(9)
    BY <2>1, TimestampField DEF PtsField
  <2>3. DtsField.name = "DTS" /\ Shown(DtsField) = Timestamp(14)
    BY <2>1, TimestampField DEF DtsField
  <2> HIDE DEF size
  <2>4. (Inside(LengthField, size) => size >= 6) /\ (Inside(HeaderLengthField, size) => size >= 9)
    BY <1>1, LengthsInside
  <2>5. QED BY <2>2, <2>3, <2>4, Zenon
<1>5. ASSUME NEW f \in {PtsField, DtsField}, f \in fields
      PROVE  /\ f.name \in DOMAIN first <=> Inside(f, size)
             /\ Inside(f, size) => first[f.name] = Shown(f)
  <2>1. \A g \in fields : g.name = f.name => g = f
    <3> HIDE DEF fields, has
    <3>1. QED BY <1>3, <1>4, <1>5 DEF IsTimestamp
  <2>2. QED BY <1>5, <2>1, LayerIs
<1>6. \A t \in DOMAIN first : \E f \in fields : f.name = t /\ Inside(f, size)
  BY Zenon DEF Layer
<1> HIDE DEF fields, first, size, has, stamps, known
<1>7. ASSUME "PTS" \in DOMAIN first PROVE pts /\ first["PTS"] = Timestamp(9)
  <2>1. PICK f \in fields : f.name = "PTS" /\ Inside(f, size)
    BY <1>6, <1>7
  <2>2. f = PtsField /\ pts
    BY <1>3, <1>4, <2>1 DEF IsTimestamp
  <2>3. QED BY <1>4, <1>5, <2>1, <2>2, Zenon
<1>8. ASSUME "DTS" \in DOMAIN first PROVE dts /\ first["DTS"] = Timestamp(14)
  <2>1. PICK f \in fields : f.name = "DTS" /\ Inside(f, size)
    BY <1>6, <1>8
  <2>2. f = DtsField /\ dts
    BY <1>3, <1>4, <2>1 DEF IsTimestamp
  <2>3. QED BY <1>4, <1>5, <2>1, <2>2, Zenon
<1>9. ASSUME ~Truncated(list, size)
      PROVE  (pts => "PTS" \in DOMAIN first) /\ (dts => "DTS" \in DOMAIN first)
  <2>1. \A f \in fields : Inside(f, size)
    BY <1>9, Zenon DEF Truncated, fields
  <2>2. has => whole
    BY <1>3, <1>4, <2>1
  <2>3. pts => PtsField \in fields
    BY <1>3, <2>2
  <2>4. dts => DtsField \in fields
    BY <1>3, <2>2
  <2>5. pts => PtsField.name \in DOMAIN first
    BY <1>5, <2>1, <2>3
  <2>6. dts => DtsField.name \in DOMAIN first
    BY <1>5, <2>1, <2>4
  <2>7. QED BY <1>4, <2>5, <2>6
<1> HIDE DEF pts, dts
<1>10. \A t \in known : stamps[t] = pes.fields[t]
  BY <1>2, Zenon
<1>11. \A t \in {"PTS", "DTS"} \cap DOMAIN first : t \in known /\ first[t] = pes.fields[t]
  BY <1>2, <1>7, <1>8, Zenon
<1>12. Truncated(list, size) \/ known \subseteq DOMAIN first
  BY <1>2, <1>9, Zenon
<1>13. QED BY <1>2, <1>10, <1>11, <1>12, Zenon DEF first, stamps, size

-------------------------------------------------------------------------------
\* A PES packet is one of PesPackets, and the Pes is what comes of it alone.
HeaderIsOfPacket ==
  headers \in Nat /\ (headers > 0 => packet \in PesPackets /\ pes = Collected(NewPes, packet))

\* What comes of a PES packet does not depend on the Pes it is collected in.
LEMMA CollectedAlone ==
  ASSUME NEW object, NEW p
  PROVE  Collected(object, p) = Collected(NewPes, p)
<1>1. InitializePes(object) = InitializePes(NewPes)
  BY DEF InitializePes
<1>2. QED BY <1>1, Zenon DEF Collected

LEMMA HeadersFollow ==
  ASSUME HeaderIsOfPacket
  PROVE  HeadersAgree
<1> SUFFICES ASSUME headers > 0
             PROVE  PesAsItself /\ AcceptedAsDefined /\ TimestampsAgree
  BY Zenon DEF HeadersAgree
<1>1. packet \in PesPackets /\ pes = Collected(NewPes, packet)
  BY DEF HeaderIsOfPacket
<1>2. packet.payloads \in Seq(Nat) /\ packet.payloads # <<>> /\ IsBytes(packet.bytes)
  BY <1>1, PesAssumption, Zenon DEF IsBytes
<1>3. PesAsItself
  BY <1>1, Zenon DEF PesAsItself
<1>4. AcceptedAsDefined
  BY <1>1, <1>2, AcceptedIs
<1>5. TimestampsAgree
  BY <1>1, <1>2, TimestampsDo
<1>6. QED BY <1>3, <1>4, <1>5

\* A PES header is one thing, however it is looked at: nothing of the PES packet
\* before is left in the Pes, Parse accepts exactly the headers that hold every
\* field they announce, and its PTS and DTS are those of the packet detail.
THEOREM HeadersStayAgreed == HeaderSpec => []HeadersAgree
<1>1. HeaderInit => HeaderIsOfPacket
  BY DEF HeaderInit, HeaderIsOfPacket
<1>2. HeaderIsOfPacket /\ [HeaderNext]_headerVars => HeaderIsOfPacket'
  <2> SUFFICES ASSUME HeaderIsOfPacket, [HeaderNext]_headerVars PROVE HeaderIsOfPacket'
    OBVIOUS
  <2>1. CASE NextPes
    <3>1. headers' \in Nat
      BY <2>1 DEF NextPes, HeaderIsOfPacket
    <3>2. packet' \in PesPackets
      BY <2>1, PesAssumption DEF NextPes
    <3>3. pes' = Collected(NewPes, packet')
      BY <2>1, CollectedAlone, Zenon DEF NextPes
    <3>4. QED BY <3>1, <3>2, <3>3 DEF HeaderIsOfPacket
  <2>2. CASE UNCHANGED headerVars
    BY <2>2, Zenon DEF HeaderIsOfPacket, headerVars
  <2>3. QED BY <2>1, <2>2 DEF HeaderNext
<1>3. HeaderIsOfPacket => HeadersAgree
  BY HeadersFollow
<1>4. QED BY <1>1, <1>2, <1>3, PTL DEF HeaderSpec

-------------------------------------------------------------------------------
-------------------------------------------------------------------------------
(* The unit of a packet.  First, the numbers of a set in ascending order.     *)

Ascending(s, T) ==
  /\ s \in Seq(Int)
  /\ \A i, j \in 1 .. Len(s) : i < j => s[i] < s[j]
  /\ \A i \in 1 .. Len(s) : s[i] \in T
  /\ \A x \in T : \E i \in 1 .. Len(s) : s[i] = x

\* There are as many of them as the sequence is long, and those up to one of them
\* as its place says.
LEMMA AscendingCounts ==
  ASSUME NEW T, NEW s, Ascending(s, T)
  PROVE  /\ Len(s) \in Nat /\ Cardinality(T) = Len(s)
         /\ \A i \in 1 .. Len(s) : Cardinality({x \in T : x <= s[i]}) = i
         /\ \A i \in 1 .. Len(s) : s[i] \in Int
<1>1. Len(s) \in Nat /\ \A i \in 1 .. Len(s) : s[i] \in Int
  BY DEF Ascending
<1>2. ASSUME NEW n \in 0 .. Len(s), NEW U, \A i \in 1 .. n : s[i] \in U,
             \A x \in U : \E i \in 1 .. n : s[i] = x
      PROVE  Cardinality(U) = n
  <2> DEFINE f == [i \in 1 .. n |-> s[i]]
  <2>1. n \in Nat /\ \A i \in 1 .. n : i \in 1 .. Len(s)
    BY <1>1
  <2>2. f \in [1 .. n -> U] /\ \A x \in U : \E i \in 1 .. n : f[i] = x
    BY <1>2
  <2>3. \A i, j \in 1 .. n : f[i] = f[j] => i = j
    <3>1. SUFFICES ASSUME NEW i \in 1 .. n, NEW j \in 1 .. n, s[i] = s[j] PROVE i = j
      OBVIOUS
    <3>2. i \in 1 .. Len(s) /\ j \in 1 .. Len(s) /\ s[i] \in Int
      BY <1>1, <2>1
    <3>3. ~(i < j) /\ ~(j < i)
      BY <3>1, <3>2 DEF Ascending
    <3>4. QED BY <3>2, <3>3
  <2> HIDE DEF f
  <2>4. f \in Bijection(1 .. n, U)
    BY <2>2, <2>3 DEF Bijection, Injection, Surjection, IsInjective
  <2>5. IsFiniteSet(1 .. n) /\ Cardinality(1 .. n) = n
    BY <2>1, FS_Interval
  <2>6. QED BY <2>4, <2>5, FS_Bijection DEF ExistsBijection
<1>3. Cardinality(T) = Len(s)
  BY <1>1, <1>2 DEF Ascending
<1>4. ASSUME NEW i \in 1 .. Len(s)
      PROVE  Cardinality({x \in T : x <= s[i]}) = i
  <2> DEFINE U == {x \in T : x <= s[i]}
  <2>1. i \in 0 .. Len(s)
    BY <1>1
  <2>2. \A j \in 1 .. i : s[j] \in U
    <3>1. TAKE j \in 1 .. i
    <3>2. j \in 1 .. Len(s) /\ s[j] \in T /\ s[j] \in Int /\ s[i] \in Int
      BY <1>1 DEF Ascending
    <3>3. j < i => s[j] < s[i]
      BY <3>2 DEF Ascending
    <3>4. s[j] <= s[i]
      BY <3>2, <3>3
    <3>5. QED BY <3>2, <3>4
  <2>3. \A x \in U : \E j \in 1 .. i : s[j] = x
    <3>1. TAKE x \in U
    <3>2. PICK j \in 1 .. Len(s) : s[j] = x
      BY DEF Ascending
    <3>3. ~(i < j)
      BY <1>1, <3>2 DEF Ascending
    <3>4. j \in 1 .. i
      BY <3>3
    <3>5. QED BY <3>2, <3>4
  <2> HIDE DEF U
  <2>4. Cardinality(U) = i
    BY <1>2, <2>1, <2>2, <2>3
  <2>5. QED BY <2>4 DEF U
<1>5. QED BY <1>1, <1>3, <1>4

\* A number is found by how many there are up to it.
LEMMA AscendingFound ==
  ASSUME NEW T, NEW s, Ascending(s, T), NEW i \in 1 .. Len(s)
  PROVE  (CHOOSE x \in T : Cardinality({y \in T : y <= x}) = i) = s[i]
<1>1. \A j \in 1 .. Len(s) : Cardinality({y \in T : y <= s[j]}) = j
  BY AscendingCounts
<1>2. s[i] \in T /\ Cardinality({y \in T : y <= s[i]}) = i
  BY <1>1 DEF Ascending
<1>3. ASSUME NEW x \in T, Cardinality({y \in T : y <= x}) = i PROVE x = s[i]
  <2>1. PICK j \in 1 .. Len(s) : s[j] = x
    BY DEF Ascending
  <2>2. j = i
    BY <1>1, <1>3, <2>1
  <2>3. QED BY <2>1, <2>2
<1> DEFINE P(x) == Cardinality({y \in T : y <= x}) = i
<1>4. \A x \in T : P(x) => x = s[i]
  BY <1>3
<1>5. s[i] \in T /\ P(s[i])
  BY <1>2
<1> HIDE DEF P
<1>6. (CHOOSE x \in T : P(x)) = s[i]
  BY <1>4, <1>5
<1>7. QED BY <1>6, Zenon DEF P

\* There is only one such sequence: the numbers as they are found.
Listed(T) ==
  [i \in 1 .. Cardinality(T) |-> CHOOSE x \in T : Cardinality({y \in T : y <= x}) = i]

LEMMA AscendingIsListed ==
  ASSUME NEW T, NEW s, Ascending(s, T)
  PROVE  s = Listed(T)
<1>1. Cardinality(T) = Len(s) /\ s = [i \in 1 .. Len(s) |-> s[i]]
  <2>1. Cardinality(T) = Len(s)
    BY AscendingCounts
  <2>2. s \in Seq(Int)
    BY DEF Ascending
  <2>3. QED BY <2>1, <2>2
<1> DEFINE found(i) == CHOOSE x \in T : Cardinality({y \in T : y <= x}) = i
<1>2. \A i \in 1 .. Len(s) : found(i) = s[i]
  BY AscendingFound
<1>3. Listed(T) = [i \in 1 .. Len(s) |-> found(i)]
  BY <1>1 DEF Listed
<1> HIDE DEF found
<1>4. QED BY <1>1, <1>2, <1>3

\* Sequences that are put together.
LEMMA AscendingNone == Ascending(<<>>, {})
  BY DEF Ascending

LEMMA AscendingOne ==
  ASSUME NEW o \in Int
  PROVE  Ascending(<<o>>, {o})
<1>1. <<o>> \in Seq(Int) /\ Len(<<o>>) = 1 /\ <<o>>[1] = o
  OBVIOUS
<1>2. \A i \in 1 .. 1 : i = 1
  OBVIOUS
<1> DEFINE s == <<o>>
<1> HIDE DEF s
<1>3. s \in Seq(Int) /\ Len(s) = 1 /\ s[1] = o
  BY <1>1 DEF s
<1>4. Ascending(s, {o})
  BY <1>2, <1>3 DEF Ascending
<1>5. QED BY <1>4 DEF s

LEMMA AscendingConcat ==
  ASSUME NEW T, NEW s, Ascending(s, T), NEW U, NEW t, Ascending(t, U),
         \A x \in T, y \in U : x < y
  PROVE  Ascending(s \o t, T \cup U)
<1> DEFINE r == s \o t
           m == Len(s)
           n == Len(t)
<1>1. s \in Seq(Int) /\ t \in Seq(Int) /\ m \in Nat /\ n \in Nat
  BY DEF Ascending
<1>2. r \in Seq(Int) /\ Len(r) = m + n
  BY <1>1
<1>3. \A i \in 1 .. m + n : r[i] = IF i <= m THEN s[i] ELSE t[i - m]
  BY <1>1
<1> HIDE DEF r, m, n
<1>4. /\ \A i \in 1 .. m : s[i] \in T /\ s[i] \in Int
      /\ \A i \in 1 .. n : t[i] \in U /\ t[i] \in Int
      /\ \A i, j \in 1 .. m : i < j => s[i] < s[j]
      /\ \A i, j \in 1 .. n : i < j => t[i] < t[j]
      /\ \A x \in T : \E i \in 1 .. m : s[i] = x
      /\ \A x \in U : \E i \in 1 .. n : t[i] = x
  BY DEF Ascending, m, n
<1>5. \A i \in 1 .. m + n : \/ i \in 1 .. m /\ r[i] = s[i]
                            \/ i - m \in 1 .. n /\ i > m /\ r[i] = t[i - m]
  BY <1>1, <1>3
<1>6. ASSUME NEW i \in 1 .. m + n, NEW j \in 1 .. m + n, i < j
      PROVE  r[i] < r[j]
  <2>1. CASE j <= m
    <3>1. i \in 1 .. m /\ j \in 1 .. m /\ r[i] = s[i] /\ r[j] = s[j]
      BY <1>1, <1>3, <1>6, <2>1
    <3>2. QED BY <1>4, <1>6, <3>1
  <2>2. CASE i > m
    <3>1. i - m \in 1 .. n /\ j - m \in 1 .. n /\ r[i] = t[i - m] /\ r[j] = t[j - m] /\ i - m < j - m
      BY <1>1, <1>3, <1>6, <2>2
    <3>2. QED BY <1>4, <3>1
  <2>3. CASE i <= m /\ j > m
    <3>1. i \in 1 .. m /\ j - m \in 1 .. n /\ r[i] = s[i] /\ r[j] = t[j - m]
      BY <1>1, <1>3, <2>3
    <3>2. s[i] \in T /\ t[j - m] \in U
      BY <1>4, <3>1
    <3>3. QED BY <3>1, <3>2
  <2>4. QED BY <1>1, <2>1, <2>2, <2>3
<1>7. \A i \in 1 .. m + n : r[i] \in T \cup U
  BY <1>4, <1>5
<1>8. ASSUME NEW x \in T \cup U PROVE \E i \in 1 .. m + n : r[i] = x
  <2>1. CASE x \in T
    <3>1. PICK i \in 1 .. m : s[i] = x
      BY <1>4, <2>1
    <3>2. i \in 1 .. m + n /\ r[i] = s[i]
      BY <1>1, <1>3
    <3>3. QED BY <3>1, <3>2
  <2>2. CASE x \in U
    <3>1. PICK i \in 1 .. n : t[i] = x
      BY <1>4, <2>2
    <3>2. i + m \in 1 .. m + n /\ r[i + m] = t[i]
      BY <1>1, <1>3
    <3>3. QED BY <3>1, <3>2
  <2>3. QED BY <2>1, <2>2
<1>9. QED BY <1>2, <1>6, <1>7, <1>8 DEF Ascending, r

\* One more at the end.
LEMMA AscendingAppend ==
  ASSUME NEW T, NEW s, Ascending(s, T), NEW o \in Int, \A x \in T : x < o
  PROVE  Ascending(Append(s, o), T \cup {o})
<1>1. s \in Seq(Int)
  BY DEF Ascending
<1>2. Append(s, o) = s \o <<o>>
  BY <1>1
<1>3. Ascending(<<o>>, {o})
  BY AscendingOne
<1>4. Ascending(s \o <<o>>, T \cup {o})
  BY <1>3, AscendingConcat
<1>5. QED BY <1>2, <1>4

\* The first is the least and the last the greatest.
LEMMA AscendingEnds ==
  ASSUME NEW T \in SUBSET Nat, NEW s, Ascending(s, T)
  PROVE  /\ s = <<>> <=> T = {}
         /\ s # <<>> => /\ Head(s) \in T /\ Last(s) \in T /\ Head(s) = s[1]
                        /\ \A x \in T : Head(s) <= x /\ x <= Last(s)
                        /\ Min(T) = Head(s) /\ Max(T \cup {Nowhere}) = Last(s)
<1>1. s \in Seq(Int) /\ Len(s) \in Nat
  BY DEF Ascending
<1>2. /\ \A i, j \in 1 .. Len(s) : i < j => s[i] < s[j]
      /\ \A i \in 1 .. Len(s) : s[i] \in T
      /\ \A x \in T : \E i \in 1 .. Len(s) : s[i] = x
  BY DEF Ascending
<1>3. ASSUME s = <<>> PROVE T = {}
  <2>1. Len(s) = 0
    BY <1>3
  <2>2. QED BY <1>2, <2>1
<1>4. ASSUME s # <<>>
      PROVE  /\ T # {} /\ Head(s) \in T /\ Last(s) \in T /\ Head(s) = s[1]
             /\ \A x \in T : Head(s) <= x /\ x <= Last(s)
             /\ Min(T) = Head(s) /\ Max(T \cup {Nowhere}) = Last(s)
  <2>1. Len(s) \in Nat \ {0} /\ Head(s) = s[1] /\ Last(s) = s[Len(s)]
    BY <1>1, <1>4 DEF Last
  <2>2. 1 \in 1 .. Len(s) /\ Len(s) \in 1 .. Len(s)
    BY <2>1
  <2>3. Head(s) \in T /\ Last(s) \in T
    BY <1>2, <2>1, <2>2
  <2>4. ASSUME NEW x \in T PROVE Head(s) <= x /\ x <= Last(s)
    <3>1. PICK i \in 1 .. Len(s) : s[i] = x
      BY <1>2
    <3>2. (1 < i => s[1] < s[i]) /\ (i < Len(s) => s[i] < s[Len(s)])
      BY <1>2, <2>2
    <3>3. i = 1 \/ 1 < i
      OBVIOUS
    <3>4. i = Len(s) \/ i < Len(s)
      BY <2>1
    <3>5. s[1] \in Nat /\ s[i] \in Nat /\ s[Len(s)] \in Nat
      BY <1>2, <2>2
    <3>6. QED BY <2>1, <3>1, <3>2, <3>3, <3>4, <3>5
  <2>5. Min(T) = Head(s)
    BY <2>3, <2>4, MinIs
  <2>6. Max(T \cup {Nowhere}) = Last(s)
    <3> DEFINE m == Last(s)
               U == T \cup {-1}
    <3>1. \A x \in U : x \in Int
      OBVIOUS
    <3>2. m \in U /\ \A y \in U : m >= y
      <4>1. m \in T /\ m \in Nat /\ \A y \in T : y <= m /\ y \in Nat
        BY <2>3, <2>4
      <4> HIDE DEF m
      <4>2. QED BY <4>1
    <3>3. \A x \in U : (\A y \in U : x >= y) => x = m
      <4> HIDE DEF m, U
      <4>1. QED BY <3>1, <3>2
    <3> HIDE DEF m, U
    <3>4. Max(U) = m
      BY <3>2, <3>3 DEF Max
    <3>5. QED BY <3>4 DEF m, U, Nowhere
  <2>7. QED BY <2>1, <2>3, <2>4, <2>5, <2>6
<1>5. QED BY <1>3, <1>4

-------------------------------------------------------------------------------
(* The packets that the two loops of findUnit come to: those of a set A that   *)
(* are a whole number of packets away, as far as the first that is in B.       *)

\* A remainder is the only one.
LEMMA RemainderIs ==
  ASSUME NEW p \in Nat \ {0}, NEW q \in Int, NEW r \in 0 .. p - 1, NEW y \in Int, y = p * q + r
  PROVE  y % p = r /\ y \div p = q
<1> DEFINE r2 == y % p
           q2 == y \div p
<1>1. r2 \in 0 .. p - 1 /\ q2 \in Int /\ y = p * q2 + r2
  OBVIOUS
<1> HIDE DEF r2, q2
<1> DEFINE d == q - q2
<1>2. d \in Int /\ p * d = p * q - p * q2
  BY <1>1
<1>3. p * d = r2 - r
  BY <1>1, <1>2
<1> HIDE DEF d
<1>4. ~(d >= 1)
  <2>1. d >= 1 => p * d >= p
    BY <1>2
  <2>2. QED BY <1>1, <1>3, <2>1
<1>5. ~(d <= -1)
  <2>1. d <= -1 => p * d <= -p
    BY <1>2
  <2>2. QED BY <1>1, <1>3, <2>1
<1>6. d = 0
  BY <1>2, <1>4, <1>5
<1>7. p * d = 0
  BY <1>6
<1>8. r2 = r /\ q2 = q
  BY <1>1, <1>3, <1>6, <1>7 DEF d
<1>9. QED BY <1>8 DEF r2, q2

\* Numbers that are a whole number of packets of size p apart.
LEMMA StepsApart ==
  ASSUME NEW p \in Nat \ {0}, NEW x \in Int, NEW y \in Int, x % p = y % p
  PROVE  /\ x < y => x + p <= y
         /\ (x + p) % p = y % p /\ (x - p) % p = y % p
<1> DEFINE r == x % p
           a == x \div p
           b == y \div p
<1>1. a \in Int /\ b \in Int /\ r \in Int /\ x = p * a + r /\ y = p * b + r
  BY DEF a, b, r
<1>2. ASSUME x < y PROVE x + p <= y
  <2> HIDE DEF a, b, r
  <2>1. p * a < p * b
    BY <1>1, <1>2
  <2>2. a < b
    BY <1>1, <2>1
  <2>3. a + 1 <= b
    BY <1>1, <2>2
  <2>4. p * (a + 1) <= p * b
    BY <1>1, <2>3
  <2>5. p * (a + 1) = p * a + p
    BY <1>1
  <2>6. QED BY <1>1, <2>4, <2>5
<1>3. r \in 0 .. p - 1
  BY DEF r
<1> HIDE DEF a, b, r
<1>4. /\ a + 1 \in Int /\ x + p \in Int /\ x + p = p * (a + 1) + r
      /\ a - 1 \in Int /\ x - p \in Int /\ x - p = p * (a - 1) + r
  BY <1>1
<1>5. (x + p) % p = r /\ (x - p) % p = r
  <2>1. \A q \in Int, z \in Int : z = p * q + r => z % p = r
    <3>1. SUFFICES ASSUME NEW q \in Int, NEW z \in Int, z = p * q + r PROVE z % p = r
      OBVIOUS
    <3>2. z % p = r
      <4> DEFINE k == r
      <4>1. k \in 0 .. p - 1 /\ z = p * q + k
        BY <1>3, <3>1
      <4> HIDE DEF k
      <4>2. z % p = k
        BY <4>1, RemainderIs
      <4>3. QED BY <4>2 DEF k
    <3>3. QED BY <3>2
  <2>2. QED BY <1>4, <2>1, Zenon
<1>6. QED BY <1>2, <1>5 DEF r

Behind(A, B, p, low, o) ==
  {c \in Int : /\ low <= c /\ c <= o /\ c % p = o % p /\ c \in A
               /\ \A s \in A \cap B : s % p = o % p /\ s <= o => s <= c}

Ahead(A, B, p, high, o) ==
  {c \in Int : /\ o <= c /\ c + p <= high /\ c % p = o % p /\ c \in A
               /\ \A s \in A \cap B : s % p = o % p /\ o <= s => c < s}

\* One step back,
LEMMA BehindStep ==
  ASSUME NEW A \in SUBSET Int, NEW B, NEW p \in Nat \ {0}, NEW low \in Int, NEW o \in Int
  PROVE  /\ o < low => Behind(A, B, p, low, o) = {}
         /\ o >= low /\ o \notin A => Behind(A, B, p, low, o) = Behind(A, B, p, low, o - p)
         /\ o >= low /\ o \in A /\ o \in B => Behind(A, B, p, low, o) = {o}
         /\ o >= low /\ o \in A /\ o \notin B =>
              Behind(A, B, p, low, o) = Behind(A, B, p, low, o - p) \cup {o}
         /\ \A c \in Behind(A, B, p, low, o - p) : c < o
<1>1. o - p \in Int /\ o - p < o /\ (o - p) % p = o % p
  <2>1. (o - p) % p = o % p
    BY StepsApart, Zenon
  <2>2. QED BY <2>1
<1>2. \A c \in Int : c % p = o % p /\ c < o => c <= o - p
  <2>1. \A c \in Int : c % p = o % p /\ c < o => c + p <= o
    BY StepsApart
  <2>2. QED BY <2>1
<1> DEFINE R(c) == c % p
<1>3. R(o - p) = R(o) /\ \A c \in Int : R(c) = R(o) => (c <= o <=> c = o \/ c <= o - p)
  BY <1>1, <1>2
<1>4. \A x : /\ Behind(A, B, p, low, x) =
                  {c \in Int : /\ low <= c /\ c <= x /\ R(c) = R(x) /\ c \in A
                               /\ \A s \in A \cap B : R(s) = R(x) /\ s <= x => s <= c}
  BY DEF Behind
<1> HIDE DEF R
<1>5. ASSUME o < low PROVE Behind(A, B, p, low, o) = {}
  BY <1>4, <1>5
<1>6. ASSUME o >= low, o \notin A
      PROVE  Behind(A, B, p, low, o) = Behind(A, B, p, low, o - p)
  <2>1. \A s \in A : R(s) = R(o) => (s <= o <=> s <= o - p)
    BY <1>3, <1>6
  <2>2. \A c \in Int : c \in Behind(A, B, p, low, o) <=> c \in Behind(A, B, p, low, o - p)
    BY <1>3, <1>4, <2>1
  <2>3. Behind(A, B, p, low, o) \subseteq Int /\ Behind(A, B, p, low, o - p) \subseteq Int
    BY DEF Behind
  <2>4. QED BY <2>2, <2>3
<1>7. ASSUME o >= low, o \in A, o \in B PROVE Behind(A, B, p, low, o) = {o}
  BY <1>3, <1>4, <1>7
<1>8. ASSUME o >= low, o \in A, o \notin B
      PROVE  Behind(A, B, p, low, o) = Behind(A, B, p, low, o - p) \cup {o}
  BY <1>1, <1>3, <1>4, <1>8
<1>9. \A c \in Behind(A, B, p, low, o - p) : c < o
  BY <1>1, <1>4
<1>10. QED BY <1>5, <1>6, <1>7, <1>8, <1>9

\* and one step ahead.
LEMMA AheadStep ==
  ASSUME NEW A \in SUBSET Int, NEW B, NEW p \in Nat \ {0}, NEW high \in Int, NEW o \in Int
  PROVE  /\ o + p > high => Ahead(A, B, p, high, o) = {}
         /\ o + p <= high /\ o \notin A => Ahead(A, B, p, high, o) = Ahead(A, B, p, high, o + p)
         /\ o + p <= high /\ o \in A /\ o \in B => Ahead(A, B, p, high, o) = {}
         /\ o + p <= high /\ o \in A /\ o \notin B =>
              Ahead(A, B, p, high, o) = {o} \cup Ahead(A, B, p, high, o + p)
         /\ \A c \in Ahead(A, B, p, high, o + p) : o < c
<1>1. o + p \in Int /\ o < o + p /\ (o + p) % p = o % p
  <2>1. (o + p) % p = o % p
    BY StepsApart, Zenon
  <2>2. QED BY <2>1
<1>2. \A c \in Int : c % p = o % p /\ o < c => o + p <= c
  BY StepsApart
<1> DEFINE R(c) == c % p
<1>3. R(o + p) = R(o) /\ \A c \in Int : R(c) = R(o) => (o <= c <=> c = o \/ o + p <= c)
  BY <1>1, <1>2
<1>4. \A x : /\ Ahead(A, B, p, high, x) =
                  {c \in Int : /\ x <= c /\ c + p <= high /\ R(c) = R(x) /\ c \in A
                               /\ \A s \in A \cap B : R(s) = R(x) /\ x <= s => c < s}
  BY DEF Ahead
<1> HIDE DEF R
<1>5. ASSUME o + p > high PROVE Ahead(A, B, p, high, o) = {}
  BY <1>4, <1>5
<1>6. ASSUME o + p <= high, o \notin A
      PROVE  Ahead(A, B, p, high, o) = Ahead(A, B, p, high, o + p)
  <2>1. \A s \in A : R(s) = R(o) => (o <= s <=> o + p <= s)
    BY <1>3, <1>6
  <2>2. \A c \in Int : c \in Ahead(A, B, p, high, o) <=> c \in Ahead(A, B, p, high, o + p)
    BY <1>3, <1>4, <2>1
  <2>3. Ahead(A, B, p, high, o) \subseteq Int /\ Ahead(A, B, p, high, o + p) \subseteq Int
    BY DEF Ahead
  <2>4. QED BY <2>2, <2>3
<1>7. ASSUME o + p <= high, o \in A, o \in B PROVE Ahead(A, B, p, high, o) = {}
  BY <1>3, <1>4, <1>7
<1>8. ASSUME o + p <= high, o \in A, o \notin B
      PROVE  Ahead(A, B, p, high, o) = {o} \cup Ahead(A, B, p, high, o + p)
  BY <1>1, <1>3, <1>4, <1>8
<1>9. \A c \in Ahead(A, B, p, high, o + p) : o < c
  BY <1>1, <1>4
<1>10. QED BY <1>5, <1>6, <1>7, <1>8, <1>9

\* The two loops as functions.
LoopBack(f, A, B, p, low) ==
  [o \in Int |-> IF o < low THEN <<>>
                 ELSE IF o \notin A THEN f[o - p]
                 ELSE IF o \in B THEN <<o>>
                 ELSE Append(f[o - p], o)]

LoopAhead(f, A, B, p, high) ==
  [o \in Int |-> IF o + p > high THEN <<>>
                 ELSE IF o \notin A THEN f[o + p]
                 ELSE IF o \in B THEN <<>>
                 ELSE <<o>> \o f[o + p]]

\* What a sequence is when the one before it is what it should be.
LEMMA BackStep ==
  ASSUME NEW A \in SUBSET Int, NEW B, NEW p \in Nat \ {0}, NEW low \in Int, NEW o \in Int, NEW f,
         o >= low => Ascending(f[o - p], Behind(A, B, p, low, o - p))
  PROVE  Ascending(LoopBack(f, A, B, p, low)[o], Behind(A, B, p, low, o))
<1> DEFINE T(x) == Behind(A, B, p, low, x)
           v == LoopBack(f, A, B, p, low)[o]
<1>1. /\ o < low => T(o) = {}
      /\ o >= low /\ o \notin A => T(o) = T(o - p)
      /\ o >= low /\ o \in A /\ o \in B => T(o) = {o}
      /\ o >= low /\ o \in A /\ o \notin B => T(o) = T(o - p) \cup {o}
      /\ \A c \in T(o - p) : c < o
  BY BehindStep
<1>2. v = IF o < low THEN <<>> ELSE IF o \notin A THEN f[o - p]
          ELSE IF o \in B THEN <<o>> ELSE Append(f[o - p], o)
  BY DEF LoopBack
<1> HIDE DEF T, v
<1>3. o >= low => Ascending(f[o - p], T(o - p))
  BY DEF T
<1>4. CASE o < low
  BY <1>1, <1>2, <1>4, AscendingNone DEF T, v
<1>5. CASE o >= low /\ o \notin A
  BY <1>1, <1>2, <1>3, <1>5 DEF T, v
<1>6. CASE o >= low /\ o \in A /\ o \in B
  BY <1>1, <1>2, <1>6, AscendingOne DEF T, v
<1>7. CASE o >= low /\ o \in A /\ o \notin B
  <2>1. Ascending(Append(f[o - p], o), T(o - p) \cup {o})
    BY <1>1, <1>3, <1>7, AscendingAppend
  <2>2. QED BY <1>1, <1>2, <1>7, <2>1 DEF T, v
<1>8. QED BY <1>4, <1>5, <1>6, <1>7

LEMMA AheadAgain ==
  ASSUME NEW A \in SUBSET Int, NEW B, NEW p \in Nat \ {0}, NEW high \in Int, NEW o \in Int, NEW f,
         o + p <= high => Ascending(f[o + p], Ahead(A, B, p, high, o + p))
  PROVE  Ascending(LoopAhead(f, A, B, p, high)[o], Ahead(A, B, p, high, o))
<1> DEFINE T(x) == Ahead(A, B, p, high, x)
           v == LoopAhead(f, A, B, p, high)[o]
<1>1. /\ o + p > high => T(o) = {}
      /\ o + p <= high /\ o \notin A => T(o) = T(o + p)
      /\ o + p <= high /\ o \in A /\ o \in B => T(o) = {}
      /\ o + p <= high /\ o \in A /\ o \notin B => T(o) = {o} \cup T(o + p)
      /\ \A c \in T(o + p) : o < c
  BY AheadStep
<1>2. v = IF o + p > high THEN <<>> ELSE IF o \notin A THEN f[o + p]
          ELSE IF o \in B THEN <<>> ELSE <<o>> \o f[o + p]
  BY DEF LoopAhead
<1> HIDE DEF T, v
<1>3. o + p <= high => Ascending(f[o + p], T(o + p))
  BY DEF T
<1>4. CASE o + p > high
  BY <1>1, <1>2, <1>4, AscendingNone DEF T, v
<1>5. CASE o + p <= high /\ o \notin A
  BY <1>1, <1>2, <1>3, <1>5 DEF T, v
<1>6. CASE o + p <= high /\ o \in A /\ o \in B
  BY <1>1, <1>2, <1>6, AscendingNone DEF T, v
<1>7. CASE o + p <= high /\ o \in A /\ o \notin B
  <2>1. Ascending(<<o>>, {o}) /\ Ascending(f[o + p], T(o + p))
    BY <1>3, <1>7, AscendingOne
  <2>2. \A x \in {o}, y \in T(o + p) : x < y
    BY <1>1
  <2>3. Ascending(<<o>> \o f[o + p], {o} \cup T(o + p))
    BY <2>1, <2>2, AscendingConcat
  <2>4. QED BY <1>1, <1>2, <1>7, <2>3 DEF T, v
<1>8. QED BY <1>4, <1>5, <1>6, <1>7

\* From one number to the next of those a bound is not past, all are reached.
LEMMA DownInduction ==
  ASSUME NEW S, NEW p \in Nat \ {0}, NEW low \in Int,
         \A o \in Int : (o >= low => o - p \in S) => o \in S
  PROVE  \A o \in Int : o \in S
<1> DEFINE Q == {n \in Nat : \A o \in Int : o < low + n => o \in S}
<1>1. 0 \in Q
  BY DEF Q
<1>2. ASSUME NEW n \in Nat, n \in Q PROVE n + 1 \in Q
  <2>1. ASSUME NEW o \in Int, o < low + (n + 1) PROVE o \in S
    <3>1. o - p \in Int /\ o - p < low + n
      BY <2>1
    <3>2. o - p \in S
      BY <1>2, <3>1 DEF Q
    <3>3. QED BY <3>2
  <2>2. QED BY <2>1 DEF Q
<1> HIDE DEF Q
<1>3. \A n \in Nat : n \in Q
  BY <1>1, <1>2, SetInduction
<1>4. ASSUME NEW o \in Int PROVE o \in S
  <2>1. CASE o < low
    BY <2>1
  <2>2. CASE o >= low
    <3>1. o - low + 1 \in Nat
      BY <2>2
    <3>2. o - low + 1 \in Q
      BY <1>3, <3>1
    <3>3. QED BY <3>2 DEF Q
  <2>3. QED BY <2>1, <2>2
<1>5. QED BY <1>4

LEMMA UpInduction ==
  ASSUME NEW S, NEW p \in Nat \ {0}, NEW high \in Int,
         \A o \in Int : (o + p <= high => o + p \in S) => o \in S
  PROVE  \A o \in Int : o \in S
<1> DEFINE T == {o \in Int : -o \in S}
<1>1. ASSUME NEW o \in Int, o >= p - high => o - p \in T PROVE o \in T
  <2>1. -o \in Int /\ (-o) + p = -(o - p) /\ ((-o) + p <= high <=> o >= p - high) /\ o - p \in Int
    OBVIOUS
  <2>2. (-o) + p <= high => (-o) + p \in S
    BY <1>1, <2>1
  <2>3. QED BY <2>1, <2>2
<1>2. p - high \in Int
  OBVIOUS
<1> HIDE DEF T
<1>3. \A o \in Int : o \in T
  BY <1>1, <1>2, DownInduction
<1>4. \A o \in Int : -(-o) = o /\ -o \in Int
  OBVIOUS
<1>5. QED BY <1>3, <1>4 DEF T

\* The loops come to those packets and no others, one after the other.
LEMMA LoopBackIs ==
  ASSUME NEW A \in SUBSET Int, NEW B, NEW p \in Nat \ {0}, NEW low \in Int
  PROVE  /\ \E g : g = LoopBack(g, A, B, p, low)
         /\ \A f : f = LoopBack(f, A, B, p, low) => \A o \in Int : Ascending(f[o], Behind(A, B, p, low, o))
<1> DEFINE T(o) == Behind(A, B, p, low, o)
           Fix(g) == g = LoopBack(g, A, B, p, low)
           listed == [o \in Int |-> Listed(T(o))]
           S == {o \in Int : \E s : Ascending(s, T(o))}
<1>1. ASSUME NEW o \in Int, o >= low => o - p \in S PROVE o \in S
  <2> DEFINE f == [x \in Int |-> CHOOSE s : Ascending(s, T(x))]
  <2>1. o >= low => Ascending(f[o - p], T(o - p))
    BY <1>1, Zenon
  <2> HIDE DEF f
  <2>2. Ascending(LoopBack(f, A, B, p, low)[o], T(o))
    BY <2>1, BackStep
  <2>3. QED BY <2>2, Zenon
<1>2. \A o \in Int : \E s : Ascending(s, T(o))
  <2> HIDE DEF T
  <2>1. \A o \in Int : (o >= low => o - p \in S) => o \in S
    BY <1>1, Zenon
  <2> HIDE DEF S
  <2>2. \A o \in Int : o \in S
    BY <2>1, DownInduction
  <2>3. QED BY <2>2 DEF S
<1>3. ASSUME NEW o \in Int PROVE Ascending(Listed(T(o)), T(o)) /\ listed[o] = Listed(T(o))
  BY <1>2, AscendingIsListed, Zenon
<1>4. Fix(listed)
  <2> HIDE DEF T, listed
  <2>1. ASSUME NEW o \in Int PROVE LoopBack(listed, A, B, p, low)[o] = listed[o]
    <3>1. o - p \in Int
      OBVIOUS
    <3>2. Ascending(listed[o - p], T(o - p))
      BY <1>3, <3>1, Zenon
    <3>3. Ascending(LoopBack(listed, A, B, p, low)[o], T(o))
      BY <3>2, BackStep DEF T
    <3>4. QED BY <1>3, <3>3, AscendingIsListed, Zenon
  <2>2. listed = [o \in Int |-> listed[o]]
    BY DEF listed
  <2>3. LoopBack(listed, A, B, p, low) = [o \in Int |-> LoopBack(listed, A, B, p, low)[o]]
    BY Zenon DEF LoopBack
  <2>4. QED BY <2>1, <2>2, <2>3
<1> HIDE DEF listed
<1>5. SUFFICES ASSUME NEW f, f = LoopBack(f, A, B, p, low)
                PROVE  \A o \in Int : Ascending(f[o], T(o))
  BY <1>4, Zenon
<1> DEFINE D == {o \in Int : Ascending(f[o], T(o))}
<1>6. ASSUME NEW o \in Int, o >= low => o - p \in D PROVE o \in D
  <2>1. o >= low => Ascending(f[o - p], T(o - p))
    BY <1>6
  <2>2. Ascending(LoopBack(f, A, B, p, low)[o], T(o))
    BY <2>1, BackStep
  <2>3. Ascending(f[o], T(o))
    BY <1>5, <2>2, Zenon
  <2>4. QED BY <2>3
<1>7. \A o \in Int : o \in D
  <2>1. \A o \in Int : (o >= low => o - p \in D) => o \in D
    BY <1>6, Zenon
  <2> HIDE DEF D
  <2>2. QED BY <2>1, DownInduction
<1>8. QED BY <1>7

LEMMA LoopAheadIs ==
  ASSUME NEW A \in SUBSET Int, NEW B, NEW p \in Nat \ {0}, NEW high \in Int
  PROVE  /\ \E g : g = LoopAhead(g, A, B, p, high)
         /\ \A f : f = LoopAhead(f, A, B, p, high) => \A o \in Int : Ascending(f[o], Ahead(A, B, p, high, o))
<1> DEFINE T(o) == Ahead(A, B, p, high, o)
           Fix(g) == g = LoopAhead(g, A, B, p, high)
           listed == [o \in Int |-> Listed(T(o))]
           S == {o \in Int : \E s : Ascending(s, T(o))}
<1>1. ASSUME NEW o \in Int, o + p <= high => o + p \in S PROVE o \in S
  <2> DEFINE f == [x \in Int |-> CHOOSE s : Ascending(s, T(x))]
  <2>1. o + p <= high => Ascending(f[o + p], T(o + p))
    BY <1>1, Zenon
  <2> HIDE DEF f
  <2>2. Ascending(LoopAhead(f, A, B, p, high)[o], T(o))
    BY <2>1, AheadAgain
  <2>3. QED BY <2>2, Zenon
<1>2. \A o \in Int : \E s : Ascending(s, T(o))
  <2> HIDE DEF T
  <2>1. \A o \in Int : (o + p <= high => o + p \in S) => o \in S
    BY <1>1, Zenon
  <2> HIDE DEF S
  <2>2. \A o \in Int : o \in S
    BY <2>1, UpInduction
  <2>3. QED BY <2>2 DEF S
<1>3. ASSUME NEW o \in Int PROVE Ascending(Listed(T(o)), T(o)) /\ listed[o] = Listed(T(o))
  BY <1>2, AscendingIsListed, Zenon
<1>4. Fix(listed)
  <2> HIDE DEF T, listed
  <2>1. ASSUME NEW o \in Int PROVE LoopAhead(listed, A, B, p, high)[o] = listed[o]
    <3>1. o + p \in Int
      OBVIOUS
    <3>2. Ascending(listed[o + p], T(o + p))
      BY <1>3, <3>1, Zenon
    <3>3. Ascending(LoopAhead(listed, A, B, p, high)[o], T(o))
      BY <3>2, AheadAgain DEF T
    <3>4. QED BY <1>3, <3>3, AscendingIsListed, Zenon
  <2>2. listed = [o \in Int |-> listed[o]]
    BY DEF listed
  <2>3. LoopAhead(listed, A, B, p, high) = [o \in Int |-> LoopAhead(listed, A, B, p, high)[o]]
    BY Zenon DEF LoopAhead
  <2>4. QED BY <2>1, <2>2, <2>3
<1> HIDE DEF listed
<1>5. SUFFICES ASSUME NEW f, f = LoopAhead(f, A, B, p, high)
                PROVE  \A o \in Int : Ascending(f[o], T(o))
  BY <1>4, Zenon
<1> DEFINE D == {o \in Int : Ascending(f[o], T(o))}
<1>6. ASSUME NEW o \in Int, o + p <= high => o + p \in D PROVE o \in D
  <2>1. o + p <= high => Ascending(f[o + p], T(o + p))
    BY <1>6
  <2>2. Ascending(LoopAhead(f, A, B, p, high)[o], T(o))
    BY <2>1, AheadAgain
  <2>3. Ascending(f[o], T(o))
    BY <1>5, <2>2, Zenon
  <2>4. QED BY <2>3
<1>7. \A o \in Int : o \in D
  <2>1. \A o \in Int : (o + p <= high => o + p \in D) => o \in D
    BY <1>6, Zenon
  <2> HIDE DEF D
  <2>2. QED BY <2>1, UpInduction
<1>8. QED BY <1>7

-------------------------------------------------------------------------------
(* The members of a unit: the packets from one start up to the next.          *)

\* The packets of the range, of those in A, that are whole packets away from a.
WithinScan(A, p, low, high, a) == {o \in low .. high - p : o % p = a % p /\ o \in A}

StartAmong(C, B, o) == Max({s \in C : s <= o /\ s \in B} \cup {Nowhere})

OwnStart(C, B, o) == IF o \in B THEN o ELSE StartAmong(C, B, o)

UnitMembers(C, B, a) == {o \in C \cup {a} : OwnStart(C, B, a) = OwnStart(C, B, o)}

\* The start before a packet is the last one, if there is one.
LEMMA StartAmongIs ==
  ASSUME NEW C \in SUBSET Nat, NEW B, NEW o \in Nat
  PROVE  /\ \/ /\ StartAmong(C, B, o) = Nowhere
               /\ \A s \in C \cap B : ~(s <= o)
            \/ /\ StartAmong(C, B, o) \in C \cap B /\ StartAmong(C, B, o) <= o
               /\ \A s \in C \cap B : s <= o => s <= StartAmong(C, B, o)
         /\ StartAmong(C, B, o) \in Int /\ StartAmong(C, B, o) <= o
<1> DEFINE S == {s \in C : s <= o /\ s \in B}
           U == S \cup {-1}
<1>1. StartAmong(C, B, o) = Max(U)
  BY DEF StartAmong, Nowhere
<1>2. S \in SUBSET Nat /\ \A s \in S : s <= o
  OBVIOUS
<1>3. CASE S = {}
  <2>1. U = {-1}
    BY <1>3
  <2>2. Max({-1}) = -1
    BY DEF Max
  <2>3. QED BY <1>1, <1>3, <2>1, <2>2 DEF Nowhere
<1>4. CASE S # {}
  <2> HIDE DEF S
  <2>1. PICK m \in S : \A s \in S : s <= m
    BY <1>2, <1>4, GreatestNatural
  <2>2. \A x \in U : x \in Int
    BY <1>2
  <2>3. m \in U /\ m \in Nat /\ \A y \in U : m >= y
    BY <1>2, <2>1
  <2>4. \A x \in U : (\A y \in U : x >= y) => x = m
    <3> HIDE DEF U
    <3>1. QED BY <2>2, <2>3
  <2> HIDE DEF U
  <2>5. Max(U) = m
    BY <2>3, <2>4 DEF Max
  <2>6. m \in C \cap B /\ m <= o /\ \A s \in C \cap B : s <= o => s <= m
    BY <2>1 DEF S
  <2>7. QED BY <1>1, <2>3, <2>5, <2>6
<1>5. QED BY <1>3, <1>4

\* The same of the start a packet belongs to.
LEMMA OwnStartIs ==
  ASSUME NEW C \in SUBSET Nat, NEW B, NEW o \in Nat
  PROVE  /\ OwnStart(C, B, o) \in Int /\ OwnStart(C, B, o) <= o
         /\ o \in B => OwnStart(C, B, o) = o
         /\ \/ /\ OwnStart(C, B, o) = Nowhere
               /\ \A s \in C \cap B : ~(s <= o)
            \/ /\ OwnStart(C, B, o) \in B /\ OwnStart(C, B, o) \in Nat
               /\ OwnStart(C, B, o) = o \/ OwnStart(C, B, o) \in C
               /\ \A s \in C \cap B : s <= o => s <= OwnStart(C, B, o)
<1> DEFINE own == OwnStart(C, B, o)
           start == StartAmong(C, B, o)
<1>1. own = IF o \in B THEN o ELSE start
  BY DEF OwnStart
<1>2. /\ \/ start = Nowhere /\ \A s \in C \cap B : ~(s <= o)
         \/ start \in C \cap B /\ start <= o /\ \A s \in C \cap B : s <= o => s <= start
      /\ start \in Int /\ start <= o
  BY StartAmongIs
<1> HIDE DEF own, start
<1>3. CASE o \in B
  BY <1>1, <1>3 DEF own
<1>4. CASE o \notin B
  <2>1. own = start
    BY <1>1, <1>4
  <2>2. CASE start = Nowhere /\ \A s \in C \cap B : ~(s <= o)
    BY <1>2, <1>4, <2>1, <2>2 DEF own
  <2>3. CASE start \in C \cap B /\ start <= o /\ \A s \in C \cap B : s <= o => s <= start
    BY <1>2, <1>4, <2>1, <2>3 DEF own
  <2>4. QED BY <1>2, <2>2, <2>3
<1>5. QED BY <1>3, <1>4

\* What is behind and ahead of a packet, of those in the range.
LEMMA BehindIs ==
  ASSUME NEW A \in SUBSET Int, NEW B, NEW p \in Nat \ {0}, NEW low \in Nat, NEW high \in Int,
         NEW a \in Nat, a < high
  PROVE  \A o : o \in Behind(A, B, p, low, a - p) <=>
                /\ o \in WithinScan(A, p, low, high, a) /\ o < a
                /\ \A s \in WithinScan(A, p, low, high, a) \cap B : s < a => s <= o
<1> DEFINE C == WithinScan(A, p, low, high, a)
           T == Behind(A, B, p, low, a - p)
           R(o) == o % p
           U == {o \in C : o < a /\ \A s \in C \cap B : s < a => s <= o}
<1>0. a \in Int
  OBVIOUS
<1>1. \A o \in Int : R(o) = R(a) /\ o < a => o + p <= a
  BY <1>0, StepsApart, Zenon
<1>2. R(a - p) = R(a)
  BY <1>0, StepsApart, Zenon
<1>3. C = {o \in low .. high - p : R(o) = R(a) /\ o \in A}
  BY Zenon DEF WithinScan
<1>4. T = {c \in Int : /\ low <= c /\ c <= a - p /\ R(c) = R(a - p) /\ c \in A
                       /\ \A s \in A \cap B : R(s) = R(a - p) /\ s <= a - p => s <= c}
  BY Zenon DEF Behind
<1> HIDE DEF C, T, R
<1>5. \A o : o \in C <=> o \in Int /\ low <= o /\ o <= high - p /\ R(o) = R(a) /\ o \in A
  BY <1>3
<1>6. \A o : o \in T <=> /\ o \in Int /\ low <= o /\ o <= a - p /\ R(o) = R(a) /\ o \in A
                         /\ \A s \in A \cap B : R(s) = R(a) /\ s <= a - p => s <= o
  BY <1>2, <1>4
<1>7. ASSUME NEW o \in T PROVE o \in U
  <2>1. o \in C /\ o < a
    BY <1>5, <1>6
  <2>2. ASSUME NEW s \in C \cap B, s < a PROVE s <= o
    <3>1. s \in A \cap B /\ s \in Int /\ R(s) = R(a)
      BY <1>5
    <3>2. s <= a - p
      BY <1>1, <2>2, <3>1
    <3>3. QED BY <1>6, <3>1, <3>2
  <2>3. QED BY <2>1, <2>2
<1>8. ASSUME NEW o \in U PROVE o \in T
  <2>1. o \in Int /\ low <= o /\ R(o) = R(a) /\ o \in A /\ o < a
    BY <1>5
  <2>2. o <= a - p
    BY <1>1, <2>1
  <2>3. ASSUME NEW s \in A \cap B, R(s) = R(a), s <= a - p PROVE s <= o
    <3>1. s \in Int
      OBVIOUS
    <3>2. CASE s < low
      BY <2>1, <3>1, <3>2
    <3>3. CASE s >= low
      <4>1. s \in C /\ s < a
        BY <1>5, <2>3, <3>1, <3>3
      <4>2. QED BY <4>1
    <3>4. QED BY <3>1, <3>2, <3>3
  <2>4. QED BY <1>6, <2>1, <2>2, <2>3
<1>9. \A o : o \in T <=> o \in U
  BY <1>7, <1>8, Zenon
<1>10. QED BY <1>9 DEF C, T

LEMMA AheadIs ==
  ASSUME NEW A \in SUBSET Int, NEW B, NEW p \in Nat \ {0}, NEW low \in Nat, NEW high \in Int,
         NEW a \in Nat, low <= a
  PROVE  \A o : o \in Ahead(A, B, p, high, a + p) <=>
                /\ o \in WithinScan(A, p, low, high, a) /\ a < o
                /\ \A s \in WithinScan(A, p, low, high, a) \cap B : a < s => o < s
<1> DEFINE C == WithinScan(A, p, low, high, a)
           T == Ahead(A, B, p, high, a + p)
           R(o) == o % p
           U == {o \in C : a < o /\ \A s \in C \cap B : a < s => o < s}
<1>0. a \in Int
  OBVIOUS
<1>1. \A o \in Int : R(o) = R(a) /\ a < o => a + p <= o
  <2>1. TAKE o \in Int
  <2>2. a % p = o % p => (a < o => a + p <= o)
    BY <1>0, StepsApart, Zenon
  <2>3. QED BY <2>2, Zenon
<1>2. R(a + p) = R(a)
  BY <1>0, StepsApart, Zenon
<1>3. C = {o \in low .. high - p : R(o) = R(a) /\ o \in A}
  BY Zenon DEF WithinScan
<1>4. T = {c \in Int : /\ a + p <= c /\ c + p <= high /\ R(c) = R(a + p) /\ c \in A
                       /\ \A s \in A \cap B : R(s) = R(a + p) /\ a + p <= s => c < s}
  BY Zenon DEF Ahead
<1> HIDE DEF C, T, R
<1>5. \A o : o \in C <=> o \in Int /\ low <= o /\ o <= high - p /\ R(o) = R(a) /\ o \in A
  BY <1>3
<1>6. \A o : o \in T <=> /\ o \in Int /\ a + p <= o /\ o + p <= high /\ R(o) = R(a) /\ o \in A
                         /\ \A s \in A \cap B : R(s) = R(a) /\ a + p <= s => o < s
  BY <1>2, <1>4
<1>7. ASSUME NEW o \in T PROVE o \in U
  <2>1. o \in C /\ a < o
    BY <1>5, <1>6
  <2>2. ASSUME NEW s \in C \cap B, a < s PROVE o < s
    <3>1. s \in A \cap B /\ s \in Int /\ R(s) = R(a)
      BY <1>5
    <3>2. a + p <= s
      BY <1>1, <2>2, <3>1
    <3>3. QED BY <1>6, <3>1, <3>2
  <2>3. QED BY <2>1, <2>2
<1>8. ASSUME NEW o \in U PROVE o \in T
  <2>1. o \in Int /\ o <= high - p /\ R(o) = R(a) /\ o \in A /\ a < o
    BY <1>5
  <2>2. a + p <= o
    BY <1>1, <2>1
  <2>3. ASSUME NEW s \in A \cap B, R(s) = R(a), a + p <= s PROVE o < s
    <3>1. s \in Int /\ a < s
      BY <2>3
    <3>2. CASE s > high - p
      BY <2>1, <3>1, <3>2
    <3>3. CASE s <= high - p
      <4>1. s \in C
        BY <1>5, <2>3, <3>1, <3>3
      <4>2. QED BY <3>1, <4>1
    <3>4. QED BY <3>1, <3>2, <3>3
  <2>4. QED BY <1>6, <2>1, <2>2, <2>3
<1>9. \A o : o \in T <=> o \in U
  BY <1>7, <1>8, Zenon
<1>10. QED BY <1>9 DEF C, T

\* The members of a unit below and above one of them.
LEMMA MembersAre ==
  ASSUME NEW A \in SUBSET Int, NEW B, NEW p \in Nat \ {0}, NEW low \in Nat, NEW high \in Int,
         NEW a \in Nat, low <= a, a < high, a \in A,
         NEW C, C = WithinScan(A, p, low, high, a), NEW members, members = UnitMembers(C, B, a)
  PROVE  /\ {o \in members : o < a} = IF a \in B THEN {} ELSE Behind(A, B, p, low, a - p)
         /\ {o \in members : o > a} = Ahead(A, B, p, high, a + p)
         /\ a \in members /\ members \in SUBSET Nat /\ C \in SUBSET Nat
<1> DEFINE own(o) == OwnStart(C, B, o)
           R(o) == o % p
<1>0. C = WithinScan(A, p, low, high, a)
  OBVIOUS
<1>1. \A o : o \in Behind(A, B, p, low, a - p) <=>
               o \in C /\ o < a /\ \A s \in C \cap B : s < a => s <= o
  <2>1. \A o : o \in Behind(A, B, p, low, a - p) <=>
                /\ o \in WithinScan(A, p, low, high, a) /\ o < a
                /\ \A s \in WithinScan(A, p, low, high, a) \cap B : s < a => s <= o
    BY BehindIs
  <2>2. QED BY <1>0, <2>1, Zenon
<1>2. \A o : o \in Ahead(A, B, p, high, a + p) <=>
               o \in C /\ a < o /\ \A s \in C \cap B : a < s => o < s
  <2>1. \A o : o \in Ahead(A, B, p, high, a + p) <=>
                /\ o \in WithinScan(A, p, low, high, a) /\ a < o
                /\ \A s \in WithinScan(A, p, low, high, a) \cap B : a < s => o < s
    BY AheadIs
  <2>2. QED BY <1>0, <2>1, Zenon
<1>3. C \in SUBSET Nat
  BY <1>0 DEF WithinScan
<1>4. a \in C \/ \A o \in C : o < a
  <2>1. CASE a + p <= high
    <3>1. a \in low .. high - p
      BY <2>1
    <3>2. QED BY <1>0, <3>1 DEF WithinScan
  <2>2. CASE a + p > high
    <3>1. \A o \in low .. high - p : o < a
      BY <2>2
    <3>2. QED BY <1>0, <3>1 DEF WithinScan
  <2>3. QED BY <2>1, <2>2
<1>5. members = {o \in C \cup {a} : own(a) = own(o)}
  BY Zenon DEF UnitMembers
<1>6. \A o \in Nat :
        /\ own(o) \in Int /\ own(o) <= o
        /\ o \in B => own(o) = o
        /\ \/ own(o) = Nowhere /\ \A s \in C \cap B : ~(s <= o)
           \/ /\ own(o) \in B /\ own(o) \in Nat
              /\ own(o) = o \/ own(o) \in C
              /\ \A s \in C \cap B : s <= o => s <= own(o)
  BY <1>3, OwnStartIs
<1> HIDE DEF own
<1>7. \A o \in C : o \in Nat
  BY <1>3
<1>8. \A o, q \in Nat : own(o) # Nowhere /\ own(o) <= q /\ o \in C => own(o) <= own(q)
  BY <1>6, <1>7
\* Below.
<1>9. ASSUME NEW o \in C, o < a
      PROVE  own(a) = own(o) <=> a \notin B /\ \A s \in C \cap B : s < a => s <= o
  <2>1. o \in Nat
    BY <1>7
  <2>2. CASE a \in B
    <3>1. own(a) = a /\ own(o) <= o
      BY <1>6, <2>1, <2>2
    <3>2. QED BY <1>6, <1>9, <2>1, <2>2, <3>1
  <2>3. CASE a \notin B
    <3>1. ASSUME own(a) = own(o), NEW s \in C \cap B, s < a PROVE s <= o
      <4>1. s \in Nat /\ s <= a
        BY <1>7, <3>1
      <4>2. own(a) # Nowhere /\ s <= own(a)
        BY <1>6, <4>1 DEF Nowhere
      <4>3. own(o) <= o /\ own(o) \in Int
        BY <1>6, <2>1
      <4>4. QED BY <2>1, <3>1, <4>1, <4>2, <4>3
    <3>2. ASSUME \A s \in C \cap B : s < a => s <= o PROVE own(a) = own(o)
      <4>1. \A s \in C \cap B : s <= a <=> s <= o
        <5>1. TAKE s \in C \cap B
        <5>2. s \in Nat /\ s # a
          BY <1>7, <2>3
        <5>3. QED BY <1>9, <2>1, <3>2, <5>2
      <4>2. CASE own(a) = Nowhere
        <5>1. \A s \in C \cap B : ~(s <= a)
          <6>1. own(a) \notin Nat
            BY <4>2 DEF Nowhere
          <6>2. QED BY <1>6, <6>1
        <5>2. ~(own(o) \in B /\ own(o) \in Nat)
          <6>1. own(o) \in C /\ own(o) \in B => ~(own(o) <= o)
            BY <4>1, <5>1
          <6>2. QED BY <1>6, <1>9, <2>1, <4>1, <5>1, <6>1 DEF Nowhere
        <5>3. QED BY <1>6, <2>1, <4>2, <5>2
      <4>3. CASE own(a) # Nowhere
        <5>1. own(a) \in C \cap B /\ own(a) <= a /\ \A s \in C \cap B : s <= a => s <= own(a)
          BY <1>6, <2>3, <4>3
        <5>2. own(a) <= o
          BY <4>1, <5>1
        <5>3. own(o) \in C \cap B /\ own(o) <= o /\ \A s \in C \cap B : s <= o => s <= own(o)
          BY <1>6, <1>9, <2>1, <5>1, <5>2
        <5>4. own(a) <= own(o) /\ own(o) <= own(a)
          BY <4>1, <5>1, <5>2, <5>3
        <5>5. QED BY <1>6, <2>1, <5>4
      <4>4. QED BY <4>2, <4>3
    <3>3. QED BY <2>3, <3>1, <3>2
  <2>4. QED BY <2>2, <2>3
\* Above.
<1>10. ASSUME NEW o \in C, a < o
       PROVE  own(a) = own(o) <=> \A s \in C \cap B : a < s => o < s
  <2>1. o \in Nat /\ a \in C
    BY <1>4, <1>7, <1>10
  <2>2. ASSUME own(a) = own(o), NEW s \in C \cap B, a < s PROVE o < s
    <3>1. s \in Nat /\ own(a) <= a /\ own(a) \in Int
      BY <1>6, <1>7
    <3>2. CASE s <= o
      <4>1. s <= own(o)
        BY <1>6, <2>1, <3>1, <3>2
      <4>2. QED BY <2>2, <3>1, <4>1
    <3>3. QED BY <2>1, <3>1, <3>2
  <2>3. ASSUME \A s \in C \cap B : a < s => o < s PROVE own(a) = own(o)
    <3>1. \A s \in C \cap B : s <= a <=> s <= o
      <4>1. TAKE s \in C \cap B
      <4>2. s \in Nat
        BY <1>7
      <4>3. QED BY <1>10, <2>1, <2>3, <4>2
    <3>2. CASE own(o) = Nowhere
      <4>1. \A s \in C \cap B : ~(s <= o)
        <5>1. own(o) \notin Nat
          BY <3>2 DEF Nowhere
        <5>2. QED BY <1>6, <2>1, <5>1
      <4>2. ~(own(a) \in B /\ own(a) \in Nat)
        <5>1. own(a) \in C /\ own(a) \in B => ~(own(a) <= a)
          BY <3>1, <4>1
        <5>2. QED BY <1>6, <2>1, <5>1 DEF Nowhere
      <4>3. QED BY <1>6, <3>2, <4>2
    <3>3. CASE own(o) # Nowhere
      <4>1. own(o) \in C \cap B /\ own(o) <= o /\ \A s \in C \cap B : s <= o => s <= own(o)
        BY <1>6, <2>1, <3>3
      <4>2. own(o) <= a
        BY <3>1, <4>1
      <4>3. own(a) \in C \cap B /\ own(a) <= a /\ \A s \in C \cap B : s <= a => s <= own(a)
        BY <1>6, <2>1, <4>1, <4>2
      <4>4. own(a) <= own(o) /\ own(o) <= own(a)
        BY <3>1, <4>1, <4>2, <4>3
      <4>5. QED BY <1>6, <2>1, <4>4
    <3>4. QED BY <3>2, <3>3
  <2>4. QED BY <2>2, <2>3
<1>11. {o \in members : o < a} = IF a \in B THEN {} ELSE Behind(A, B, p, low, a - p)
  <2>1. \A o : o \in members /\ o < a <=> o \in C /\ o < a /\ own(a) = own(o)
    BY <1>5
  <2>2. QED BY <1>1, <1>9, <2>1
<1>12. {o \in members : o > a} = Ahead(A, B, p, high, a + p)
  <2>1. \A o : o \in members /\ o > a <=> o \in C /\ a < o /\ own(a) = own(o)
    BY <1>5, <1>7
  <2>2. QED BY <1>2, <1>10, <2>1
<1>13. a \in members /\ members \in SUBSET Nat
  BY <1>5, <1>7
<1>14. QED BY <1>3, <1>11, <1>12, <1>13, Zenon

\* The start of a unit is the first of its members, and no other of them is a start.
LEMMA FirstMember ==
  ASSUME NEW C \in SUBSET Nat, NEW B, NEW a \in Nat, NEW m \in UnitMembers(C, B, a),
         \A o \in UnitMembers(C, B, a) : m <= o
  PROVE  /\ m \in B <=> OwnStart(C, B, a) # Nowhere
         /\ m \in B => OwnStart(C, B, a) = m
<1> DEFINE own(o) == OwnStart(C, B, o)
           members == UnitMembers(C, B, a)
<1>1. \A o \in Nat :
        /\ own(o) \in Int /\ own(o) <= o
        /\ o \in B => own(o) = o
        /\ \/ own(o) = Nowhere
           \/ /\ own(o) \in B /\ own(o) \in Nat
              /\ own(o) = o \/ own(o) \in C
  BY OwnStartIs
<1>2. members = {o \in C \cup {a} : own(a) = own(o)}
  BY Zenon DEF UnitMembers
<1>3. m \in members /\ \A o \in members : m <= o
  OBVIOUS
<1> HIDE DEF own, members
<1>4. m \in Nat /\ own(a) = own(m)
  BY <1>2, <1>3
<1>5. m \in B => own(a) = m /\ own(a) # Nowhere
  BY <1>1, <1>4 DEF Nowhere
<1>6. ASSUME own(a) # Nowhere PROVE m \in B
  <2>1. own(a) \in B /\ own(a) \in Nat /\ (own(a) = a \/ own(a) \in C)
    BY <1>1, <1>6
  <2>2. own(own(a)) = own(a)
    BY <1>1, <2>1
  <2>3. own(a) \in members
    BY <1>2, <2>1, <2>2
  <2>4. m <= own(a) /\ own(a) <= m
    BY <1>1, <1>3, <1>4, <2>3
  <2>5. m = own(a)
    BY <1>4, <2>1, <2>4
  <2>6. QED BY <2>1, <2>5
<1>7. QED BY <1>5, <1>6 DEF own

\* The packets from a start on.
LEMMA CarriedAre ==
  ASSUME NEW A \in SUBSET Int, NEW B, NEW p \in Nat \ {0}, NEW low \in Nat, NEW high \in Int,
         NEW a \in Nat, low <= a, a < high, a \in A, a \in B
  PROVE  LET C == WithinScan(A, p, low, high, a)
         IN {a} \cup {o \in C : StartAmong(C, B, o) = a} = {a} \cup Ahead(A, B, p, high, a + p)
<1> DEFINE C == WithinScan(A, p, low, high, a)
           start(o) == StartAmong(C, B, o)
<1>0. C = WithinScan(A, p, low, high, a)
  OBVIOUS
<1> HIDE DEF C
<1>1. \A o : o \in Ahead(A, B, p, high, a + p) <=>
               o \in C /\ a < o /\ \A s \in C \cap B : a < s => o < s
  <2>1. \A o : o \in Ahead(A, B, p, high, a + p) <=>
                /\ o \in WithinScan(A, p, low, high, a) /\ a < o
                /\ \A s \in WithinScan(A, p, low, high, a) \cap B : a < s => o < s
    BY AheadIs
  <2>2. QED BY <1>0, <2>1, Zenon
<1>2. C \in SUBSET Nat
  BY <1>0 DEF WithinScan
<1>3. a \in C \/ \A o \in C : o < a
  <2>1. CASE a + p <= high
    <3>1. a \in low .. high - p
      BY <2>1
    <3>2. QED BY <1>0, <3>1 DEF WithinScan
  <2>2. CASE a + p > high
    <3>1. \A o \in low .. high - p : o < a
      BY <2>2
    <3>2. QED BY <1>0, <3>1 DEF WithinScan
  <2>3. QED BY <2>1, <2>2
<1>4. \A o \in Nat :
        /\ \/ start(o) = Nowhere /\ \A s \in C \cap B : ~(s <= o)
           \/ /\ start(o) \in C \cap B /\ start(o) <= o
              /\ \A s \in C \cap B : s <= o => s <= start(o)
        /\ start(o) \in Int /\ start(o) <= o
  BY <1>2, StartAmongIs
<1> HIDE DEF start
<1>5. ASSUME NEW o \in C, o # a
      PROVE  start(o) = a <=> a < o /\ \A s \in C \cap B : a < s => o < s
  <2>1. o \in Nat /\ \A s \in C \cap B : s \in Nat
    BY <1>2
  <2>2. ASSUME start(o) = a PROVE a < o /\ \A s \in C \cap B : a < s => o < s
    <3>1. a <= o /\ start(o) # Nowhere
      BY <1>4, <2>1, <2>2 DEF Nowhere
    <3>2. \A s \in C \cap B : s <= o => s <= a
      BY <1>4, <2>1, <2>2, <3>1
    <3>3. QED BY <1>5, <2>1, <3>1, <3>2
  <2>3. ASSUME a < o, \A s \in C \cap B : a < s => o < s PROVE start(o) = a
    <3>1. a \in C \cap B /\ a <= o
      BY <1>3, <2>1, <2>3
    <3>2. start(o) \in C \cap B /\ start(o) <= o /\ a <= start(o) /\ start(o) \in Nat
      BY <1>4, <2>1, <3>1
    <3>3. ~(a < start(o))
      <4>1. a < start(o) => o < start(o)
        BY <2>3, <3>2
      <4>2. QED BY <2>1, <3>2, <4>1
    <3>4. QED BY <2>1, <3>2, <3>3
  <2>4. QED BY <2>2, <2>3
<1>6. {a} \cup {o \in C : start(o) = a} = {a} \cup Ahead(A, B, p, high, a + p)
  BY <1>1, <1>5
<1>7. QED BY <1>6 DEF C, start

-------------------------------------------------------------------------------
(* The state: the file, the scan range and the offset asked for.              *)

RequestTyped ==
  /\ request.phase \in 0 .. UnitPacketSize - 1 /\ request.rest \in 0 .. UnitPacketSize - 1
  /\ request.offset \in Nat /\ request.limit \in Nat
  /\ Len(request.packets) \in Nat
  /\ \A i \in 1 .. Len(request.packets) :
       request.packets[i].length \in Nat /\ IsBytes(request.packets[i].bytes)

OnGrid(o) == (o - request.phase) % UnitPacketSize = 0

\* The packets of a PID that have a payload, and those in which a unit starts.
Carrying(pid) == {o \in Int : Same(o, pid)}

Starting == {o \in Int : PacketAt(o).start}

\* Where the scan range is.
LEMMA RangeTyped ==
  ASSUME RequestTyped
  PROVE  /\ UnitPacketSize \in Nat \ {0} /\ FileSize \in Nat
         /\ RangeStart \in Nat /\ RangeEnd \in Nat
<1> DEFINE p == UnitPacketSize
           rem == (request.offset - request.phase) % p
<1>1. p \in Nat \ {0} /\ request.phase \in 0 .. p - 1 /\ request.rest \in 0 .. p - 1
      /\ request.offset \in Nat /\ request.limit \in Nat /\ Len(request.packets) \in Nat
  BY UnitAssumption DEF RequestTyped
<1>2. FileSize \in Nat
  <2>1. p * Len(request.packets) \in Nat
    BY <1>1
  <2>2. QED BY <1>1, <2>1 DEF FileSize
<1>3. RangeStart \in Nat
  <2>1. request.offset - request.phase \in Int
    BY <1>1
  <2>2. rem \in 0 .. p - 1
    BY <1>1, <2>1
  <2> HIDE DEF rem
  <2>3. RangeStart = IF rem = 0 THEN request.offset ELSE request.offset + p - rem
    BY DEF RangeStart, AlignedUp, rem
  <2>4. QED BY <1>1, <2>2, <2>3
<1>4. RangeEnd \in Nat
  <2>1. Min({FileSize, request.offset + request.limit}) \in {FileSize, request.offset + request.limit}
    BY <1>1, <1>2, MinPair
  <2>2. QED BY <1>1, <1>2, <2>1 DEF RangeEnd
<1>5. QED BY <1>1, <1>2, <1>3, <1>4

\* A packet lies at the phase.
LEMMA GridIs ==
  ASSUME RequestTyped, NEW o \in Int
  PROVE  /\ OnGrid(o) <=> o % UnitPacketSize = request.phase
         /\ AlignedUp(o) = o <=> OnGrid(o)
<1> DEFINE p == UnitPacketSize
           r == request.phase
           x == o - r
<1>1. p \in Nat \ {0} /\ r \in 0 .. p - 1 /\ x \in Int
  BY UnitAssumption DEF RequestTyped
<1> HIDE DEF p, r
<1>2. ASSUME x % p = 0 PROVE o % p = r
  <2>1. x \div p \in Int /\ x = p * (x \div p) + 0
    BY <1>1, <1>2
  <2>2. o = p * (x \div p) + r
    BY <1>1, <2>1
  <2> DEFINE q == x \div p
  <2> HIDE DEF q, x
  <2>3. q \in Int /\ o = p * q + r
    BY <2>1, <2>2 DEF q
  <2>4. QED BY <1>1, <2>3, RemainderIs
<1>3. ASSUME o % p = r PROVE x % p = 0
  <2> DEFINE q == o \div p
  <2>1. q \in Int /\ o = p * q + r
    BY <1>1, <1>3
  <2> HIDE DEF q
  <2>2. x = p * q + 0 /\ 0 \in 0 .. p - 1
    BY <1>1, <2>1
  <2> DEFINE y == x
  <2> HIDE DEF y
  <2>3. y = p * q + 0 /\ y \in Int
    BY <1>1, <2>2 DEF y
  <2>4. y % p = 0
    BY <1>1, <2>1, <2>2, <2>3, RemainderIs
  <2>5. QED BY <2>4 DEF y
<1>4. AlignedUp(o) = o <=> x % p = 0
  <2> DEFINE rem == x % p
  <2>1. rem \in 0 .. p - 1
    BY <1>1
  <2>2. AlignedUp(o) = IF rem = 0 THEN o ELSE o + p - rem
    BY DEF AlignedUp, p, r
  <2> HIDE DEF rem
  <2>3. AlignedUp(o) = o <=> rem = 0
    BY <1>1, <2>1, <2>2
  <2>4. QED BY <2>3 DEF rem
<1>5. OnGrid(o) <=> x % p = 0
  BY Zenon DEF OnGrid, p, r
<1>6. QED BY <1>2, <1>3, <1>4, <1>5, Zenon DEF p, r

\* A packet that can be read is one of the file.
LEMMA PacketTyped ==
  ASSUME RequestTyped, NEW o \in Nat, OnGrid(o), Readable(o)
  PROVE  PacketAt(o).length \in Nat /\ IsBytes(PacketAt(o).bytes)
<1> DEFINE p == UnitPacketSize
           r == request.phase
           q == (o - r) \div p
           n == Len(request.packets)
<1>1. p \in Nat \ {0} /\ r \in 0 .. p - 1 /\ n \in Nat /\ request.rest \in 0 .. p - 1
  BY UnitAssumption DEF RequestTyped
<1>2. o + p <= r + p * n + request.rest
  BY Zenon DEF Readable, FileSize
<1>3. q \in Int /\ o = p * q + r
  <2>1. (o - r) % p = 0 /\ o - r \in Int
    BY <1>1 DEF OnGrid
  <2> HIDE DEF p, r
  <2>2. q \in Int /\ o - r = p * q + 0
    BY <1>1, <2>1
  <2>3. QED BY <1>1, <2>2
<1>4. PacketAt(o) = request.packets[q + 1]
  BY Zenon DEF PacketAt
<1> HIDE DEF p, q, r, n
<1>5. q >= 0
  <2>1. q <= -1 => p * q <= -p
    BY <1>1, <1>3
  <2>2. p * q > -p
    BY <1>1, <1>3
  <2>3. QED BY <1>1, <1>3, <2>1, <2>2
<1>6. q < n
  <2>1. p * q < p * n
    <3>1. p * q \in Int /\ p * n \in Int
      BY <1>1, <1>3
    <3>2. QED BY <1>1, <1>2, <1>3, <3>1
  <2>2. q >= n => p * q >= p * n
    BY <1>1, <1>3
  <2>3. QED BY <1>1, <1>3, <2>1, <2>2
<1>7. q + 1 \in 1 .. n
  BY <1>1, <1>3, <1>5, <1>6
<1>8. QED BY <1>4, <1>7 DEF RequestTyped, n

\* The carriers of a PID are those in the range.
LEMMA CarriersAre ==
  ASSUME RequestTyped, NEW pid, NEW a \in Int, OnGrid(a)
  PROVE  Carriers(pid) = WithinScan(Carrying(pid), UnitPacketSize, RangeStart, RangeEnd, a)
<1>1. UnitPacketSize \in Nat \ {0} /\ RangeStart \in Nat /\ RangeEnd \in Nat
  BY RangeTyped
<1>2. \A o \in Int : OnGrid(o) <=> o % UnitPacketSize = a % UnitPacketSize
  <2>1. \A o \in Int : OnGrid(o) <=> o % UnitPacketSize = request.phase
    BY GridIs, Zenon
  <2>2. a % UnitPacketSize = request.phase
    BY <2>1, Zenon
  <2>3. QED BY <2>1, <2>2, Zenon
<1> DEFINE R(o) == o % UnitPacketSize
           near == RangeStart .. RangeEnd - UnitPacketSize
<1>3. near \subseteq Int
  BY <1>1
<1>4. Carriers(pid) = {o \in near : OnGrid(o) /\ Same(o, pid)}
  BY Zenon DEF Carriers, OnGrid
<1>5. WithinScan(Carrying(pid), UnitPacketSize, RangeStart, RangeEnd, a) =
        {o \in near : R(o) = R(a) /\ o \in Carrying(pid)}
  BY Zenon DEF WithinScan
<1>6. \A o \in near : o \in Carrying(pid) <=> Same(o, pid)
  BY <1>3 DEF Carrying
<1>7. \A o \in near : OnGrid(o) <=> R(o) = R(a)
  BY <1>2, <1>3
<1> HIDE DEF near, R
<1>8. QED BY <1>4, <1>5, <1>6, <1>7

\* The start before a packet, of those.
LEMMA StartOfIs ==
  ASSUME NEW o, NEW pid, Carriers(pid) \subseteq Int
  PROVE  StartOf(o, pid) = StartAmong(Carriers(pid), Starting, o)
<1>1. \A s \in Carriers(pid) : s \in Starting <=> PacketAt(s).start
  BY DEF Starting
<1>2. {s \in Carriers(pid) : s <= o /\ PacketAt(s).start} = {s \in Carriers(pid) : s <= o /\ s \in Starting}
  BY <1>1
<1>3. QED BY <1>2, Zenon DEF StartOf, StartAmong

\* The loops of findUnit.
LEMMA BackwardIs ==
  ASSUME RequestTyped, NEW pid, NEW o \in Int
  PROVE  Ascending(Backward(o, pid), Behind(Carrying(pid), Starting, UnitPacketSize, RangeStart, o))
<1> DEFINE A == Carrying(pid)
           B == Starting
           p == UnitPacketSize
           back[x \in Int] ==
             IF x < RangeStart THEN <<>>
             ELSE IF ~Same(x, pid) THEN back[x - p]
             ELSE IF PacketAt(x).start THEN <<x>>
             ELSE Append(back[x - p], x)
           body(g) == [x \in Int |-> IF x < RangeStart THEN <<>>
                                     ELSE IF ~Same(x, pid) THEN g[x - p]
                                     ELSE IF PacketAt(x).start THEN <<x>>
                                     ELSE Append(g[x - p], x)]
<1>1. p \in Nat \ {0} /\ RangeStart \in Int
  BY RangeTyped
<1>2. \A x \in Int : (x \in A <=> Same(x, pid)) /\ (x \in B <=> PacketAt(x).start)
  BY DEF Carrying, Starting
<1>3. A \in SUBSET Int
  BY DEF Carrying
<1>4. \A g : body(g) = LoopBack(g, A, B, p, RangeStart)
  <2> HIDE DEF A, B, p
  <2>1. QED BY <1>2 DEF LoopBack
<1>5. /\ \E g : g = LoopBack(g, A, B, p, RangeStart)
      /\ \A f : f = LoopBack(f, A, B, p, RangeStart) =>
           \A x \in Int : Ascending(f[x], Behind(A, B, p, RangeStart, x))
  BY <1>1, <1>3, LoopBackIs, Zenon
<1>6. \E g : g = body(g)
  <2> HIDE DEF body
  <2>1. QED BY <1>4, <1>5, Zenon
<1>7. back = body(back)
  BY <1>6, Zenon
<1>8. Backward(o, pid) = back[o]
  BY Zenon DEF Backward
<1> HIDE DEF back, body
<1>9. QED BY <1>4, <1>5, <1>7, <1>8, Zenon

LEMMA ForwardIs ==
  ASSUME RequestTyped, NEW pid, NEW o \in Int
  PROVE  Ascending(Forward(o, pid), Ahead(Carrying(pid), Starting, UnitPacketSize, RangeEnd, o))
<1> DEFINE A == Carrying(pid)
           B == Starting
           p == UnitPacketSize
           ahead[x \in Int] ==
             IF x + p > RangeEnd THEN <<>>
             ELSE IF ~Same(x, pid) THEN ahead[x + p]
             ELSE IF PacketAt(x).start THEN <<>>
             ELSE <<x>> \o ahead[x + p]
           body(g) == [x \in Int |-> IF x + p > RangeEnd THEN <<>>
                                     ELSE IF ~Same(x, pid) THEN g[x + p]
                                     ELSE IF PacketAt(x).start THEN <<>>
                                     ELSE <<x>> \o g[x + p]]
<1>1. p \in Nat \ {0} /\ RangeEnd \in Int
  BY RangeTyped
<1>2. \A x \in Int : (x \in A <=> Same(x, pid)) /\ (x \in B <=> PacketAt(x).start)
  BY DEF Carrying, Starting
<1>3. A \in SUBSET Int
  BY DEF Carrying
<1>4. \A g : body(g) = LoopAhead(g, A, B, p, RangeEnd)
  <2> HIDE DEF A, B, p
  <2>1. QED BY <1>2 DEF LoopAhead
<1>5. /\ \E g : g = LoopAhead(g, A, B, p, RangeEnd)
      /\ \A f : f = LoopAhead(f, A, B, p, RangeEnd) =>
           \A x \in Int : Ascending(f[x], Ahead(A, B, p, RangeEnd, x))
  BY <1>1, <1>3, LoopAheadIs, Zenon
<1>6. \E g : g = body(g)
  <2> HIDE DEF body
  <2>1. QED BY <1>4, <1>5, Zenon
<1>7. ahead = body(ahead)
  BY <1>6, Zenon
<1>8. Forward(o, pid) = ahead[o]
  BY Zenon DEF Forward
<1> HIDE DEF ahead, body
<1>9. QED BY <1>4, <1>5, <1>7, <1>8, Zenon

-------------------------------------------------------------------------------
(* The unit of a packet.                                                     *)

\* What readPacketDetail gives for an offset.
UnitAt(offset) ==
  IF /\ AlignedUp(offset) = offset /\ offset \in RangeStart .. RangeEnd - 1
     /\ Readable(offset)
    THEN FindUnit(offset) ELSE NoUnit("error")

\* The parts of FindUnit.
PidOf(a) == PacketAt(a).pid
BeforeOf(a) == IF PacketAt(a).start THEN <<>> ELSE Backward(a - UnitPacketSize, PidOf(a))
AfterOf(a) == Forward(a + UnitPacketSize, PidOf(a))
ListOf(a) == BeforeOf(a) \o <<a>> \o AfterOf(a)
CarriedFrom(m, pid) == <<m>> \o Forward(m + UnitPacketSize, pid)
LengthsOf(list) == [i \in DOMAIN list |-> PacketAt(list[i]).length]

\* A packet that has a unit.
HasUnit(a) ==
  /\ a \in Nat /\ OnGrid(a) /\ RangeStart <= a /\ a < RangeEnd
  /\ Same(a, PidOf(a)) /\ Readable(a)

\* What is shown is the unit of such a packet.
LEMMA ShownIs ==
  ASSUME RequestTyped, asked \in Nat, unit = UnitAt(asked), Shows
  PROVE  HasUnit(asked) /\ unit = FindUnit(asked) /\ PidOf(asked) # NullPid /\ PacketAt(asked).length # 0
<1>1. \A k : NoUnit(k).kind = k
  BY DEF NoUnit
<1>2. unit.kind \in {"pes", "psi", "unknown"}
  BY DEF Shows
<1>3. unit # NoUnit("error") /\ unit # NoUnit("none")
  BY <1>1, <1>2
<1>4. /\ AlignedUp(asked) = asked /\ asked \in RangeStart .. RangeEnd - 1 /\ Readable(asked)
      /\ unit = FindUnit(asked)
  BY <1>3, Zenon DEF UnitAt
<1>5. ~(PacketAt(asked).pid = NullPid \/ PacketAt(asked).length = 0)
  <2>1. (PacketAt(asked).pid = NullPid \/ PacketAt(asked).length = 0) => FindUnit(asked) = NoUnit("none")
    BY Zenon DEF FindUnit
  <2>2. QED BY <1>3, <1>4, <2>1, Zenon
<1>6. OnGrid(asked)
  BY <1>4, GridIs
<1>7. PacketAt(asked).length \in Nat
  BY <1>4, <1>6, PacketTyped
<1>8. Same(asked, PidOf(asked))
  BY <1>4, <1>5, <1>7 DEF Same, PidOf
<1>9. RangeStart <= asked /\ asked < RangeEnd
  BY <1>4, RangeTyped
<1>10. QED BY <1>4, <1>5, <1>6, <1>8, <1>9 DEF HasUnit, PidOf

\* The members of its unit, in order.
MembersOf(a) == UnitMembers(Carriers(PidOf(a)), Starting, a)

LEMMA ListIs ==
  ASSUME RequestTyped, NEW a, HasUnit(a)
  PROVE  /\ Ascending(BeforeOf(a), {o \in MembersOf(a) : o < a})
         /\ Ascending(AfterOf(a), {o \in MembersOf(a) : o > a})
         /\ Ascending(ListOf(a), MembersOf(a))
         /\ Len(ListOf(a)) = Len(BeforeOf(a)) + 1 + Len(AfterOf(a))
         /\ a \in MembersOf(a) /\ MembersOf(a) \in SUBSET Nat /\ Carriers(PidOf(a)) \in SUBSET Nat
<1> DEFINE A == Carrying(PidOf(a))
           B == Starting
           p == UnitPacketSize
           low == RangeStart
           high == RangeEnd
           M == MembersOf(a)
           C == Carriers(PidOf(a))
<1>1. p \in Nat \ {0} /\ low \in Nat /\ high \in Int /\ a \in Nat /\ a \in Int /\ low <= a /\ a < high
      /\ a - p \in Int /\ a + p \in Int
  BY RangeTyped DEF HasUnit
<1>2. A \in SUBSET Int /\ a \in A
  BY <1>1 DEF Carrying, HasUnit
<1>3. C = WithinScan(A, p, low, high, a)
  BY <1>1, CarriersAre DEF HasUnit
<1>4. Ascending(Backward(a - p, PidOf(a)), Behind(A, B, p, low, a - p))
  BY <1>1, BackwardIs
<1>5. Ascending(AfterOf(a), Ahead(A, B, p, high, a + p))
  BY <1>1, ForwardIs DEF AfterOf
<1>7. M = UnitMembers(C, B, a)
  BY Zenon DEF MembersOf
<1>8. a \in B <=> PacketAt(a).start
  BY <1>1 DEF Starting
<1> HIDE DEF A, B, p, low, high, M, C
<1>9. /\ {o \in M : o < a} = IF a \in B THEN {} ELSE Behind(A, B, p, low, a - p)
      /\ {o \in M : o > a} = Ahead(A, B, p, high, a + p)
      /\ a \in M /\ M \in SUBSET Nat /\ C \in SUBSET Nat
  BY <1>1, <1>2, <1>3, <1>7, MembersAre
<1>10. Ascending(BeforeOf(a), {o \in M : o < a})
  <2>1. CASE a \in B
    <3>1. BeforeOf(a) = <<>>
      BY <1>8, <2>1 DEF BeforeOf
    <3>2. QED BY <1>9, <2>1, <3>1, AscendingNone, Zenon
  <2>2. CASE a \notin B
    <3>1. BeforeOf(a) = Backward(a - p, PidOf(a))
      BY <1>8, <2>2 DEF BeforeOf, p
    <3>2. QED BY <1>4, <1>9, <2>2, <3>1, Zenon
  <2>3. QED BY <2>1, <2>2
<1>11. Ascending(AfterOf(a), {o \in M : o > a})
  BY <1>5, <1>9, Zenon
<1>12. Ascending(BeforeOf(a) \o <<a>> \o AfterOf(a), M)
  <2> DEFINE below == {o \in M : o < a}
             above == {o \in M : o > a}
  <2>1. \A o \in M : o \in Nat
    BY <1>9
  <2>2. Ascending(<<a>>, {a}) /\ \A x \in below, y \in {a} : x < y
    BY <1>1, AscendingOne
  <2>3. Ascending(BeforeOf(a) \o <<a>>, below \cup {a})
    <3> HIDE DEF below
    <3>1. QED BY <1>10, <2>2, AscendingConcat DEF below
  <2>4. \A x \in below \cup {a}, y \in above : x < y
    BY <1>1, <2>1
  <2>5. Ascending((BeforeOf(a) \o <<a>>) \o AfterOf(a), (below \cup {a}) \cup above)
    <3> DEFINE U == below \cup {a}
               s == BeforeOf(a) \o <<a>>
    <3>1. Ascending(s, U) /\ \A x \in U, y \in above : x < y
      BY <2>3, <2>4
    <3>2. Ascending(AfterOf(a), above)
      BY <1>11
    <3> HIDE DEF U, s, above
    <3>3. Ascending(s \o AfterOf(a), U \cup above)
      BY <3>1, <3>2, AscendingConcat
    <3>4. QED BY <3>3 DEF U, s
  <2>6. (below \cup {a}) \cup above = M
    <3>1. \A o \in M : o < a \/ o = a \/ o > a
      BY <1>1, <2>1
    <3>2. QED BY <1>9, <3>1
  <2>7. QED BY <2>5, <2>6, Zenon
<1>13. Len(BeforeOf(a) \o <<a>> \o AfterOf(a)) = Len(BeforeOf(a)) + 1 + Len(AfterOf(a))
  <2>1. BeforeOf(a) \in Seq(Int) /\ AfterOf(a) \in Seq(Int)
    BY <1>10, <1>11 DEF Ascending
  <2>2. QED BY <1>1, <2>1
<1>14. QED BY <1>9, <1>10, <1>11, <1>12, <1>13, Zenon DEF M, C, ListOf

\* The fields of the unit found.
LEMMA FindUnitIs ==
  ASSUME NEW a, PidOf(a) # NullPid, PacketAt(a).length # 0
  PROVE  LET u == FindUnit(a)
             m == ListOf(a)[1]
             found == PacketAt(m).start
             isPes == found /\ StartsPes(PacketAt(m))
             carried == CarriedFrom(m, PidOf(a))
             gathered == Gathered(PacketAt(m).bytes, LengthsOf(carried))
         IN /\ u.kind = IF isPes THEN "pes" ELSE IF found THEN "psi" ELSE "unknown"
            /\ u.first = IF found THEN m ELSE Nowhere
            /\ u.position = Len(BeforeOf(a)) + 1 /\ u.count = Len(ListOf(a))
            /\ u.previous = IF BeforeOf(a) = <<>> THEN Nowhere ELSE Last(BeforeOf(a))
            /\ u.next = IF AfterOf(a) = <<>> THEN Nowhere ELSE Head(AfterOf(a))
            /\ isPes => /\ u.header = SubSeq(carried, 1, gathered.count)
                      /\ u.timestamps = UnitTimestamps(PacketAt(m).bytes, gathered.bytes)
<1> DEFINE m == ListOf(a)[1]
           found == PacketAt(m).start
           isPes == found /\ StartsPes(PacketAt(m))
           carried == CarriedFrom(m, PidOf(a))
           gathered == Gathered(PacketAt(m).bytes, LengthsOf(carried))
<1>1. FindUnit(a) =
        [kind     |-> IF isPes THEN "pes" ELSE IF found THEN "psi" ELSE "unknown",
         first    |-> IF found THEN m ELSE Nowhere,
         position |-> Len(BeforeOf(a)) + 1,
         count    |-> Len(ListOf(a)),
         previous |-> IF BeforeOf(a) = <<>> THEN Nowhere ELSE Last(BeforeOf(a)),
         next     |-> IF AfterOf(a) = <<>> THEN Nowhere ELSE Head(AfterOf(a)),
         header   |-> IF isPes THEN SubSeq(carried, 1, gathered.count) ELSE <<>>,
         timestamps |-> IF isPes THEN UnitTimestamps(PacketAt(m).bytes, gathered.bytes) ELSE NoFields]
  BY Zenon DEF FindUnit, ListOf, BeforeOf, AfterOf, PidOf, CarriedFrom, LengthsOf
<1> DEFINE u == FindUnit(a)
           stamps == UnitTimestamps(PacketAt(m).bytes, gathered.bytes)
           header == SubSeq(carried, 1, gathered.count)
<1> HIDE DEF u, stamps, header, m, found, isPes, carried, gathered
<1>2. u = [kind     |-> IF isPes THEN "pes" ELSE IF found THEN "psi" ELSE "unknown",
           first    |-> IF found THEN m ELSE Nowhere,
           position |-> Len(BeforeOf(a)) + 1,
           count    |-> Len(ListOf(a)),
           previous |-> IF BeforeOf(a) = <<>> THEN Nowhere ELSE Last(BeforeOf(a)),
           next     |-> IF AfterOf(a) = <<>> THEN Nowhere ELSE Head(AfterOf(a)),
           header   |-> IF isPes THEN header ELSE <<>>,
           timestamps |-> IF isPes THEN stamps ELSE NoFields]
  BY <1>1, Zenon DEF u, header, stamps
<1>3. /\ u.kind = IF isPes THEN "pes" ELSE IF found THEN "psi" ELSE "unknown"
      /\ u.first = IF found THEN m ELSE Nowhere
      /\ u.position = Len(BeforeOf(a)) + 1 /\ u.count = Len(ListOf(a))
      /\ u.previous = IF BeforeOf(a) = <<>> THEN Nowhere ELSE Last(BeforeOf(a))
      /\ u.next = IF AfterOf(a) = <<>> THEN Nowhere ELSE Head(AfterOf(a))
      /\ u.header = IF isPes THEN header ELSE <<>>
      /\ u.timestamps = IF isPes THEN stamps ELSE NoFields
  BY <1>2
<1>4. isPes => u.header = header /\ u.timestamps = stamps
  BY <1>3, Zenon
<1>5. QED BY <1>3, <1>4, Zenon DEF u, stamps, header, m, found, isPes, carried, gathered

\* A packet with a unit is one of the carriers, unless the end of the range cuts it.
LEMMA WholeIsCarried ==
  ASSUME RequestTyped, NEW a, HasUnit(a)
  PROVE  a \in Carriers(PidOf(a)) \/ CutByRange(a)
<1>1. RangeStart \in Nat /\ RangeEnd \in Int /\ UnitPacketSize \in Nat /\ a \in Nat /\ RangeStart <= a
  BY RangeTyped DEF HasUnit
<1>2. (a - request.phase) % UnitPacketSize = 0 /\ Same(a, PidOf(a))
  BY DEF HasUnit, OnGrid
<1>3. SUFFICES ASSUME ~(a + UnitPacketSize > RangeEnd)
               PROVE  a \in Carriers(PidOf(a))
  BY DEF CutByRange
<1>4. a \in RangeStart .. RangeEnd - UnitPacketSize
  BY <1>1, <1>3
<1>5. QED BY <1>2, <1>4, Zenon DEF Carriers

\* The unit is that of its members.
LEMMA CarriedHolds ==
  ASSUME RequestTyped, asked \in Nat, unit = UnitAt(asked)
  PROVE  UnitAsCarried
<1> DEFINE a == asked
           pid == PidOf(a)
           M == MembersOf(a)
           C == Carriers(pid)
           m == ListOf(a)[1]
           own(o) == OwnStart(C, Starting, o)
           below == {o \in M : o < a}
           above == {o \in M : o > a}
<1>1. SUFFICES ASSUME Shows
               PROVE  /\ unit.first = own(a)
                      /\ unit.count = Cardinality(M) /\ unit.position = Cardinality(below) + 1
                      /\ unit.previous = Max(below \cup {Nowhere})
                      /\ unit.next = IF above = {} THEN Nowhere ELSE Min(above)
                      /\ unit.kind = "unknown" <=> own(a) = Nowhere
  <2> DEFINE start(o) == IF PacketAt(o).start THEN o ELSE StartOf(o, pid)
             K == C \cup {o \in {a} : CutByRange(o)}
  <2>1. SUFFICES ASSUME Shows
                 PROVE  LET members == {o \in K : start(a) = start(o)}
                            lower == {o \in members : o < a}
                            higher == {o \in members : o > a}
                        IN /\ unit.first = start(a)
                           /\ unit.count = Cardinality(members) /\ unit.position = Cardinality(lower) + 1
                           /\ unit.previous = Max(lower \cup {Nowhere})
                           /\ unit.next = IF higher = {} THEN Nowhere ELSE Min(higher)
                           /\ unit.kind = "unknown" <=> start(a) = Nowhere
    BY Zenon DEF UnitAsCarried, PidOf
  <2>2. HasUnit(a)
    BY <2>1, ShownIs
  <2>3. C \in SUBSET Nat /\ a \in Nat
    BY <2>2, ListIs DEF HasUnit
  <2>4. \A o \in C \cup {a} : start(o) = own(o)
    <3>1. TAKE o \in C \cup {a}
    <3>2. o \in Int /\ C \subseteq Int
      BY <2>3
    <3>3. StartOf(o, pid) = StartAmong(C, Starting, o)
      BY <3>2, StartOfIs
    <3>4. o \in Starting <=> PacketAt(o).start
      BY <3>2 DEF Starting
    <3>5. QED BY <3>3, <3>4 DEF OwnStart
  <2>5. start(a) = own(a)
    BY <2>4
  <2>6. M = {o \in C \cup {a} : own(a) = own(o)}
    BY Zenon DEF MembersOf, UnitMembers
  <2>7. K = C \cup {a}
    <3>1. a \in C \/ CutByRange(a)
      BY <2>2, <2>3, WholeIsCarried
    <3>2. {o \in {a} : CutByRange(o)} = IF CutByRange(a) THEN {a} ELSE {}
      OBVIOUS
    <3> HIDE DEF C, a
    <3>3. QED BY <3>1, <3>2
  <2> HIDE DEF start, own, C, a, K
  <2>8. {o \in K : start(a) = start(o)} = M
    BY <2>4, <2>5, <2>6, <2>7
  <2>9. QED BY <1>1, <2>1, <2>5, <2>8, Zenon
<1>2. HasUnit(a) /\ unit = FindUnit(a) /\ pid # NullPid /\ PacketAt(a).length # 0
  BY <1>1, ShownIs
<1>3. /\ Ascending(BeforeOf(a), below) /\ Ascending(AfterOf(a), above) /\ Ascending(ListOf(a), M)
      /\ Len(ListOf(a)) = Len(BeforeOf(a)) + 1 + Len(AfterOf(a))
      /\ a \in M /\ M \in SUBSET Nat /\ C \in SUBSET Nat /\ a \in Nat
  BY <1>2, ListIs DEF HasUnit
<1>4. /\ unit.kind = IF PacketAt(m).start /\ StartsPes(PacketAt(m)) THEN "pes"
                     ELSE IF PacketAt(m).start THEN "psi" ELSE "unknown"
      /\ unit.first = IF PacketAt(m).start THEN m ELSE Nowhere
      /\ unit.position = Len(BeforeOf(a)) + 1 /\ unit.count = Len(ListOf(a))
      /\ unit.previous = IF BeforeOf(a) = <<>> THEN Nowhere ELSE Last(BeforeOf(a))
      /\ unit.next = IF AfterOf(a) = <<>> THEN Nowhere ELSE Head(AfterOf(a))
  <2> HIDE DEF a
  <2>1. QED BY <1>2, FindUnitIs, Zenon
<1>5. below \in SUBSET Nat /\ above \in SUBSET Nat
  BY <1>3
<1> HIDE DEF a, pid, M, C, m, below, above
<1>6. Cardinality(M) = Len(ListOf(a)) /\ Cardinality(below) = Len(BeforeOf(a))
  BY <1>3, AscendingCounts, Zenon
<1>7. Max(below \cup {Nowhere}) = IF BeforeOf(a) = <<>> THEN Nowhere ELSE Last(BeforeOf(a))
  <2>1. CASE BeforeOf(a) = <<>>
    <3>1. below = {}
      BY <1>3, <1>5, <2>1, AscendingEnds
    <3>2. below \cup {Nowhere} = {-1}
      BY <3>1 DEF Nowhere
    <3>3. Max({-1}) = -1
      BY DEF Max
    <3>4. QED BY <2>1, <3>2, <3>3 DEF Nowhere
  <2>2. CASE BeforeOf(a) # <<>>
    BY <1>3, <1>5, <2>2, AscendingEnds
  <2>3. QED BY <2>1, <2>2
<1>8. (IF above = {} THEN Nowhere ELSE Min(above)) = IF AfterOf(a) = <<>> THEN Nowhere ELSE Head(AfterOf(a))
  BY <1>3, <1>5, AscendingEnds
<1>9. m \in M /\ \A o \in M : m <= o
  <2>1. ListOf(a) # <<>>
    BY <1>3, AscendingEnds
  <2>2. Head(ListOf(a)) \in M /\ Head(ListOf(a)) = ListOf(a)[1] /\ \A x \in M : Head(ListOf(a)) <= x
    BY <1>3, <2>1, AscendingEnds
  <2>3. QED BY <2>2, Zenon DEF m
<1>10. m \in Starting <=> PacketAt(m).start
  <2>1. m \in Int
    BY <1>3, <1>9
  <2>2. QED BY <2>1 DEF Starting
<1>11. (m \in Starting <=> own(a) # Nowhere) /\ (m \in Starting => own(a) = m)
  <2>1. M = UnitMembers(C, Starting, a)
    BY Zenon DEF M, MembersOf, C, pid
  <2>2. QED BY <1>3, <1>9, <2>1, FirstMember
<1> HIDE DEF own
<1>12. unit.first = own(a) /\ (unit.kind = "unknown" <=> own(a) = Nowhere)
  BY <1>4, <1>10, <1>11
<1>13. QED BY <1>4, <1>6, <1>7, <1>8, <1>12, Zenon

\* The first packet of a unit has the same unit.
LEMMA MemberHas ==
  ASSUME RequestTyped, NEW a, HasUnit(a), NEW m \in MembersOf(a)
  PROVE  HasUnit(m) /\ PidOf(m) = PidOf(a)
<1>1. m = a \/ m \in Carriers(PidOf(a))
  BY DEF MembersOf, UnitMembers
<1>2. CASE m = a
  BY <1>2
<1>3. CASE m \in Carriers(PidOf(a))
  <2>1. UnitPacketSize \in Nat \ {0} /\ RangeStart \in Nat /\ RangeEnd \in Nat
    BY RangeTyped
  <2>2. m \in RangeStart .. RangeEnd - UnitPacketSize /\ OnGrid(m) /\ Same(m, PidOf(a))
    BY <1>3, Zenon DEF Carriers, OnGrid
  <2>3. m \in Nat /\ RangeStart <= m /\ m < RangeEnd
    BY <2>1, <2>2
  <2>4. PidOf(m) = PidOf(a) /\ Readable(m)
    BY <2>2, Zenon DEF Same, PidOf
  <2>5. Same(m, PidOf(m))
    BY <2>2, <2>4, Zenon
  <2>6. QED BY <2>2, <2>3, <2>4, <2>5, Zenon DEF HasUnit
<1>4. QED BY <1>1, <1>2, <1>3

\* The packets from a start on are those that belong to it.
CarriedSet(m, pid) == {m} \cup {o \in Carriers(pid) : StartOf(o, pid) = m}

LEMMA CarriedIs ==
  ASSUME RequestTyped, NEW m, HasUnit(m), PacketAt(m).start
  PROVE  Ascending(CarriedFrom(m, PidOf(m)), CarriedSet(m, PidOf(m)))
<1> DEFINE A == Carrying(PidOf(m))
           B == Starting
           p == UnitPacketSize
           C == Carriers(PidOf(m))
           T == Ahead(A, B, p, RangeEnd, m + p)
<1>1. p \in Nat \ {0} /\ RangeStart \in Nat /\ RangeEnd \in Int /\ m \in Nat /\ m \in Int
      /\ RangeStart <= m /\ m < RangeEnd /\ m + p \in Int
  BY RangeTyped DEF HasUnit
<1>2. A \in SUBSET Int /\ m \in A /\ m \in B
  BY <1>1 DEF Carrying, Starting, HasUnit
<1>3. C = WithinScan(A, p, RangeStart, RangeEnd, m)
  BY <1>1, CarriersAre DEF HasUnit
<1>4. Ascending(Forward(m + p, PidOf(m)), T)
  BY <1>1, ForwardIs
<1>5. C \subseteq Int
  BY <1>1, <1>3 DEF WithinScan
<1>6. {m} \cup {o \in C : StartAmong(C, B, o) = m} = {m} \cup T
  <2> HIDE DEF A, B, p, C
  <2>1. LET D == WithinScan(A, p, RangeStart, RangeEnd, m)
        IN {m} \cup {o \in D : StartAmong(D, B, o) = m} = {m} \cup Ahead(A, B, p, RangeEnd, m + p)
    BY <1>1, <1>2, CarriedAre
  <2>2. QED BY <1>3, <2>1, Zenon
<1>7. CarriedSet(m, PidOf(m)) = {m} \cup T
  <2>1. \A o \in C : StartOf(o, PidOf(m)) = StartAmong(C, B, o)
    BY <1>5, StartOfIs
  <2>2. {o \in C : StartOf(o, PidOf(m)) = m} = {o \in C : StartAmong(C, B, o) = m}
    BY <2>1
  <2>3. QED BY <1>6, <2>2, Zenon DEF CarriedSet
<1>8. \A o \in T : m < o
  <2> HIDE DEF A, B, p
  <2>1. QED BY <1>1, <1>2, AheadStep
<1>9. Ascending(<<m>>, {m}) /\ \A x \in {m}, y \in T : x < y
  BY <1>1, <1>8, AscendingOne
<1>10. Ascending(<<m>> \o Forward(m + p, PidOf(m)), {m} \cup T)
  <2> HIDE DEF T, p
  <2>1. QED BY <1>4, <1>9, AscendingConcat
<1>11. QED BY <1>7, <1>10, Zenon DEF CarriedFrom

\* They are packets of the file.
LEMMA CarriedTyped ==
  ASSUME RequestTyped, NEW m, HasUnit(m), NEW o \in CarriedSet(m, PidOf(m))
  PROVE  PacketAt(o).length \in Nat /\ IsBytes(PacketAt(o).bytes)
<1>1. CASE o = m
  BY <1>1, PacketTyped DEF HasUnit
<1>2. CASE o \in Carriers(PidOf(m))
  <2>1. UnitPacketSize \in Nat \ {0} /\ RangeStart \in Nat /\ RangeEnd \in Nat
    BY RangeTyped
  <2>2. o \in RangeStart .. RangeEnd - UnitPacketSize /\ OnGrid(o) /\ Same(o, PidOf(m))
    BY <1>2, Zenon DEF Carriers, OnGrid
  <2>3. o \in Nat /\ Readable(o)
    BY <2>1, <2>2 DEF Same
  <2>4. QED BY <2>2, <2>3, PacketTyped
<1>3. QED BY <1>1, <1>2 DEF CarriedSet

\* The lengths of the payloads of a set of packets, in order.
Ranked(K) ==
  [i \in 1 .. Cardinality(K) |->
     PacketAt(CHOOSE o \in K : Cardinality({c \in K : c <= o}) = i).length]

\* The payloads of the unit are those of the PES packet the analysis collects.
LEMMA PayloadsAre ==
  ASSUME RequestTyped, NEW m, HasUnit(m), PacketAt(m).start
  PROVE  LET list == CarriedFrom(m, PidOf(m))
             K == CarriedSet(m, PidOf(m))
         IN /\ LengthsOf(list) = Ranked(K)
            /\ LengthsOf(list) \in Seq(Nat) /\ LengthsOf(list) # <<>> /\ Len(LengthsOf(list)) = Len(list)
            /\ Len(list) \in Nat /\ list \in Seq(Int) /\ \A i \in 1 .. Len(list) : list[i] \in K
<1> DEFINE list == CarriedFrom(m, PidOf(m))
           K == CarriedSet(m, PidOf(m))
           lengths == LengthsOf(list)
           at(i) == CHOOSE o \in K : Cardinality({c \in K : c <= o}) = i
<1>1. Ascending(list, K)
  BY CarriedIs
<1>2. m \in K
  BY DEF CarriedSet
<1>3. \A o \in K : PacketAt(o).length \in Nat
  BY CarriedTyped
<1>4. lengths = [i \in DOMAIN list |-> PacketAt(list[i]).length]
  BY Zenon DEF LengthsOf
<1> HIDE DEF list, K, lengths
<1>5. /\ list \in Seq(Int) /\ Len(list) \in Nat /\ DOMAIN list = 1 .. Len(list)
      /\ \A i \in 1 .. Len(list) : list[i] \in K
      /\ \A x \in K : \E i \in 1 .. Len(list) : list[i] = x
  BY <1>1 DEF Ascending
<1>6. Cardinality(K) = Len(list) /\ \A i \in 1 .. Len(list) : at(i) = list[i]
  <2>1. Cardinality(K) = Len(list)
    BY <1>1, AscendingCounts, Zenon
  <2>2. \A i \in 1 .. Len(list) : at(i) = list[i]
    BY <1>1, AscendingFound, Zenon
  <2>3. QED BY <2>1, <2>2
<1> HIDE DEF at
<1>7. lengths = [i \in 1 .. Cardinality(K) |-> PacketAt(at(i)).length]
  BY <1>4, <1>5, <1>6
<1>8. lengths \in Seq(Nat) /\ Len(lengths) = Len(list)
  <2>1. \A i \in 1 .. Len(list) : PacketAt(list[i]).length \in Nat
    BY <1>3, <1>5
  <2>2. QED BY <1>4, <1>5, <2>1
<1>9. Len(list) # 0
  BY <1>2, <1>5
<1>10. lengths # <<>>
  BY <1>8, <1>9
<1>11. lengths = Ranked(K)
  BY <1>7, Zenon DEF Ranked, at
<1>12. QED BY <1>5, <1>8, <1>10, <1>11, Zenon DEF list, K, lengths

\* The first of a sequence are in it.
LEMMA FirstIn ==
  ASSUME NEW s \in Seq(Int), NEW n \in 0 .. Len(s), NEW T, \A i \in 1 .. Len(s) : s[i] \in T
  PROVE  ToSet(SubSeq(s, 1, n)) \subseteq T
<1>1. Len(s) \in Nat
  OBVIOUS
<1>2. DOMAIN SubSeq(s, 1, n) = 1 .. n /\ \A i \in 1 .. n : SubSeq(s, 1, n)[i] = s[i]
  BY <1>1
<1>3. \A i \in 1 .. n : i \in 1 .. Len(s)
  BY <1>1
<1>4. QED BY <1>2, <1>3 DEF ToSet

\* The timestamps of a unit are those of the analysis.
LEMMA AnalyzedHolds ==
  ASSUME RequestTyped, asked \in Nat, unit = UnitAt(asked)
  PROVE  UnitAsAnalyzed
<1> DEFINE a == asked
           m == ListOf(a)[1]
           first == PacketAt(m)
           list == CarriedFrom(m, PidOf(a))
           K == CarriedSet(m, PidOf(a))
           gathered == Gathered(first.bytes, LengthsOf(list))
           pesOf(l) == Collected(NewPes, [bytes |-> first.bytes, payloads |-> l])
<1>1. SUFFICES ASSUME Shows, unit.kind = "pes"
               PROVE  LET carried == CarriedSet(unit.first, PidOf(asked))
                          collected == Collected(NewPes, [bytes |-> PacketAt(unit.first).bytes,
                                                          payloads |-> Ranked(carried)])
                      IN collected.problem = "none" =>
                           /\ DOMAIN unit.timestamps = {"PTS", "DTS"} \cap DOMAIN collected.fields
                           /\ \A t \in DOMAIN unit.timestamps : unit.timestamps[t] = collected.fields[t]
                           /\ ToSet(unit.header) \subseteq carried
  BY Zenon DEF UnitAsAnalyzed, CarriedSet, PidOf, Ranked
<1>2. HasUnit(a) /\ unit = FindUnit(a) /\ PidOf(a) # NullPid /\ PacketAt(a).length # 0
  BY <1>1, ShownIs
<1>3. /\ first.start /\ unit.first = m
      /\ unit.header = SubSeq(list, 1, gathered.count)
      /\ unit.timestamps = UnitTimestamps(first.bytes, gathered.bytes)
  <2> DEFINE isPes == first.start /\ StartsPes(first)
             header == SubSeq(list, 1, gathered.count)
             stamps == UnitTimestamps(first.bytes, gathered.bytes)
  <2>1. /\ unit.kind = IF isPes THEN "pes" ELSE IF first.start THEN "psi" ELSE "unknown"
        /\ unit.first = IF first.start THEN m ELSE Nowhere
        /\ isPes => unit.header = header /\ unit.timestamps = stamps
    <3> HIDE DEF a
    <3>1. QED BY <1>2, FindUnitIs, Zenon
  <2> HIDE DEF header, stamps
  <2>2. isPes
    BY <1>1, <2>1
  <2>3. QED BY <2>1, <2>2, Zenon DEF header, stamps
<1>4. Ascending(ListOf(a), MembersOf(a)) /\ MembersOf(a) \in SUBSET Nat /\ a \in MembersOf(a)
  BY <1>2, ListIs
<1>5. m \in MembersOf(a)
  <2>1. ListOf(a) # <<>>
    BY <1>4, AscendingEnds
  <2>2. Head(ListOf(a)) \in MembersOf(a) /\ Head(ListOf(a)) = ListOf(a)[1]
    <3> HIDE DEF a
    <3>1. QED BY <1>4, <2>1, AscendingEnds
  <2>3. QED BY <2>2, Zenon
<1>6. HasUnit(m) /\ PidOf(m) = PidOf(a)
  BY <1>2, <1>5, MemberHas
<1>7. /\ LengthsOf(list) = Ranked(K)
      /\ LengthsOf(list) \in Seq(Nat) /\ LengthsOf(list) # <<>> /\ Len(LengthsOf(list)) = Len(list)
      /\ Len(list) \in Nat /\ list \in Seq(Int) /\ \A i \in 1 .. Len(list) : list[i] \in K
  <2>1. PacketAt(m).start /\ HasUnit(m)
    BY <1>3, <1>6, Zenon
  <2>2. CarriedFrom(m, PidOf(m)) = list /\ CarriedSet(m, PidOf(m)) = K
    BY <1>6, Zenon
  <2> HIDE DEF m, list, K
  <2>3. LET l == CarriedFrom(m, PidOf(m))
            S == CarriedSet(m, PidOf(m))
        IN /\ LengthsOf(l) = Ranked(S)
           /\ LengthsOf(l) \in Seq(Nat) /\ LengthsOf(l) # <<>> /\ Len(LengthsOf(l)) = Len(l)
           /\ Len(l) \in Nat /\ l \in Seq(Int) /\ \A i \in 1 .. Len(l) : l[i] \in S
    BY <2>1, PayloadsAre
  <2>4. QED BY <2>2, <2>3, Zenon
<1>8. IsBytes(first.bytes)
  BY <1>6, PacketTyped DEF HasUnit
<1> DEFINE l == LengthsOf(list)
           c == pesOf(l)
           h == first.bytes
           stamps == UnitTimestamps(h, Gathered(h, l).bytes)
           known == {"PTS", "DTS"} \cap DOMAIN c.fields
<1>9. c.problem = "none" => DOMAIN stamps = known /\ \A t \in known : stamps[t] = c.fields[t]
  <2> DEFINE p == [bytes |-> h, payloads |-> l]
  <2>1. p.bytes = h /\ p.payloads = l
    OBVIOUS
  <2>2. c = Collected(NewPes, p)
    OBVIOUS
  <2> HIDE DEF p, h, l, c
  <2>3. IsBytes(p.bytes) /\ p.payloads \in Seq(Nat) /\ p.payloads # <<>>
    BY <1>7, <1>8, <2>1 DEF l, h
  <2>4. ASSUME Collected(NewPes, p).problem = "none"
        PROVE  LET s     == UnitTimestamps(p.bytes, Gathered(p.bytes, p.payloads).bytes)
                   fields == {"PTS", "DTS"} \cap DOMAIN Collected(NewPes, p).fields
               IN DOMAIN s = fields /\ \A t \in fields : s[t] = Collected(NewPes, p).fields[t]
    BY <2>3, <2>4, UnitStampsAre
  <2>5. QED BY <2>1, <2>2, <2>4, Zenon
<1>10. ToSet(unit.header) \subseteq K
  <2>1. Gathered(h, l).count \in 1 .. Len(l)
    <3> HIDE DEF h, l
    <3>1. IsBytes(h) /\ l \in Seq(Nat) /\ l # <<>>
      BY <1>7, <1>8 DEF l, h
    <3>2. PICK s : PayloadSums(s, l)
      BY <3>1, SumsExist
    <3>3. QED BY <3>1, <3>2, GatheredIs
  <2> DEFINE n == Gathered(h, l).count
  <2>2. n \in 0 .. Len(list)
    <3>1. n \in 1 .. Len(l) /\ Len(l) = Len(list) /\ Len(list) \in Nat
      BY <1>7, <2>1
    <3> HIDE DEF n, l, list
    <3>2. QED BY <3>1
  <2>3. unit.header = SubSeq(list, 1, n)
    BY <1>3, Zenon
  <2> HIDE DEF n, list, K
  <2>4. ToSet(SubSeq(list, 1, n)) \subseteq K
    BY <1>7, <2>2, FirstIn
  <2>5. QED BY <2>3, <2>4, Zenon
<1>11. c.problem = "none" =>
         /\ DOMAIN unit.timestamps = known
         /\ \A t \in DOMAIN unit.timestamps : unit.timestamps[t] = c.fields[t]
         /\ ToSet(unit.header) \subseteq K
  <2>1. unit.timestamps = stamps
    BY <1>3, Zenon
  <2> HIDE DEF stamps, c, K, known
  <2>2. QED BY <1>9, <1>10, <2>1, Zenon
<1>12. l = Ranked(K)
  BY <1>7, Zenon
<1> HIDE DEF l
<1>13. pesOf(Ranked(K)).problem = "none" =>
         /\ DOMAIN unit.timestamps = {"PTS", "DTS"} \cap DOMAIN pesOf(Ranked(K)).fields
         /\ \A t \in DOMAIN unit.timestamps : unit.timestamps[t] = pesOf(Ranked(K)).fields[t]
         /\ ToSet(unit.header) \subseteq K
  BY <1>11, <1>12, Zenon
<1>14. unit.first = m
  BY <1>3
<1> HIDE DEF m
<1>15. QED BY <1>13, <1>14, Zenon

-------------------------------------------------------------------------------
\* The unit is that of the offset asked for.
UnitIsOfOffset ==
  /\ RequestTyped /\ asked \in Int
  /\ asked # Nowhere => asked \in Nat /\ unit = UnitAt(asked)

\* The file and the range do not change, and neither does the unit of an offset.
LEMMA SameUnit ==
  ASSUME request' = request, NEW o
  PROVE  UnitAt(o)' = UnitAt(o)
  BY DEF UnitAt, FindUnit, NoUnit, StartsPes, Backward, Forward, Same, Readable, PacketAt, FileSize, RangeStart,
    RangeEnd, AlignedUp

LEMMA UnitFollows ==
  ASSUME UnitIsOfOffset
  PROVE  UnitsAgree
<1>1. CASE asked = Nowhere
  <2>1. ~Shows
    BY <1>1 DEF Shows
  <2>2. QED BY <2>1, Zenon DEF UnitsAgree, UnitAsCarried, UnitAsAnalyzed
<1>2. CASE asked # Nowhere
  <2>1. RequestTyped /\ asked \in Nat /\ unit = UnitAt(asked)
    BY <1>2 DEF UnitIsOfOffset
  <2>2. QED BY <2>1, CarriedHolds, AnalyzedHolds DEF UnitsAgree
<1>3. QED BY <1>1, <1>2

\* The unit of a packet is one thing, whichever of its packets in the range is asked for:
\* the packets that findUnit comes to from there are those from one start up to the
\* next, and the timestamps found in them are those the analysis reads.  A packet that
\* the end of the range cuts is one of them only from itself.
THEOREM UnitsStayAgreed == UnitSpec => []UnitsAgree
<1>1. UnitInit => UnitIsOfOffset
  <2>1. SUFFICES ASSUME UnitInit PROVE UnitIsOfOffset
    OBVIOUS
  <2>2. PICK f \in UnitFiles, r \in UnitRanges :
          request = [packets |-> f.packets, phase |-> f.phase, rest |-> f.rest,
                     offset |-> r.offset, limit |-> r.limit]
    BY <2>1, Zenon DEF UnitInit
  <2>3. /\ request.packets = f.packets /\ request.phase = f.phase /\ request.rest = f.rest
        /\ request.offset = r.offset /\ request.limit = r.limit
    BY <2>2
  <2>4. /\ f.phase \in 0 .. UnitPacketSize - 1 /\ f.rest \in 0 .. UnitPacketSize - 1
        /\ Len(f.packets) \in Nat /\ r.offset \in Nat /\ r.limit \in Nat
        /\ \A i \in 1 .. Len(f.packets) :
             f.packets[i].length \in Nat /\ IsBytes(f.packets[i].bytes)
    BY UnitAssumption, Zenon DEF IsBytes
  <2>5. RequestTyped
    BY <2>3, <2>4, Zenon DEF RequestTyped
  <2>6. asked = Nowhere /\ Nowhere \in Int
    <3>1. asked = Nowhere
      BY <2>1, Zenon DEF UnitInit
    <3>2. Nowhere \in Int
      BY DEF Nowhere
    <3>3. QED BY <3>1, <3>2
  <2>7. QED BY <2>5, <2>6 DEF UnitIsOfOffset
<1>2. UnitIsOfOffset /\ [UnitNext]_unitVars => UnitIsOfOffset'
  <2> SUFFICES ASSUME UnitIsOfOffset, [UnitNext]_unitVars PROVE UnitIsOfOffset'
    OBVIOUS
  <2>1. request' = request
    BY DEF UnitNext, AskDetail, unitVars
  <2>2. RequestTyped'
    BY <2>1, Zenon DEF RequestTyped, UnitIsOfOffset
  <2>3. ASSUME NEW offset \in 0 .. FileSize - 1, AskDetail(offset)
        PROVE  UnitIsOfOffset'
    <3>1. asked' = offset /\ unit' = UnitAt(offset)
      BY <2>3, Zenon DEF AskDetail, UnitAt
    <3>2. FileSize \in Nat
      BY RangeTyped DEF UnitIsOfOffset
    <3>3. offset \in Nat /\ asked' \in Nat
      BY <3>1, <3>2
    <3>4. UnitAt(offset)' = UnitAt(offset)
      BY <2>1, SameUnit
    <3>5. unit' = UnitAt(asked)'
      BY <3>1, <3>4
    <3>6. QED BY <2>2, <3>3, <3>5 DEF UnitIsOfOffset
  <2>4. CASE UNCHANGED unitVars
    <3>1. asked' = asked /\ unit' = unit
      BY <2>4 DEF unitVars
    <3>2. PICK o \in Int : o = asked
      BY DEF UnitIsOfOffset
    <3>3. UnitAt(o)' = UnitAt(o)
      BY <2>1, SameUnit
    <3>4. asked' = o /\ (asked' # Nowhere => asked' \in Nat /\ unit' = UnitAt(o))
      BY <3>1, <3>2 DEF UnitIsOfOffset
    <3>5. asked' # Nowhere => unit' = UnitAt(asked)'
      BY <3>3, <3>4
    <3>6. QED BY <2>2, <3>4, <3>5 DEF UnitIsOfOffset
  <2>5. QED BY <2>3, <2>4 DEF UnitNext
<1>3. UnitIsOfOffset => UnitsAgree
  BY UnitFollows
<1>4. QED BY <1>1, <1>2, <1>3, PTL DEF UnitSpec
================================================================================
