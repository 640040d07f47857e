------------------------------ MODULE StreamScan ------------------------------
(***************************************************************************)
(* From the first read to the result: parseTsReaderReport (tsparser/         *)
(* stream.go) finds a PAT, collects the PMTs and scans the range, and starts *)
(* over when one of them fails; analyzeAllPrograms (range_analysis.go) does  *)
(* it for every program at once, listPrograms only collects the PMTs.        *)
(*                                                                         *)
(* The input is a sequence of aligned packets; offsets count packets.  A     *)
(* table is one section, so a packet of its PID starts and completes it.     *)
(***************************************************************************)
EXTENDS Integers, Sequences, FiniteSets, FiniteSetsExt

CONSTANTS
  Programs,      \* the programs a PAT lists; the least is the selected one
  ReadSizes,     \* the packets one read of the discovery buffer may hold
  Streams,       \* the inputs: see Kinds
  RangeEnds      \* end of the range, 0 for none

\* What a packet is: a PAT, one that lists no program, a PMT, one of another
\* PID, or one that cannot be parsed.
Pat == 0
EmptyPat == -1
Other == -2
Bad == -3
Pats  == {Pat, EmptyPat}
Kinds == {Pat, EmptyPat, Other, Bad} \cup Programs

ASSUME ScanAssumption ==
  /\ Programs \subseteq Nat \ {0} /\ Programs # {} /\ IsFiniteSet(Programs)
  /\ ReadSizes \subseteq Nat \ {0} /\ RangeEnds \subseteq Nat
  /\ \A s \in Streams : IsFiniteSet(DOMAIN s) /\ s \in [0 .. Cardinality(DOMAIN s) - 1 -> Kinds]

VARIABLES
  stream,        \* the packets, offset 0 first
  mode,          \* "program", "list" or "range"
  end,           \* endOffset
  readPackets,   \* bufSize
  reader,        \* where the reader really is
  fileOffset,    \* where parseTsReaderReport believes it is
  readStart, pos,
  phase,         \* "discover", "pat", "pmt", "scan" or "done"
  patDetected, listed,
  starts,        \* the start of every analyzer
  failedAt,      \* the last packet that ended a scan, -1 for none
  status,
  seen           \* how often each packet was counted in the current attempt

scanVars == <<stream, mode, end, readPackets, reader, fileOffset, readStart, pos, phase, patDetected,
              listed, starts, failedAt, status, seen>>

Selected == Min(Programs)

Init ==
  /\ stream \in Streams
  /\ mode \in {"program", "list", "range"}
  /\ end \in RangeEnds /\ readPackets \in ReadSizes
  /\ reader = 0 /\ fileOffset = 0 /\ readStart = 0 /\ pos = 0
  /\ phase = "discover" /\ patDetected = FALSE /\ listed = {} /\ starts = [n \in {} |-> 0]
  /\ failedAt = -1 /\ status = "running"
  /\ seen = [i \in DOMAIN stream |-> 0]

Length == Cardinality(DOMAIN stream)

Finish(result) ==
  /\ phase' = "done" /\ status' = result
  /\ UNCHANGED <<stream, mode, end, readPackets, readStart, failedAt>>

-------------------------------------------------------------------------------
\* findPat: a PAT packet that two more packets of the read follow.
FindPat(from, size) == {i \in 0 .. size - 3 : stream[from + i] \in Pats}

\* One read of the discovery loop.
ReadSize ==
  LET wanted == IF end > 0 THEN Min({readPackets, Max({end - fileOffset, 0})}) ELSE readPackets
  IN Min({wanted, Length - reader})

NoPat ==
  /\ phase = "discover" /\ ReadSize > 0 /\ FindPat(reader, ReadSize) = {}
  /\ fileOffset' = fileOffset + ReadSize /\ reader' = reader + ReadSize
  /\ UNCHANGED <<stream, mode, end, readPackets, readStart, pos, phase, patDetected, listed, starts,
                 failedAt, status, seen>>

FoundPat ==
  /\ phase = "discover" /\ ReadSize > 0
  /\ FindPat(reader, ReadSize) # {}
  /\ LET at == fileOffset + Min(FindPat(reader, ReadSize)) IN
       readStart' = at /\ pos' = at /\ reader' = at
  /\ fileOffset' = fileOffset + ReadSize
  /\ phase' = "pat"
  /\ UNCHANGED <<stream, mode, end, readPackets, patDetected, listed, starts, failedAt, status, seen>>

EndOfInput ==
  /\ phase = "discover" /\ ReadSize <= 0
  /\ Finish(IF patDetected THEN "incomplete" ELSE "no_pat")
  /\ UNCHANGED <<reader, fileOffset, pos, patDetected, listed, starts, seen>>

-------------------------------------------------------------------------------
\* acquireTable: from where the reader is to the second packet of the PID, or to
\* the end when there is only one.  A packet that cannot be parsed ends it, and
\* pos stays there while the reader is past it.
Readable(from) == {i \in from .. Length - 1 : end = 0 \/ i < end}

Acquire(kinds, from) ==
  LET of    == {i \in Readable(from) : stream[i] \in kinds}
      last  == IF Cardinality(of) < 2 THEN from + Cardinality(Readable(from)) ELSE Min(of \ {Min(of)})
      bad   == {i \in Readable(from) : stream[i] = Bad /\ i < last}
  IN IF bad # {} THEN [ok |-> FALSE, pos |-> Min(bad), reader |-> Min(bad) + 1, at |-> 0]
     ELSE IF of = {} THEN [ok |-> FALSE, pos |-> last, reader |-> last, at |-> 0]
     ELSE [ok |-> TRUE, pos |-> IF Cardinality(of) < 2 THEN last ELSE last + 1,
           reader |-> IF Cardinality(of) < 2 THEN last ELSE last + 1, at |-> Min(of)]

\* Mutant: a failure is retried with the PAT the attempt started from.
Retry_SamePat(at, now) ==
  fileOffset' = readStart /\ reader' = readStart /\ pos' = at /\ phase' = "discover"

\* Mutant: a failure is retried after the PAT, wherever the reader is.
Retry_AfterPat(at, now) ==
  fileOffset' = readStart + 1 /\ reader' = now /\ pos' = at /\ phase' = "discover"

\* Mutant: a failure is retried with the next read.
Retry_NextRead(at, now) ==
  /\ fileOffset' = Max({at, fileOffset}) /\ reader' = fileOffset' /\ pos' = at
  /\ phase' = "discover"

\* A failure at a packet: discovery goes on there, at least after the PAT.
Retry(at, now) ==
  /\ fileOffset' = Max({at, readStart + 1}) /\ reader' = now /\ pos' = at
  /\ phase' = "discover"

AcquirePat ==
  LET pat == Acquire(Pats, reader) IN
  /\ phase = "pat"
  /\ IF ~pat.ok THEN Retry(pat.pos, pat.reader) /\ UNCHANGED <<patDetected, listed>>
     ELSE /\ patDetected' = TRUE
          /\ listed' = IF stream[pat.at] = Pat THEN Programs ELSE {}
          /\ reader' = pat.pos /\ pos' = pat.pos /\ phase' = "pmt"
          /\ UNCHANGED fileOffset
  /\ UNCHANGED <<stream, mode, end, readPackets, readStart, starts, failedAt, status, seen>>

\* One program: a PAT without programs and a PMT that is not found start over.
AcquirePmt ==
  LET pmt == Acquire({Selected}, pos) IN
  /\ phase = "pmt" /\ mode = "program"
  /\ IF listed = {} THEN fileOffset' = pos /\ phase' = "discover" /\ UNCHANGED <<reader, pos, starts>>
     ELSE IF ~pmt.ok THEN Retry(pmt.pos, pmt.reader) /\ UNCHANGED starts
     ELSE /\ reader' = pmt.pos /\ pos' = pmt.pos /\ phase' = "scan"
          /\ starts' = [n \in {Selected} |-> pmt.pos]
          /\ UNCHANGED fileOffset
  /\ UNCHANGED <<stream, mode, end, readPackets, readStart, patDetected, listed, failedAt, status, seen>>

\* The list is the result whether or not the PMTs are found.
ListPrograms ==
  /\ phase = "pmt" /\ mode = "list"
  /\ Finish("programs_listed")
  /\ UNCHANGED <<reader, fileOffset, pos, patDetected, listed, starts, seen>>

\* Every program on its own from the end of the PAT; the scan begins with the
\* first of them.
AcquirePmts ==
  LET pmt(n) == Acquire({n}, pos)
      found  == {n \in listed : pmt(n).ok}
      first  == Min({pmt(n).pos : n \in found})
  IN
  /\ phase = "pmt" /\ mode = "range" /\ found # {}
  /\ starts' = [n \in found |-> pmt(n).pos]
  /\ pos' = first /\ reader' = first /\ phase' = "scan"
  /\ UNCHANGED <<stream, mode, end, readPackets, fileOffset, readStart, patDetected, listed, failedAt, status, seen>>

NoProgram ==
  /\ phase = "pmt" /\ mode = "range" /\ \A n \in listed : ~Acquire({n}, pos).ok
  /\ Finish("incomplete")
  /\ UNCHANGED <<reader, fileOffset, pos, patDetected, listed, starts, seen>>

-------------------------------------------------------------------------------
\* observeLead: every attempt counts the range from its first packet on anew.
Lead == [i \in DOMAIN stream |-> IF i < pos /\ stream[i] # Bad THEN 1 ELSE 0]

FirstBad == {i \in Readable(pos) : stream[i] = Bad}

Counted(counts, to) ==
  [i \in DOMAIN stream |-> IF i \in Readable(pos) /\ i < to THEN counts[i] + 1 ELSE counts[i]]

\* scanPrograms to the end of the range.
ScanComplete ==
  /\ phase = "scan" /\ FirstBad = {}
  /\ seen' = Counted(Lead, Length)
  /\ pos' = pos + Cardinality(Readable(pos)) /\ reader' = pos'
  /\ Finish("complete")
  /\ UNCHANGED <<fileOffset, patDetected, listed, starts>>

\* A packet that cannot be parsed ends the scan, and what it found is dropped: a
\* range analysis fails, the analysis of one program starts over.
ScanFails ==
  /\ phase = "scan" /\ FirstBad # {}
  /\ failedAt' = Min(FirstBad)
  /\ seen' = [i \in DOMAIN stream |-> 0]
  /\ IF mode = "range"
       THEN /\ phase' = "done" /\ status' = "failed"
            /\ UNCHANGED <<reader, fileOffset, pos>>
       ELSE Retry(Min(FirstBad), Min(FirstBad) + 1) /\ UNCHANGED status
  /\ starts' = [n \in {} |-> 0]
  /\ UNCHANGED <<stream, mode, end, readPackets, readStart, patDetected, listed>>

Next ==
  \/ NoPat \/ FoundPat \/ EndOfInput
  \/ AcquirePat \/ AcquirePmt \/ ListPrograms \/ AcquirePmts \/ NoProgram
  \/ ScanComplete \/ ScanFails

ScanSpec == Init /\ [][Next]_scanVars /\ WF_scanVars(Next)

-------------------------------------------------------------------------------
\* The program stops: every retry looks further on, though it seeks back.
Terminates == <>(phase = "done")

\* Where discovery believes the reader to be is where it is, or one packet
\* before, whatever failed: the offsets it reports stay within a packet.
OffsetNearReader ==
  phase = "discover" /\ ReadSize > 0 => fileOffset \in {reader - 1, reader}

\* A complete analysis has counted every packet of the range that can be parsed
\* exactly once, those read while looking for the tables included, and each of
\* its programs saw every packet after its PMT.
CompleteCountsOnce ==
  status = "complete" =>
    /\ \A i \in Readable(0) : seen[i] = (IF stream[i] = Bad THEN 0 ELSE 1)
    /\ \A i \in DOMAIN stream \ Readable(0) : seen[i] = 0
    /\ \A n \in DOMAIN starts : \A i \in Readable(starts[n]) : stream[i] # Bad
    /\ \A n \in DOMAIN starts : \E i \in 0 .. starts[n] - 1 : stream[i] = n

\* A PAT from which the selected program can be analyzed to the end: two more
\* packets follow it, its PMT too, and all packets after it can be parsed.
Analyzable(i) ==
  /\ stream[i] = Pat /\ i + 2 \in Readable(0)
  /\ \A j \in Readable(i) : stream[j] # Bad
  /\ \E j \in Readable(0) : Acquire(Pats, i).pos <= j /\ stream[j] = Selected

\* findPat leaves out a PAT that is one of the last two packets of a full read, and the
\* next read begins after it.  A read that holds the whole input has no such place, and
\* two PATs are not both in one unless full reads bring them to the same place or to
\* neighbouring ones.
OneIsFound(i, j) ==
  \/ i = j /\ Length <= readPackets
  \/ i < j /\ (j - i) % readPackets \notin {0, 1, readPackets - 1}

\* The result is incomplete, or the input no transport stream, only if no program could
\* be analyzed to the end.  A PAT that is followed by its PMT, and by packets that can all
\* be parsed, is enough in an input of one read; in a longer one it takes a second such
\* PAT, for one alone may be missed.  A PAT without programs before them excuses the
\* program: discovery goes on after the first table that follows it.
CompleteWhenPossible ==
  phase = "done" /\ mode = "program"
    /\ (\E i, j \in Readable(0) :
          /\ Analyzable(i) /\ Analyzable(j) /\ OneIsFound(i, j)
          /\ \A k \in Readable(0) : k < j => stream[k] # EmptyPat)
    => status = "complete"

\* A scan is complete when it can be, and only then; whatever failed before, the
\* offsets in its result are those of the input, within a packet.
CompleteAsDefined == CompleteCountsOnce /\ CompleteWhenPossible /\ OffsetNearReader

\* stream.go and mpeg_packet.go retry "from the input position after this
\* packet": a scan that failed is not followed by an attempt that reads the
\* packet again.
RetriesAfterThePacket == phase = "pat" => reader > failedAt
===============================================================================
