------------------------------ MODULE MCStreamScan ------------------------------
(* StreamScan on every short input with at most two packets that make discovery *)
(* start over, on those where the scan of a program fails before the rest, and   *)
(* on longer ones whose first good PAT is one of the last two packets of a read   *)
(* of four, from the start of the input or after a retry.                        *)
EXTENDS StreamScan

Faults(s) == {i \in DOMAIN s : s[i] \in {EmptyPat, Bad}}

FailedScan == <<Pat, Pat, 1, 1, Bad>>
LateStart  == <<Other, Other>>
LateRetry  == <<Pat, Bad, Other, Other>>

\* The inputs that begin with some packets.
After(first, n, kinds) ==
  {[i \in 0 .. Len(first) + n - 1 |-> IF i < Len(first) THEN first[i + 1] ELSE rest[i - Len(first) + 1]] :
     rest \in [1 .. n -> kinds]}

MCStreams ==
  {s \in [0 .. 5 -> Kinds] : Cardinality(Faults(s)) <= 2} \cup [0 .. 1 -> Kinds]
    \cup After(FailedScan, 4, Kinds)
    \cup After(LateStart, 5, Kinds \ {2, Bad}) \cup After(LateRetry, 5, Kinds \ {2, Bad})
===============================================================================
