-------------------------------- MODULE PesFeed --------------------------------
(***************************************************************************)
(* pesFeed of tsparser/pes_health.go: the PES packets of a program that end *)
(* before the PCR after their start are held until that PCR arrives, and    *)
(* what follows them on their PID is held behind them.                      *)
(*                                                                         *)
(* A feed is a record: pending and held are the fields of pesFeed, log is   *)
(* what the PES check has received so far, in order, and seen counts the    *)
(* observations, which carry their number n.                                *)
(***************************************************************************)
EXTENDS PcrTimeline, Sequences

CONSTANTS
  Pids,            \* the elementary PIDs of the program
  MaxPendingPES    \* maxPendingPES, 256 in the code

ASSUME FeedAssumption == MaxPendingPES \in Nat \ {0}

NewPESFeed == [pending |-> <<>>, held |-> [p \in Pids |-> 0], log |-> <<>>, seen |-> 0]

\* A PES packet or a break of a PID as it reaches the feed.  prev is the PCR
\* before a PES packet that waits for the one after it (place).
Observation(f, pid, what, offset, place, prev, at) ==
  [n |-> f.seen + 1, pid |-> pid, what |-> what, offset |-> offset,
   place |-> place, prev |-> prev, at |-> at]

BreakCauses == {"untrusted_payload", "continuity_error", "incomplete_header"}
Problems    == {"ok", "malformed", "truncated"}

Observations ==
  [n : Nat, pid : Pids, what : Problems \cup BreakCauses, offset : Int,
   place : BOOLEAN, prev : Anchors, at : Arrivals]

\* ObservePES and ObserveBreak of the PES check.
Deliver(f, item) == [f EXCEPT !.log = Append(@, item), !.seen = item.n]

\* The time of a held observation once the PCR next is known.
Placed(item, next) ==
  IF item.place THEN [item EXCEPT !.at = ArrivalAt(item.prev, next, item.offset)] ELSE item

\* release: every held observation in order.
Release(f, next) ==
  [f EXCEPT !.log = @ \o [i \in DOMAIN f.pending |-> Placed(f.pending[i], next)],
            !.pending = <<>>,
            !.held = [p \in Pids |-> 0]]

Push(f, item) ==
  [f EXCEPT !.pending = Append(@, item), !.held[item.pid] = @ + 1, !.seen = item.n]

\* hold: a full feed is released, and what waits for a PCR stays unplaced.
Hold(f, item) ==
  LET g == Push(f, item) IN
  IF Len(g.pending) >= MaxPendingPES THEN Release(g, NoAnchor) ELSE g

\* Mutant: a PES packet that need not wait overtakes what its PID holds.
ObservePES_Overtakes(f, pid, offset, problem, prev, next) ==
  LET ok == problem = "ok" IN
  IF ok /\ prev.valid /\ ~next.valid
    THEN Hold(f, Observation(f, pid, problem, offset, TRUE, prev, Unplaced))
    ELSE Deliver(f, Observation(f, pid, problem, offset, FALSE, NoAnchor,
                                IF ok THEN ArrivalAt(prev, next, offset) ELSE Unplaced))

\* observe: a PES packet that started at offset, between the PCRs prev and next
\* (next is invalid when it has not arrived yet).
ObservePES(f, pid, offset, problem, prev, next) ==
  LET ok == problem = "ok" IN
  IF ok /\ prev.valid /\ ~next.valid
    THEN Hold(f, Observation(f, pid, problem, offset, TRUE, prev, Unplaced))
    ELSE LET item == Observation(f, pid, problem, offset, FALSE, NoAnchor,
                                 IF ok THEN ArrivalAt(prev, next, offset) ELSE Unplaced)
         IN IF f.held[pid] > 0 THEN Hold(f, item) ELSE Deliver(f, item)

\* observeBreak: a break stays behind the held observations of its PID.
ObserveBreak(f, pid, offset, cause) ==
  LET item == Observation(f, pid, cause, offset, FALSE, NoAnchor, Unplaced) IN
  IF f.held[pid] > 0 THEN Hold(f, item) ELSE Deliver(f, item)

-------------------------------------------------------------------------------
(* The feed alone: any observations, between any two PCRs.                   *)

VARIABLE feed

\* A PCR at offset n of a segment whose clock ticks once per offset.
Anchor(n) == [valid |-> TRUE, pcr |-> 0, unwrapped |-> n, pos |-> n, segment |-> 0]

FeedInit == feed = NewPESFeed

FeedObserves ==
  \E pid \in Pids, problem \in Problems,
     prev \in {NoAnchor, Anchor(feed.seen)}, next \in {NoAnchor, Anchor(feed.seen + 2)} :
    feed' = ObservePES(feed, pid, feed.seen + 1, problem, prev, next)

FeedBreaks ==
  \E pid \in Pids, cause \in BreakCauses :
    feed' = ObserveBreak(feed, pid, feed.seen + 1, cause)

\* A PCR places what waits for it; a layout change or the end places nothing.
FeedReleases ==
  \E next \in {NoAnchor, Anchor(feed.seen + 1)} : feed' = Release(feed, next)

FeedNext == FeedObserves \/ FeedBreaks \/ FeedReleases

FeedSpec == FeedInit /\ [][FeedNext]_feed

-------------------------------------------------------------------------------
(* Properties.                                                               *)

Feeds == [pending : Seq(Observations), held : [Pids -> Nat],
          log : Seq(Observations), seen : Nat]

FeedTypeOK == feed \in Feeds

\* Fewer than maxPendingPES observations are held between two calls, however
\* long the PCR stays away.
PendingBounded == Len(feed.pending) < MaxPendingPES

InOrder(f) ==
  /\ \A i, j \in DOMAIN f.log :
       i < j /\ f.log[i].pid = f.log[j].pid => f.log[i].n < f.log[j].n
  /\ \A i, j \in DOMAIN f.pending : i < j => f.pending[i].n < f.pending[j].n
  /\ \A i \in DOMAIN f.log, j \in DOMAIN f.pending :
       f.log[i].pid = f.pending[j].pid => f.log[i].n < f.pending[j].n

\* The check sees the observations of a PID in stream order, what is held comes
\* after what it has seen, and it sees none of them twice.
InStreamOrder == InOrder(feed)

AllKept(f) ==
  \A n \in 1 .. f.seen :
    \/ \E i \in DOMAIN f.log : f.log[i].n = n
    \/ \E i \in DOMAIN f.pending : f.pending[i].n = n

\* No observation is lost: the check has it or it is held.
NothingLost == AllKept(feed)

MarksHeld(f) ==
  \A p \in Pids : f.held[p] > 0 <=> \E i \in DOMAIN f.pending : f.pending[i].pid = p

\* A PID is marked as held exactly while it has an observation waiting: nothing
\* is held behind a PID that has been released, and nothing overtakes.
HeldIsPending == MarksHeld(feed)
===============================================================================
