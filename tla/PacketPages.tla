----------------------------- MODULE PacketPages ------------------------------
(***************************************************************************)
(* The Packets screen of the GUI: pages of the analyzed range and the       *)
(* decoded packet are read by CLI runs, one per request, and only the pages *)
(* viewed last are kept.  gui/src/views/packet_pages.rs, with the page the  *)
(* CLI returns for a request, tsparser/packets.go.                          *)
(*                                                                         *)
(* A frame calls show: Update, then what the user clicks.  Requests are     *)
(* answered at any time, and an answer is seen by the next Update.  The     *)
(* packet boundaries of the file are those of one phase: the input keeps    *)
(* its synchronization.                                                     *)
(***************************************************************************)
EXTENDS Integers, SequencesExt, FiniteSetsExt

CONSTANTS
  PacketSize,
  PageSize,      \* Paging.page_size
  CachedPages,   \* Paging.cached_pages
  Files,         \* [size, phase] of the files that may be opened
  Ranges,        \* [offset, limit] of the ranges that may have been analyzed
  MaxOpens       \* bound on the packets opened from another screen

ASSUME PagesAssumption ==
  /\ {PacketSize, PageSize, CachedPages} \subseteq Nat \ {0}
  /\ \A f \in Files : f.size \in Nat /\ f.size >= PacketSize /\ f.phase \in 0 .. PacketSize - 1
  /\ \A r \in Ranges : r.offset \in Nat /\ r.limit \in Nat
  /\ MaxOpens \in Nat

VARIABLES
  file,       \* the input and its analyzed range
  geometry,   \* where the packets of the range are, once known
  probe,      \* the request of the first page
  page,       \* the page shown
  pages,      \* the pages kept, loading, ready or failed
  recent,     \* their numbers, the page shown last at the end
  selected,   \* the offset of the selected packet
  detail,     \* the request that decodes it
  pending,    \* a packet to show once the geometry is known
  opens,      \* packets opened from another screen
  wanted,     \* the packet the user asked for last, for the properties only
  shown       \* the page of the last frame, for the properties only

pageVars == <<file, geometry, probe, page, pages, recent, selected, detail,
              pending, opens, wanted, shown>>

None == -1

PageNumbers == 0 .. Max({f.size : f \in Files}) \div (PacketSize * PageSize)

-------------------------------------------------------------------------------
(* The packets of a file, and the page the CLI reads.                        *)

\* alignUp: the first packet boundary at or after offset.
AlignUp(f, offset) ==
  LET rem == (offset - f.phase) % PacketSize
  IN IF rem = 0 THEN offset ELSE offset + PacketSize - rem

\* readPacketsPage: up to count complete packets from offset on.
ReadPage(f, offset, count) ==
  LET first    == AlignUp(f, offset)
      complete == IF first < f.size THEN (f.size - first) \div PacketSize ELSE 0
  IN [first   |-> IF first < f.size THEN first ELSE None,
      packets |-> [i \in 1 .. Min({count, complete}) |-> first + (i - 1) * PacketSize]]

RangeEnd == Min({file.offset + file.limit, file.size})

-------------------------------------------------------------------------------
(* Geometry.                                                                 *)

NoGeometry == [known |-> FALSE, first |-> 0, count |-> 0]

GeometryFrom(first) ==
  [known |-> TRUE, first |-> first,
   count |-> IF first < RangeEnd THEN (RangeEnd - first) \div PacketSize ELSE 0]

PageStart(p) == p * PageSize

\* Mutant: the last page is asked for in full.
PageRequest_Full(g, p) ==
  [offset |-> g.first + PageStart(p) * PacketSize, count |-> PageSize]

PageRequest(g, p) ==
  [offset |-> g.first + PageStart(p) * PacketSize,
   count  |-> Min({PageSize, g.count - PageStart(p)})]

\* div_ceil, and one page for an empty range.
PageCount(g) == Max({1, (g.count + PageSize - 1) \div PageSize})

IndexOf(g, offset) ==
  LET index == (offset - g.first) \div PacketSize
  IN IF offset >= g.first /\ (offset - g.first) % PacketSize = 0 /\ index < g.count
       THEN index ELSE None

-------------------------------------------------------------------------------
(* Requests.  A request that is dropped is cancelled, and its answer lost.   *)

NoFetch == [state |-> "none", answer |-> "", offset |-> 0, count |-> 0, packets |-> <<>>]

Failed == [NoFetch EXCEPT !.state = "failed"]

Loading(offset, count) ==
  [NoFetch EXCEPT !.state = "loading", !.offset = offset, !.count = count]

\* start: the CLI cannot be run, or it runs.
Started(offset, count) == {Failed, Loading(offset, count)}

Running(fetch) == fetch.state = "loading" /\ fetch.answer = ""

Answered(fetch, answer) == [fetch EXCEPT !.answer = answer]

\* Fetch::poll.
Poll(fetch) ==
  IF fetch.state # "loading" \/ fetch.answer = "" THEN fetch
  ELSE IF fetch.answer = "error" THEN Failed
  ELSE [NoFetch EXCEPT !.state = "ready",
          !.packets = ReadPage(file, fetch.offset, fetch.count).packets]

-------------------------------------------------------------------------------
(* The screen.                                                               *)

NoDetail == [at |-> None, fetch |-> NoFetch]

\* select: the decoded packet goes when another one is selected.
Select(offset) ==
  /\ selected' = offset
  /\ detail' = IF selected = offset THEN detail ELSE NoDetail

\* Mutant: a packet opened before the first page is known is forgotten.
GoTo_Forgets(g, offset) ==
  IF g.known /\ IndexOf(g, offset) # None
    THEN page' = IndexOf(g, offset) \div PageSize /\ Select(offset) /\ pending' = None
    ELSE UNCHANGED <<page, selected, detail>> /\ pending' = None

\* go_to.
GoTo(g, offset) ==
  IF g.known /\ IndexOf(g, offset) # None
    THEN page' = IndexOf(g, offset) \div PageSize /\ Select(offset) /\ pending' = None
    ELSE /\ UNCHANGED <<page, selected, detail>>
         /\ pending' = IF g.known THEN None ELSE offset

\* accept_first_page: read with a full count, so cut off at the range's end.
AcceptFirstPage(answer) ==
  LET g    == GeometryFrom(IF answer.first = None THEN RangeEnd ELSE answer.first)
      kept == SubSeq(answer.packets, 1, Min({Len(answer.packets), g.count, PageSize}))
  IN /\ geometry' = g
     /\ pages' = [p \in {0} |-> [NoFetch EXCEPT !.state = "ready", !.packets = kept]]
     /\ recent' = Append(recent, 0)
     /\ IF pending = None THEN UNCHANGED <<page, selected, detail, pending>>
                          ELSE GoTo(g, pending)

\* update, before the first page is known.
UpdateProbe ==
  /\ ~geometry.known
  /\ \/ /\ probe.state = "none"
        /\ probe' \in Started(file.offset, PageSize)
        /\ UNCHANGED <<geometry, page, pages, recent, selected, detail, pending>>
     \/ /\ probe.state # "none" /\ Poll(probe).state # "ready"
        /\ probe' = Poll(probe)
        /\ UNCHANGED <<geometry, page, pages, recent, selected, detail, pending>>
     \/ /\ Poll(probe).state = "ready"
        /\ probe' = NoFetch
        /\ AcceptFirstPage(ReadPage(file, probe.offset, probe.count))
  /\ UNCHANGED <<file, opens, wanted, shown>>

\* retain: a sequence without a number, written as a function to prove about it.
Retain(s, number) ==
  LET kept[n \in 0 .. Len(s)] ==
        IF n = 0 THEN <<>>
        ELSE IF s[n] = number THEN kept[n - 1] ELSE Append(kept[n - 1], s[n])
  IN kept[Len(s)]

\* Mutant: the oldest page goes first, even when it has been shown again.
KeepRecent_InLoadOrder(current) ==
  LET all == IF current \in ToSet(recent) THEN recent ELSE Append(recent, current)
  IN SubSeq(all, Max({1, Len(all) - CachedPages + 1}), Len(all))

\* Mutant: the current page is the first to go.
KeepRecent_CurrentFirst(current) ==
  LET all == <<current>> \o Retain(recent, current)
  IN SubSeq(all, Max({1, Len(all) - CachedPages + 1}), Len(all))

\* keep_recent_pages: the numbers of the pages that stay.
KeepRecent(current) ==
  LET all == Append(Retain(recent, current), current)
  IN SubSeq(all, Max({1, Len(all) - CachedPages + 1}), Len(all))

\* update: the page shown is requested if it is not kept, finished requests are
\* taken in, and the selected packet is decoded.
UpdateScreen ==
  /\ geometry.known
  /\ recent' = KeepRecent(page)
  /\ LET asked == PageRequest(geometry, page) IN
       \E new \in IF page \in DOMAIN pages THEN {pages[page]}
                                           ELSE Started(asked.offset, asked.count) :
         pages' = [p \in ToSet(recent') |-> Poll(IF p = page THEN new ELSE pages[p])]
  /\ shown' = page
  /\ IF selected = None THEN UNCHANGED detail
     ELSE IF detail.at = selected THEN detail' = [detail EXCEPT !.fetch = Poll(@)]
     ELSE \E fetch \in Started(selected, 0) : detail' = [at |-> selected, fetch |-> fetch]
  /\ UNCHANGED <<file, geometry, probe, page, selected, pending, opens, wanted>>

Update == UpdateProbe \/ UpdateScreen

\* The pager's First, Previous, Next and Last.
TurnTo(p) ==
  /\ page' = p
  /\ UNCHANGED <<file, geometry, probe, pages, recent, selected, detail, pending,
                 opens, wanted, shown>>

Turn ==
  /\ geometry.known
  /\ \/ page > 0 /\ TurnTo(0)
     \/ page > 0 /\ TurnTo(page - 1)
     \/ page + 1 < PageCount(geometry) /\ TurnTo(page + 1)
     \/ page + 1 < PageCount(geometry) /\ TurnTo(PageCount(geometry) - 1)

\* packet_list: a click on a row of the page shown.
ClickRow ==
  /\ geometry.known /\ page \in DOMAIN pages
  /\ \E offset \in ToSet(pages[page].packets) :
       /\ Select(offset)
       /\ wanted' = offset
  /\ UNCHANGED <<file, geometry, probe, page, pages, recent, pending, opens, shown>>

\* A packet opened from Timeline, Overview or the unit of the decoded packet.
Open(offset) ==
  /\ opens < MaxOpens
  /\ opens' = opens + 1
  /\ GoTo(geometry, offset)
  /\ wanted' = IF geometry.known /\ IndexOf(geometry, offset) = None THEN wanted ELSE offset
  /\ UNCHANGED <<file, geometry, probe, pages, recent, shown>>

\* The CLI process of a request finishes.
AnswerProbe ==
  /\ Running(probe)
  /\ \E answer \in {"ok", "error"} : probe' = Answered(probe, answer)
  /\ UNCHANGED <<file, geometry, page, pages, recent, selected, detail, pending, opens,
                 wanted, shown>>

AnswerPage(p) ==
  /\ p \in DOMAIN pages /\ Running(pages[p])
  /\ \E answer \in {"ok", "error"} : pages' = [pages EXCEPT ![p] = Answered(@, answer)]
  /\ UNCHANGED <<file, geometry, probe, page, recent, selected, detail, pending, opens,
                 wanted, shown>>

AnswerDetail ==
  /\ Running(detail.fetch)
  /\ \E answer \in {"ok", "error"} : detail' = [detail EXCEPT !.fetch = Answered(@, answer)]
  /\ UNCHANGED <<file, geometry, probe, page, pages, recent, selected, pending, opens,
                 wanted, shown>>

\* PacketPages::new.
PagesInit ==
  /\ file \in {[size |-> f.size, phase |-> f.phase, offset |-> r.offset, limit |-> r.limit] :
                 f \in Files, r \in {x \in Ranges : \A g \in Files : x.offset < g.size}}
  /\ geometry = NoGeometry
  /\ probe = NoFetch
  /\ page = 0
  /\ pages = [p \in {} |-> NoFetch]
  /\ recent = <<>>
  /\ selected = None
  /\ detail = NoDetail
  /\ pending = None
  /\ opens = 0
  /\ wanted = None
  /\ shown = None

PagesNext ==
  \/ Update
  \/ Turn
  \/ ClickRow
  \/ \E offset \in 0 .. file.size - 1 : Open(offset)
  \/ AnswerProbe
  \/ \E p \in DOMAIN pages : AnswerPage(p)
  \/ AnswerDetail

PagesSpec == PagesInit /\ [][PagesNext]_pageVars

\* Frames are drawn while the screen is open (a finished request asks for one),
\* and every CLI run that reads a page ends.
PagesFairSpec ==
  /\ PagesSpec
  /\ WF_pageVars(Update)
  /\ WF_pageVars(AnswerProbe)
  /\ \A p \in PageNumbers : WF_pageVars(AnswerPage(p))

-------------------------------------------------------------------------------
(* Properties.                                                               *)

\* The packets of the analyzed range, and those of one page of it.
RangePackets ==
  {o \in file.offset .. RangeEnd - PacketSize : (o - file.phase) % PacketSize = 0}

PacketsOfPage(p) ==
  {o \in RangePackets :
     Cardinality({q \in RangePackets : q < o}) \in PageStart(p) .. PageStart(p + 1) - 1}

\* Every page that is shown holds the packets of the range with its numbers, in
\* order, wherever the range starts and ends in the file and whichever request
\* read it: no packet is on two pages or on none.
ShowsItsPackets ==
  /\ \A p \in DOMAIN pages : pages[p].state = "ready" =>
       /\ ToSet(pages[p].packets) = PacketsOfPage(p)
       /\ \A i, j \in DOMAIN pages[p].packets :
            i < j => pages[p].packets[i] < pages[p].packets[j]
  /\ geometry.known => UNION {PacketsOfPage(p) : p \in 0 .. PageCount(geometry) - 1} = RangePackets

\* The pages kept are never more than the setting allows, the page of the last
\* frame is among them, and it is not the one dropped for another: neither memory
\* nor CLI runs add up however the user pages, and paging back costs no run.
KeepsPagesViewed ==
  /\ [](/\ DOMAIN pages = ToSet(recent)
        /\ Cardinality(DOMAIN pages) = Len(recent)
        /\ Len(recent) <= CachedPages
        /\ shown # None => shown \in DOMAIN pages)
  /\ [][CachedPages > 1 => shown \notin DOMAIN pages \ DOMAIN pages']_pageVars

\* The packet the user asked for last is the selected one, on the page that
\* holds it, even when it was asked for before the first page was read.
OpensWhatWasAsked ==
  /\ ~geometry.known => pending = wanted
  /\ geometry.known => pending = None
  /\ geometry.known /\ wanted \in RangePackets => selected = wanted
  /\ selected # None => selected \in RangePackets

\* The pages and the selection are those the user asked for.
ShowsWhatWasAsked == ShowsItsPackets /\ OpensWhatWasAsked

\* A page that stays on the screen is shown, or its failure is.
ShownPageArrives ==
  \A p \in PageNumbers :
    (geometry.known /\ page = p)
      ~> (page # p \/ (p \in DOMAIN pages /\ pages[p].state \in {"ready", "failed"}))

\* packet_pages.rs:401 "only the last requested page keeps running when paging
\* quickly".
OnlyLastRequestedRuns ==
  Cardinality({p \in DOMAIN pages : Running(pages[p])}) <= 1
===============================================================================
