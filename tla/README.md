# mpeg-ts-analyzer: a TLA+ model

This directory holds TLA+ specifications of mpeg-ts-analyzer, the TLC
configurations that check them on small instances and TLAPS proofs about them.
Every definition is translated from the code under `src/`; `PROJECT.json` maps it
to the lines it stands for.

To check a run: `tlc -config MCGui.cfg MCGui`. To check a proof: `tlapm
Gui_proofs.tla`.

## 1. The system

The repository holds two programs. The CLI (Go: `tsparser`, `internal/analysis`)
reads an MPEG-2 transport stream once, front to back, in one goroutine, and writes
a report. The GUI (Rust: `gui/`) never parses a stream: it starts the CLI as a
child process, reads its JSON, and shows it. The GUI is concurrent (a UI thread,
threads per child process, a download thread); the CLI is sequential, but it is a
set of state machines fed by one packet sequence that interact through callbacks.

| Component | State | Operations | Interacts with |
|---|---|---|---|
| CLI process supervisor (`gui/src/cli/process.rs`, `bounded.rs`) | child process, two pipes, stop flag, event queue | spawn, cancel, drop; the supervisor's loop | UI thread, reader threads, the OS |
| CLI capabilities check (`gui/src/cli.rs`) | a program, its output, one deadline | run, poll, read, judge | session, any program |
| GUI session (`gui/src/app.rs`, `range_bar.rs`, `cli.rs`) | open file, range, CLI in use, running job, result and what is derived from it | one `show` per frame; open, start, confirm, cancel | requests, pages, updater |
| Packet pages (`views/packet_pages.rs`) | page cache, one fetch in flight, selection | go to, select, update, evict | packet requests |
| Updater (`gui/src/update.rs`) | phase, one receiver, prompted and skipped versions | check, poll, install, skip, restart | GitHub, the installer, session |
| Packet reader (`tsparser/sync.go`, `framing.go`, `internal/analysis/sync.go`) | input position, sync state, look-ahead buffer | next, resynchronize, trailing bytes | every check |
| Stream analysis (`tsparser/stream.go`, `range_analysis.go`) | start offset, programs found, retries | find tables, scan, retry after an error | packet reader, program analyzers |
| Continuity check, transport trust (`continuity_counter.go`, `transport_trust.go`) | last counter and packet per PID, what was excluded | Check, Forget | scan, program analyzers, section reader |
| PSI sections and tables (`psi_section.go`, `psi_table.go`, `pat.go`, `pmt.go`) | one partly assembled section per PID, sections of a table version | push, reset, add | PSI tracking, PSI health |
| PSI tracking and layout (`psi_tracking.go`, `psi_layout.go`) | PAT/PMT in use, programs, the log of sections, transitions | observe, apply a change from the next packet on, report | program analyzers |
| Program analyzer (`mpeg_packet.go`) | PES packet in progress per PID, last PCR, layout | observe, observePcr, breakPES, setLayout, stop, finish | PCR check, PES feed, anomaly check |
| PCR check and timeline (`internal/analysis/pcr.go`, `pes_health.go`) | previous PCR, segment and unwrapped time | Observe, nextPcrAnchor, arrivalAt | program analyzer |
| Bitrate, jitter, series (`bitrate.go`, `pcr_jitter.go`, `series.go`) | bytes since the last PCR, windows, PCR samples | markPcrStep, addPcr, evaluate | program analyzer |
| PES feed (`pes_health.go`) | observations held until the next PCR | observe, observeBreak, release | PES check |
| PES check (`internal/analysis/pes.go`) | per PID counts, open PTS intervals | ObservePES, ObserveBreak, ObserveProgramLayout, results | PES feed |
| Timestamp anomaly check (`timestamp_anomaly.go`) | last PTS/DTS and smallest step per PID | Check, markUntimed, drop | program analyzer |
| Mux lead (`mux_lead.go`, `pes_lead.go`) | lead of the last PES packet per PID | observeLead, compareLeads, forget | PES check |
| Packet gaps, PID references (`packet_gaps.go`, `pid_references.go`, `pcr_clock.go`) | a clock, stamps waiting for it, intervals per PID | observe packet, PCR, layout, finish | scan |
| PSI health (`psi_health.go`) | instances per table since the last PCR, their intervals | observe, PAT applied, result | section reader, tracker |
| Decoders and packet detail (`ts_packet.go`, `adaptation_field.go`, `pes.go`, `pat.go`, `pmt.go`, `packet_detail.go`, `packets.go`) | one object reused for every packet, PES packet or table | Initialize, Append, Parse; the layers and the unit of one packet | scan, GUI pages |
| Reports, flags, rendering, tools | formatting, or none between calls | | |

What is hard about them:

- *Concurrency* (GUI): the child may exit, block, close a pipe or leave it to a
  process it started while the user cancels or closes the window; answers arrive for
  requests that were superseded, and two results share a frame.
- *Order* (CLI): a PES packet is reported when the next one starts, but placed in
  time when the next PCR arrives, and either may be cut off by a loss, an untrusted
  payload, a PMT change or the end of the program. The same holds for the instances
  of a table and the silences of a PID: what is waiting for a PCR must survive, or be
  dropped with, whatever happens before it comes.
- *Arithmetic*: PCR and PTS wrap; a difference is a step, a wraparound or a new time
  base, and unsigned subtraction of the wrong one gives a huge number.
- *Agreement*: what the analysis uses, what the packet list shows and what the packet
  detail explains are decoded by three pieces of code, each with its own bounds.
- *Failure*: a lost sync byte, a section cut off, a parse error that restarts the scan.

The hazards are listed in `PROJECT.json`, each at its line with the properties that
would catch it.

## 2. Modules

| Module | Models | Kind |
|---|---|---|
| `CliRun` | what a CLI run promises (doc comments of `Process`) | abstract specification |
| `CliProcess` | `gui/src/cli/process.rs`, `bounded.rs` | concurrent state machine, implements `CliRun` |
| `CliCheck` | `check_command`, `read_document` | concurrent state machine |
| `PacketPages` | `gui/src/views/packet_pages.rs` | concurrent state machine |
| `Updates` | `gui/src/update.rs` | concurrent state machine |
| `Session` | `gui/src/app.rs`; extends `Updates` | composition |
| `PcrTimeline` | PCR steps, `nextPcrAnchor`, `arrivalAt` | operators |
| `PcrClock` | `PCRCheck` and the PCR half of `programAnalyzer` | state machine |
| `PcrStats` | bitrate, jitter, series; extends `PcrClock` | state machine against a definition |
| `PesFeed` | `pesFeed` | operators and a state machine of its own |
| `ProgramAnalyzer` | `programAnalyzer`: extends `PcrClock` and `PesFeed` | composition |
| `PesCheck` | `PESCheck` of `internal/analysis/pes.go` | state machine against a definition |
| `MuxLead` | mux leads; extends `PesCheck` | the same |
| `TimestampAnomaly` | `TimestampAnomaly` | the same |
| `PsiReader` | `psiSectionReader` | state machine fed by a sender over a lossy channel |
| `PacketChecks` | `continuityTracker`, `transportTrustSummary`; extends `PsiReader` | composition |
| `PsiTracker` | `psiAssembler`, `patTable`, `pmtTable`, `psiTracker` | state machine fed by a sender that changes its tables |
| `PsiLayout` | `psiLayoutRecorder`, `reportPsiLayout`; extends `PsiTracker` | composition |
| `PacketGaps` | `pcr_clock.go`, the packet-gap collector | operators |
| `PidReferences` | `PIDReferenceCheck`; extends `PacketGaps` | state machine against a definition |
| `PsiHealth` | `PSIHealthCheck`, `psiHealthCollector`; extends `PcrClock` | composition against a definition |
| `PacketReader` | `packetReader`, `SyncCheck` | state machine against a definition |
| `PacketBits` | `BitBuffer`, `fieldBuilder` | operators |
| `PacketSyntax` | `TsPacket`, `AdaptationField` and `decodeTSLayers` | decoders against each other |
| `PesHeader` | `Pes`, `decodePesHeader`, `describePesUnit` | the same |
| `TableSyntax` | `Pat`, `Pmt`, `decodePsiSection`, `packetSectionStarts` | the same |
| `PacketUnit` | `findUnit`; extends `PesHeader` | against a definition |
| `StreamScan` | `parseTsReaderReport`, `analyzeAllPrograms`, `listPrograms` | state machine |
| `*_proofs` | | proofs about the module of that name; `Gui_proofs` about those that `MCGui` composes, `Psi_proofs` about the section reader and the checks in front of it, `PsiTracker_proofs` about `PsiLayout` too, `ProgramAnalyzer_proofs` about `PcrClock`, the feed, `PsiHealth` and `PcrStats` too, `PesCheck_proofs` about `TimestampAnomaly` and `MuxLead` too |
| `Induction` | | induction, recursive functions and folds, for the proofs |
| `MC*` | values for TLC; some combine several modules as scenarios of one run | |

A module "against a definition" keeps, beside the state of the code, the whole history
of its inputs (`history`, `sent`, `carried`, `truth`, `mux`, `starts`...), which the
code's actions never read. Its main property says that the incremental, bounded state
of the code gives the result that a definition over the whole history gives. These
definitions are written from the true data (the sender's time, whole sections), not
from the code's arithmetic modulo 2^33 or its flags.

### CliProcess

Five actors: the owner of the handle, the child, a reader thread per pipe, the
supervisor. One action per atomic step: `Pipe::read` is two actions (`ReaderChecks`
reads the stop flag, `ReaderTakes`/`ReaderEnds` is the blocking read), `cancel` is two
(`CancelStores`, `CancelSends`), and the supervisor's loop is one action per event it
receives, plus `SupKills`, `SupWaits`, `SupPolls` and `SupFinishes`, so every other
actor may run between the check of `status` and the kill. The child writes chunks and
may close its outputs, exit at any time or never, and leave its pipes to a descendant
(`heirs`), which closes them whenever it likes or never. The kernel's part (pipes,
exit, kill, wait) is external. Output is counted in chunks: whether it is valid JSON
does not matter to the run.

`CliRun` has three variables: whether the process exists, whether the run was asked
to stop, how it settled. `CliProcess` implements it under the mapping `Abstract`,
including the liveness of a cancelled run.

### CliCheck

Any program can be chosen as the CLI, so the program of the model may write nothing, a
whole document of each kind or too much, exit or not, and leave its output open to a
process it started. `PollTool` and `AwaitOutput` are the two waits of `check_command`
with their one deadline, `ReadDocument` is the reader thread. The deadline is a flag
that becomes true at any time.

### Updates and Session

`Session` is one frame loop: `Frame` takes in what the threads have left, in the order
of `App::show`; between frames the user opens a file, edits the range, starts,
confirms, cancels, selects a program, chooses a CLI or uses the update window, and a
CLI check, an analysis or an update thread ends. A result carries its input and range,
and `packetPages`, `plots` and `program` what the code derives from it. `SessionNext`
also launches the GUI with any command line and exits it; a launch after an update runs
the version on the disk. `Updates` has the phases, the one receiver, and what each kind
of installation (`detect_from`) can do; the manifests, the signature and the requests
are one outcome or another of a thread. An in-place replacement is one step.

### PacketPages

A frame is `Update` and then what the user clicks (`Turn`, `ClickRow`, `Open`). A
fetch record is a request and its CLI run, answered at any time by `AnswerProbe`,
`AnswerPage` or `AnswerDetail`; a record that is dropped is a cancelled run
(`CliProcess` shows what that means). `ReadPage` is the CLI's side of a request,
`readPacketsPage`. The packet boundaries of a file are those of one phase: the input
keeps its synchronization. The PID filter of the listing is left out. `wanted` and
`shown` are for the properties only.

### PcrTimeline, PcrClock and PcrStats

`StepKind` is `PCRClock.Observe`; `NextPcrAnchor` and `ArrivalAt` are the functions of
the same name. `PcrClock` composes them as `observePcr`, `observe` (the indicator
without a PCR) and `setLayout` (a new PCR_PID) do. The variable `truth` is what the
sender knows, the time that really passed and the number of time bases; the properties
compare the code's 33-bit view with it. The assumption `MovesAssumption` excludes moves
of the sender's clock by about a whole wrap: no receiver can tell them from small ones.

`PcrStats` adds what is measured on the same PCRs. The bitrate follows each step as it
is classified, the jitter classifies its stored samples again at the end, so the two
may disagree with the timeline and with each other: `StatisticsAsDefined` says they do
not. A packet counts as one unit instead of 188 bytes, and a jitter is an exact
quotient where the code rounds to a floating-point number.

### PesFeed and ProgramAnalyzer

A feed is a record, so that `ProgramAnalyzer` can thread it through the several calls
one packet makes. `log` is what the PES check received; observations carry a number,
given when they reach the feed. `FeedSpec` drives the feed with any observations.

`Packet` of `ProgramAnalyzer` is one iteration of `scanPrograms` for one program: the
continuity event (`BreakPES`), the PCR (`PcrPart`, then `PlaceWith` releases the feed
and ends the brackets), then the payload. `SetLayout`, `Stop` and `Finish` are the
functions of those names. A PES packet in progress is its start, the number of packets
received, its header's kind, and the PCRs around it.

### PesCheck, MuxLead, TimestampAnomaly

`ObserveGoodHeader`, `ObserveBadHeader` and `ObserveBreak` are the calls of
`ObservePES` and `ObserveBreak`; `ObserveProgramLayout` announces a layout. The
interval in progress of a PID (`open...`, `last`) is kept as the code keeps it. Each
action of `MuxLead` is one of `PesCheck` with what it does to the leads.
`TimestampAnomaly` gives the check timestamps modulo the wrap, and judges it by their
true times. These modules receive what the feed promises (a PID's observations in order,
times that never go back within a segment); that promise is what `PesFeed` and
`ProgramAnalyzer` establish.

### PsiReader and PacketChecks

`Push` is `psiSectionReader.push`: a damaged, scrambled, empty or repeated packet, a
jump of the counter, the bytes before the pointer (`Continue`) and the sections that
start after it (`Begin`). The environment is a sender that packs sections into
packets in every way the standard allows, and a channel that delivers a packet once or
twice, spoils it or loses it. A byte is a pair, its section and its place in it, so a
section put together from two is visible; what a section says does not matter. The
sender loses fewer packets in a row than make the counter look unbroken or repeated:
beyond that only CRC32, checked when the section is added to a table, can tell.
`PacketChecks` puts the continuity counter and the transport trust of the same packets
in front, so that what the reader drops can be compared with what the report says.

### PsiTracker and PsiLayout

`ObservePat` and `ObservePmt` are `psiTracker.observe` for one section that
`psiSectionReader` handed on: `Add` (the assembler), `ApplyPat` or `ApplyPmt` with
`SetLayout` for each program concerned. A section is a record of its version, number,
last number and content, a table the set of its sections. `sent` is everything the
sender broadcast, `heard` and `applied` record what arrived and was in use. The scan is
past the start of every program.

`Orderly` states what the sender and the channel do to let a receiver follow:
sections arrive late only of a table that had been applied, a version_number is used
again only when its old table is not in use and differs from the new one by more than
what is left of it in a set can hide, and a PMT moves to a PID it was not on before.
Without it `NeverRollsBack` fails (section 6).

`PsiLayout` adds the log of sections and, at the end of the range, the layouts rebuilt
from the first tables and the transitions. A section starts and ends in one packet,
which may hold several; offsets count packets.

### PacketGaps and PidReferences

A stamp taken at a packet gets its time at the next PCR of the reference program, so
every owner of stamps waits for the clock. `PidReferences` is one record for the check,
fed with packets, PCRs and the layouts that the PAT and the PMTs form. Its properties
compare each silence, gap and unreferenced run, and each status, with those of the
stream seen at once.

### PsiHealth

The collector reads the PCR_PID before each packet and classifies the PCRs a second
time; `SegmentsAgree` says that its segments are those of the program's analyzer. An
identity is one stay of a table on a PID; the evidence of one that moved or was
withdrawn is folded into the result. What a packet completes is an input (`PsiReader`
and `PsiTracker` model the sections).

Of the intervals between instances that lie within one PCR interval, `advance` checks only
the longest against the limit, and counts the others as being in time. `RepetitionAssumption`
says why that is right: a comparable PCR interval is at most twice the repetition limit
(1000 ms in `pcr.go`, 500 ms in `psi_health.go`), so no two intervals within one are late.
An interval that began in an earlier PCR interval is checked by itself; with the longest,
two late ones may end in one PCR interval.

### PacketReader

Each action is one turn of a loop of `next` or `resync`. A byte of the input is whether
it is a sync byte; the buffer holds the input offsets its bytes came from, so a byte
that is lost, repeated or out of place is visible. `Boundaries` is the definition: where
the packets of the input are when all of it is seen.

### PacketBits, PacketSyntax, PesHeader, TableSyntax

The headers of a packet, of a PES packet and of a table are each decoded for the
analysis, for the packet list and for the packet detail. Here the value of a field is
the sequence of bit positions it was read from: two decoders agree only when they read
the same bits in the same order, for every content of those bits. The bytes that steer a
decoder (flags, lengths, identifiers) have values; a packet is the function of its
bytes that are not 0.

`Parse` and `Collected` parse one packet after another with the same object, as a scan
does; `PacketAsItself` and `PesAsItself` say that nothing of the one before is left.
`DetailAgrees`, `TimestampsAgree`, `RowsAgree` compare the packet detail with the
analysis, `ListAgrees` and `ListsSections` the packet list; `AcceptedAsDefined` and
`AcceptedWhenFilled` say which headers and sections are used, without the order of the
code's checks. The packet detail decodes what one packet holds, so it may show less; it
says so (`truncated`) exactly then. Descriptors are walked but not read.

### PacketUnit

`AskDetail` is `readPacketDetail` on a file of packets, a range and an offset. `FindUnit`
walks back to the start of the unit, on to the next one, and gathers the payloads the
PES header needs. `UnitsAgree` compares it with the packets of the range seen at once. A
packet that begins in the range and ends after it (`CutByRange`) may be asked for, and then
counts itself; the search from another packet of its unit leaves it out (section 6).

### StreamScan

The discovery loop, the collection of the tables, the scan and every retry, for one
program, for all of a range and for the listing. The input is a sequence of aligned
packets, each a PAT, an empty PAT, a PMT, another or one that cannot be parsed.
`fileOffset` (what discovery adds up) and `reader` (where the input really is) are
apart, as they are in the code. A read of discovery holds `readPackets` whole packets.

`findPat` needs the two packets after a PAT to recognize it, and the next read begins after
the last byte of the one before: a PAT in the last two packets of a full read is left out.
`CompleteWhenPossible` therefore promises a complete result in two cases (`OneIsFound`): a
PAT that allows it in an input that one read holds, and two such PATs in a longer one whose
distance no sequence of full reads can bring into two such places.

## 3. Runs

A run may have several scenarios: a behaviour follows one of them from its initial
state on, and the properties of the others hold in it trivially. The scenarios of one
run share a component or its environment.

| Run | Instance | Shows |
|---|---|---|
| `cli_run` | limit 1, pipe size 1, one cancel and a drop, descendants | the safety of a run in every interleaving; writes complete, ended and refused runs settle; refinement of `CliRun` with its liveness |
| `gui` | *pages*: packets of 2 bytes, pages of 2, 2 pages kept, 2 opened packets, 3 ranges. *check*: any program. *analysing*: inputs of 1 and 4 units, ranges of at least 2, confirmed above 3, 2 CLIs, 2 starts, 2 changes. *updating*: 3 releases, 2 launches | a page holds its packets and the packet asked for is selected; the check decides; the session fits together; the update tells what happens; pages are kept; everything that is waited for arrives |
| `gui_update_stops_analysis` | expected violation | an update that closes the GUI while an analysis runs |
| `program` | *delivery*: 2 PIDs, losses, untrusted payloads, 3 layouts. *timing*: 1 stream, PCRs modulo 6, jump limit 2, 2 PCR PIDs. *statistics*: the same PCRs, 3 PIDs; 5 packets each | each PES packet reported once, in order, as its type, placed exactly between two PCRs of a segment; the timeline is the sender's; bitrate and jitter are those of the timeline |
| `bitrate_windows` | expected violation | bytes in a window after the last |
| `pes_check` | *repetition*: 2 PIDs, limit 2, gaps 1 and 3, 3 layouts, 5 observations. *lead*: 2 video PIDs and an audio PID, stamps modulo 6. *anomaly*: 2 PIDs, timestamps from 14 modulo 16, steps 1, 3, 6 and -1, gap ratio 2, least excess 2 | counts, intervals, leads and anomalies are those of the definition, whatever breaks a stretch; a verdict of NG is final |
| `psi` | *reading*: 3 sections of 3 or 10 bytes, payloads of 7, counter modulo 4. *tracking*: 2 programs sharing PIDs, 3 changes, version modulo 2. *layout*: 6 sections that start | only whole sections come out, each that arrived does, and the report tells of every other; the table fully received is in use and never an older one; programs and continuity follow the PAT; the log and the layouts say what was applied |
| `psi_layout_status` | expected violation | a section that was applied and is not marked so |
| `references` | *references*: 5 packets, up to 3 PCRs 60 apart, silence limit 50, grace 40, 2 layout changes. *health*: 5 packets, 4 PCRs, 2 time bases, 3 identities, a table on 2 PIDs. *repetition*: 7 packets, the PAT. PCRs 60 apart, repetition limit 30; symmetry over the PCR PIDs and the PMT PIDs, which are only compared | silences, gaps and unreferenced runs, and table intervals, are those of the whole stream; the PCR segments of both clocks agree |
| `packets` | *reader*: packets of 3 bytes, sync byte second, every input of 0, 4, 8, 11 or 13 bytes, range ends 7 and 11, scan limit 4, buffer 11. *packet*, *header*, *table*: real sizes, chosen bytes. *unit*: files of 4 packets of 2 bytes, 3 ranges | every packet of the aligned boundaries served once; every loss and the trailing bytes reported; the scan ends; a packet, a PES header and a section are one thing to the analysis, the list and the detail, and a unit from each of its packets that lie whole in the range |
| `stream_scan` | every input of 6 packets with up to 2 faults, those of 9 where a scan fails, those of 7 and 9 whose first good PAT is late in a read; reads of 4 and 9 packets, a range of 5 | every packet counted once; a complete result when one read holds the input, or when two good PATs cannot both be left out by full reads; the retries end |
| `stream_retry` | expected violation | a failed scan retried from the same packet |

### Bounds

- `cli_run`: one of each makes every chunk a boundary case: a full pipe, the first
  chunk past the limit, a cancel beside the drop.
- `gui`: a file of five packets with bytes before and after has a short first and last
  page; two pages kept of three make eviction happen; an input of one unit is too
  small to start, a launch may ask for a range outside the input; two starts are a
  superseded result. The releases are an update, a newer one without a package for this
  platform, and a still newer one that is not final; the second launch may be of the
  version installed.
- `program`: with a modulus of six and a jump limit of two, steps lie on both sides of
  each limit, and five packets wrap the clock. Five packets are a PES packet with a PCR
  on each side, one packet more and a change. `MaxPendingPES` of three fills.
- `pes_check`: a gap of one is under the limit and two of them are at it, a gap of
  three is over it; five observations are an interval, a break, an interval and a
  layout. Leads of 2, 1 and -1 lie on both sides of half the period, and the third
  timestamp of a PID wraps. The steps of a timestamp are one frame interval, exactly the gap
  ratio of it or exactly the least excess above it, more than both, and backwards.
- `psi`: a section of three bytes is only a header, so it may be split before its length
  is known, and two fit in the payload of seven beside pointer_field, which a repeated
  packet hands on again; one of ten spans up to three packets. A version modulus of two
  makes every second change reuse a number; three changes are a change, a reuse and a
  move between them.
- `references`: a step of 60 is over the silence limit and over the grace, and it is twice
  the repetition limit, as in the code (1000 and 500 ms); the times of
  the packets between two PCRs divide evenly, so no rounding is hidden. With seven packets a
  late interval lies within a PCR interval, and one from an earlier PCR interval ends beside
  it; with a limit of 15, which the assumption forbids, `TablesAsDefined` fails. Three
  identities are a table that moves and is withdrawn or comes back.
- `packets`: 13 bytes are four packets and one byte, so a loss, an alignment found
  near the end of the scan limit and a second loss fit; the buffer is the smallest the
  code's sizes imply. The lengths of an adaptation field lie around each clock's end and
  around the end of the packet; those of a PES header and of a section are off by a few
  bytes either way, and payloads split a PES header before its flags, its length and
  each timestamp. A unit of up to four packets starts before the range, in it or not at
  all.
- `stream_scan`: two faults are a failed acquisition and a failed scan. A read of four finds
  only a PAT in its first two places, so the good PATs at the third and fourth are left out
  when discovery starts there, or comes back there after a retry, and a second one is found
  or left out by its distance. Reads of nine hold the whole input.

`CHECK_DEADLOCK FALSE` is set where the system ends: a run that has settled, an input
that is read to its end (or the bound on what is observed), and a screen on which
nothing is left to do.

### Fairness

`FairSpec` of `CliProcess` assumes that a thread that can run does (the reader threads
and the supervisor, whose `recv_timeout` returns after at most 20 ms; a call of
`cancel` or `drop` that has begun sends its event), that a killed process dies, and
that a write for which there is room completes. It does not assume that the child
exits, writes or closes anything, that a descendant does, or that the user cancels.

The GUI's fairness assumes that frames are drawn while the window is open (a thread or
request that finishes asks for one), that each CLI run that reads a page or analyzes
ends, with a result or an error, and that the threads of the check and of the update
end. The user is not fair, nor is a decoded packet that is opened. In *check*, the
program is not fair either, and the deadline need not pass: `CheckEnds` is about
checks whose time is over.

`ReaderSpec` and `ScanSpec` assume that the scan goes on: it is one thread that waits
for nothing but its input.

## 4. Proofs

Each proof module holds for every value of the constants that the named assumptions
allow; the assumptions are those of the modules and state what the code's own constants
satisfy (for `PsiHealth`, that a PCR jump limit of 1000 ms is at most twice the repetition
limit of 500 ms; `SegmentsAgree` does not depend on it).

- `ProgramAnalyzer_proofs`, first the clock (`PcrClock`): `ClockIsTrue`, for every modulus
  and jump limit and every sequence of PCRs, indicators and changes of PCR_PID. `ValueAfter` and
  `CountedInterval` are the arithmetic of the modulus; the invariant adds that a mark not
  yet seen is remembered (`MarksNoticed`) and that the anchor's time and the sender's
  differ by whole wraps (`WholeWraps`).
- `ProgramAnalyzer_proofs`, then the feed alone: its order, completeness and bound, for
  any observations. `GoodFeed` is proved once per operator (`DeliverGood`, `PushGood`,
  `ReleaseGood`, `HoldGood`) and the step lemma cites those. Order needs two more facts
  than itself: numbers never exceed `seen`, and a PID that is not marked as held has
  nothing in `pending`. For the composition it also proves what each call of the feed
  does to a set of observations: one more is reported (`Takes`), and whatever fits a set
  before and after being placed still fits it (`Fits`).
- `ProgramAnalyzer_proofs`, then the composition: what is true of `programAnalyzer` as a whole, for every set
  of PIDs, layouts and header kinds, every modulus and every `MaxPendingPES`: its clock,
  the order, that each PES packet is reported exactly once, the type it is judged as,
  and its place on the PCR timeline. See below.
- `PacketReader_proofs`: `BufferInStep`, for every packet size, sync offset, scan limit,
  buffer that is large enough and input. A buffer in step is a `Run` of input offsets;
  lemmas say that taking, putting back, appending and dropping keep it one. Then
  `ScanAsDefined`, the whole report of a scan, for the same values. See below.
- `PacketReader_proofs`, then `PesHeader`: `HeadersAgree`, for every content of the bytes
  of a PES packet and every division of it into payloads. See below.
- `PacketReader_proofs`, then `PacketUnit`: `UnitsAgree`, for every file, packet size and
  scan range. See below.
- `PesCheck_proofs`: `NgIsFinal`, for every limit, layout and sequence of PES packets,
  broken headers and breaks. What is reported of a PID is what has been recorded and, if
  it is already above the limit, the interval in progress (`Reported`); the step lemmas
  say for each operation that ending, closing or extending the interval reports no less.
  That needs `InTime`: an interval in progress is one of the PID's last time, so the PES
  packet that closes it in the same segment cannot be earlier, and its offset is past the
  one the interval began at, which is what makes it count.
- `PesCheck_proofs`, then `ResultsAsDefined`: the intervals counted, those above the
  limit, the first and the longest, of each PID and of all together, are those its history
  defines, for the same values and every finite set of PIDs. See below.
- `PesCheck_proofs`, then `TimestampAnomaly`: `AnomaliesAsDefined`, for every even period
  of the counter, every ratio and threshold, and every sequence of PES packets and layouts.
  `Tracks` says that the state of a PID is that of its last timestamp since it was dropped:
  which one it was (`IsLast`), whether a PES packet without one came since, and the least
  step so far that could be a frame interval (`IsLeast`). The arithmetic of the counter
  shows that a step is read off two stamps when it is below half the period. `FoundAt`
  compares what was found so far with the definition, kind by kind, because one PES packet
  can add a finding of two kinds.
- `PesCheck_proofs`, then `MuxLead`: `LeadsAsDefined`, for every period of the clock, every
  finite set of PIDs and every sequence of PES packets, breaks and layouts. See below.
- `ProgramAnalyzer_proofs`, then `PsiHealth`: `SegmentsAgree`, for every table, layout and sequence of PCRs. The
  collector never sees `programAnalyzer`; it classifies the PCRs once more, from the
  PCR_PID it read before the packet and with marks of its own. The invariant
  (`SameTimeline`, `SameMarks`) says that both have the same last PCR and the same mark
  pending whenever it matters, and that nothing but a PCR touches the segment counter,
  which needs `FoldExists` for the folds over the tables that a PAT announces and
  withdraws. With the clock's own theorem a segment of the collector is a time base of
  the sender.
- `ProgramAnalyzer_proofs`, then `PcrStats`: `StatisticsAsDefined`, for every modulus, jump
  limit, size of a window, set of jitter limits and tolerance, every finite set of PIDs, and
  every sequence of packets, PCRs and layouts. See below.
- `Gui_proofs`, in four parts.
  - The pages of the Packets screen: `ShowsWhatWasAsked` and `KeepsPagesViewed`, for
    every packet size, page size, cache setting, file and range. The arithmetic says
    which packets a page holds (`PageByIndex`, `PagesShowAll`) and that a request reads
    just those, although the CLI aligns the offset itself and knows nothing of the range
    (`ReadsThePage`, `FirstReads`). The invariant has one part for the time before the
    first page (`Unknown`: the packet asked for waits) and two for the time after:
    `KnownPages` gives each page kept its packets or the request for them and keeps
    `recent` without repetitions, which is why counting it bounds the pages; the page
    shown comes last of it, which is why it stays (`KeepsRecent`).
  - `CheckDecides`. The verdict is about the exit status and the document, both of which
    arrive late: `ReadToTheEnd` says that what the thread sent is what the output will
    ever be, `ReapedOnce` that only the check reaps, `Reasons` that the reason of a
    refusal stays true.
  - `UpdatesInOrder` from `MessageInv` (what a waiting message may say) and `InstallInv`
    (what an install in progress has agreed on); `SessionConsistent` from three parts,
    the CLI, the job and the result, of which each needs the one before: a job starts
    only with the CLI looked up last, a result is that of a job. `ClampInFile` is the
    arithmetic of the range.
  - The invariants of `cli_run` (`CliProcess`), and that each step of a run is a step of
    `CliRun!SafeRun` or a stutter. The inductive invariant `RunInv` relates where the
    supervisor is to what it knows (`status` against the state of the child) and a
    reader's place to its output: without it `SupKills` could meet a reaped child.
- `Psi_proofs`, first the section reader: `SectionsExactly`, for every payload size,
  counter modulus and size of the sections, and every fate of the packets. See below.
- `Psi_proofs`, then the checks in front of it (`PacketChecks`): `NothingLostSilently` and
  `ContinuityAsDefined`, for the same values. See below.
- `PsiTracker_proofs`, first `PsiTracker`: `FollowsThePat` for any sender and any channel,
  `HeardIsApplied` and `NeverRollsBack` for an orderly one, for every list of programs,
  every table and every `VersionModulus`. Then `PsiLayout` on top of it:
  `ReportsWhatWasApplied`, for the same values. See below.
- `StreamScan_proofs`: `CompleteAsDefined`, for every input, range, size of the reads (in
  whole packets) and set of programs: inputs of one read, and longer ones with two PATs that
  cannot both be left out. See below.
- `Induction`: induction over the natural numbers and over the subsets of a finite set,
  with the property given as a set, because the library's theorems take an operator,
  which the provers cannot instantiate. `RecursionExists` says that a function defined by
  recursion on its argument has a value, `FoldExists` that a fold over a finite set
  is the value of a function that takes out one element after another, `FlattenStep` what
  one more sequence adds to a concatenation of sequences.

The invariant of `ProgramAnalyzer`, `AnalyzerInv`, speaks of a feed, the PES packets in
progress and a `View` of the PCRs and layouts rather than of the variables, because one
packet is several calls that thread the feed. Its parts, and what fails without them:

- `Timeline`: the offsets of the PCRs grow, and so does the time within a segment. Two
  PES packets of one bracket would otherwise not be ordered in time.
- `ScanTypes`: types, the order of the feed, and that no more is pending than was seen.
- `Sent`: every PES packet that started is reported or in progress, once, and reports
  follow their offsets. The last point needs that nothing is reported of a PID beyond
  the PES packet in progress on it.
- `PlacedSoFar`: what has been delivered, what is held and what is in progress each
  have the place the PCRs so far allow (`LogItems`, `HeldItems`, `OpenPackets`). What
  waits is bracketed by the last PCR; what has no time is `Excused` for good, which is
  more than the property says: it must also be sure that the *next* PCR cannot be the
  second one of its bracket.
- `Judged`: everything not delivered when a layout took effect was sent under it, for
  `SetLayout` has emptied the feed first; that is why types known late are still right.

Each call of a handler (an observation completed, a break, a start, a PCR, a release)
keeps the invariant: the lemmas `...All`. The steps are composed of those; the end of
the scan, a fold over the PIDs in progress, by induction (`EndPesUnfolds`). TLC checked
the invariant on the delivery and timing scenarios of `program` before it was proved.

`StatisticsAsDefined` is about `StatsSpec`, the statistics without the PES packets, which is
the *statistics* scenario of `program` with nothing bounded but the packets. Sums are folds
over a set; `SumAdd` and `SumOfSums` say what they come to. The invariant, `StatsInv`, says:

- `MarksGood` and `ClockLinked`: the PCRs on the timeline follow one another (`Following`),
  in one segment within the jump limit or in the next segment, and the clock's last PCR is
  the last of them. `PcrMarked` uses the clock's invariant: a step is measured exactly if it
  stays in the segment, and its ticks, which the bitrate takes from `StepTicks`, are those
  the timeline counts on.
- `BitrateGood`: what waits (`pending`) are the packets since the last PCR, whatever layout
  came between; the totals are sums over the intervals, the buckets those over the intervals
  that began in their window, and `elapsed` is the sum of all (`Measured`). That the windows
  exist is arithmetic (`WindowExists`): no more PCRs than packets, no interval over the limit.
- `SamplesGood`: classifying two stored samples again gives the segment boundary and the
  ticks that were found when the second one arrived. That is what `pidChanged` is stored for.

The jitter and the delivery windows are folds over those samples, so the rest is induction
over the samples (`TimedFolded`, `WindowsFolded`). `PcrsPlaced` relates the segments to the
timeline in both directions: every sample of a segment is a PCR of the segment with that
number, at its time, and every PCR is in one. The interior samples, and so the jitter points,
are then the same (`PointsAreJitter`). `Delivered` says that a window lies between two PCRs of a
segment, and that in an even stream it is at the stream's rate (`AtRate`). Rates add up, so all
windows together are at that rate and none deviates from it, for any tolerance
(`NoneDeviates`); the jitter of an even stream is zero (`EvenHasNone`).

`ScanAsDefined` compares a loop over a buffer with a recursion over the whole input,
`Boundaries`. `BoundariesRecur` says that the recursion has a value, by induction from the
end of the input. The invariant `Finding` then says how far the scan is along it:

- `Visited(V, here)`: the boundaries are those of a set `V` behind the reader and what the
  recursion has from `here` on. A packet adds one to `V` (`VisitPacket`), a loss when its
  alignment is found (`VisitLoss`); the scan ends where the recursion does (`VisitLast`).
- `Counted` and `Recovered`: the check's counters are those of the losses in `V`. During a
  search one more is counted than was made good. The sum of what was skipped is a fold
  whose order is not the order of the losses, so `SumOrder` shows that the order does not matter.
- `SearchedTo`: no alignment lies between the loss and the byte looked at, so the one
  found is the first, and past the limit a whole lookahead at the limit was read, which is
  why `StopAtLimit` and `StopWithoutMore` never give each other's reason. That needs a limit
  of at least one byte, which `ReaderAssumption` states.

The lemmas `...AtHand` say that the tests of the code, on the buffer and on how much it
could be filled, are those of the definition on the input and the range (`AlignedAtHand`:
the product of a packet number and the packet size stays within the lookahead).

The definition of `ResultsAsDefined` is over pairs of observations: measured intervals
between two PTSs, and lower bounds before the first and after the last PTS of a stretch
that a break, a layout or a new segment ends. The check keeps one interval in progress
instead. Its invariant, `Counts`, says which pairs have been recorded:

- While an interval is open it is that of a pair of observations (`InProgress`): its first
  one leads, nothing ended it since, and no PTS came after the first. What is recorded is
  every measured interval, and every pair that is too long but this one. When none is open
  all observations are cut off and every pair is recorded.
- An observation adds pairs in one of four ways. It is no point of the history and no pair
  changes (`KnownKept`); it opens an interval and none does either; it closes the one in
  progress, which makes one pair measured (`OneIntervalNew`) in place of the lower bound it
  was (`OneBoundLess`); or it extends it, and the pair with the new end takes the place of
  the old one (`KnownProlonged`). A pair that replaces one above the limit is above it too,
  as times do not go back.
- `TallyOf` relates the four numbers to two sets of pairs. The first interval above the limit
  is the one with the least offset because a pair that is recorded ends last.
- `HistoryOK`: the offsets of a PID's observations grow and its times do not go back. It is
  what makes a change of segment final: no later time is in a segment that was left.

The totals are folds over the PIDs (`SumsAre`, `MostOf`), which need that these are finitely
many; `CheckAssumption` says so, a PID having 13 bits. TLC checked the invariant on the
repetition scenario of `pes_check` before it was proved.

For `LeadsAsDefined` the definition looks back from every PES packet of a program to the
latest sample of each PID, and the check compares what it holds. `LeadInv` says, per PID:

- `ExtremesOK`: the counts, the least and the greatest lead are those of the samples so far.
  The lead is read modulo the period (`LeadTicksIs`), so it is the true one only below half
  of it; that is what `LeadAssumption` says of the stamps, and `pes_lead.go:28` of `LeadTicks`.
- `LatestOK`: what the check holds as the latest sample is the one the definition finds, or
  neither has one. A break forgets it on its PID, a layout where it changes the PID (`LatestNow`).
- `ComparedOK`: the comparisons and the worst of them are those of the pairs so far. A PES
  packet adds at most one pair to each audio PID (`ComparisonsGrow`), the pairs that the
  code's two branches go through, from the audio or from the video side
  (`PairsAreTriggered`). That needs `LayoutOK`: the PIDs remembered as audio and video are
  those of the last layout.

The worst audio PID is then the lowest of those that are equally far apart, which is why
`LeadAssumption` has PIDs that are numbers. TLC checked the invariant on the lead scenario of
`pes_check` before it was proved.

For the section reader, the lemmas go from bytes to packets to steps. `BytesOfNext` says
which byte of the sections that come next is where, `BeginIs` what the reader makes of a
packet in which sections start: those that end in it are handed on and the last may go on.
`Begin` is a recursive function of the place in the packet, so that is an induction from
the end of the packet (`BeginRecurs`). `PushIs` puts the section that goes on before
them, and `CopyIs` says that a copy of the packet does nothing while a section is in
progress and the same again when none is. The invariant `ReaderInv` then needs:

- `SenderInv`: what is still to be sent is the end of the last section that was begun.
- `CollectInv`: the section in progress is that one, complete up to what is still to be
  sent, if no packet has been lost since; if some have been, the counter is ahead by
  their number, which is fewer than would wrap it, so the next packet that is used
  discards the section (`CounterGoesOn`). That bound is the sender's, in `SendLost`.
- `OutIs`: what was handed on are sections as sent, in order. A section in progress must
  come after all of them, which is why a whole section before it in the same packet has
  a smaller number.
- `NotMissed`: a section of which nothing was lost is handed on or in progress.

For the checks in front of it, `ArrivalChecked` says what they find in a packet sent once
or twice, from what the sender lost before it: the counter is ahead of the last packet of
the file by the packets lost since (`PreviousInv`), fewer than would wrap it. The rest of
`ChecksInv` relates the reader's knowledge to that of the checks, which keep separate
counters: a section that is open is the one the reader has in progress, unless packets
were lost and the next one will tell of it (`OpenInv`); when the reader's counter lags
behind, the check's does too, or did at a packet whose payload the reader did not use
(`ToldInv`). What is over and not handed on then needs a packet of which something is told
(`WholeKeeps`), by the lemma about the reader (`Delivered`).

TLC checked both invariants on the reading scenario of `psi` before they were proved.

In the tracker's part, a new PAT is a loop over the programs in which each call of
`setLayout` sees what the ones before did. `Follows` says what becomes of one program,
`Continues` which continuity state may and must be deleted between the state before the
PAT and any state on the way; both are carried through the loop by induction
(`PatFollowsAll`), so the order of the programs does not matter.

`OrderlyInv` is one invariant per table, of its broadcasts and its receiver, in terms
of the broadcasts whose version_number no later one has (`Newest`):

- `Remembers`: a broadcast that was applied is still the table remembered with its
  version_number. A late section can complete no other table, and that one is not new.
- `Collects`: what a set holds of a version_number is part of that broadcast, or any
  section of the broadcast discards it. A complete set is therefore the broadcast and no
  mixture (`AddHeld`), which needs that sections are told apart by their numbers and
  counted (`SectionsCounted`, `AllOfThem`).
- `Awaits`: the table broadcast now is in use or will be new when it is complete. For a
  PMT that moved with its version_number it is `moved` that makes it new, and a late
  section must not clear it first: it cannot, the PID being one the PMT was not on
  (`NewOn`).
- `Gathers`: a set has every section received since the broadcast, so it is complete
  when all have been, and then it is no set any more (`Unfinished`).
- `SentAsListed` and `ListensOn`: a program is switched to the PID its PMT is on.

Each conjunct of `Orderly` is used once: reuse of a version_number in `NextBroadcast`,
a move in `MovedBroadcast`, late sections in `LateTaken`. TLC checked the invariant on
the tracking scenario of `psi` before it was proved.

The layout report uses that invariant: a table changes only to the one that is broadcast,
so what it reports as used is what was `applied`. `LayoutInv` adds:

- `LogInv`, of the recorder alone. Runs with one header follow one another (`RunsApart`), so
  a packet is in at most one. That holds because a copy that does not extend its run finds
  it closed: a valid run by an invalid section, which raised the epoch, and an invalid one by
  whatever came after it on its PID (`RunsShut`). Each section is in a run that tells what it
  was (`SectionsPlaced`) and counts it (`CopiesCounted`). The first sections are a fold of the
  same operator (`LogFolded`).
- `TransitionsInv`, `UsesInv`: the changes are in the order of the packets, and the tables of
  the report, the first and those changed to, are the tables of the broadcasts applied. An
  entry is therefore `not_applied` just when none of them had its section.
- `ProgramsInv`: replaying the changes gives the PAT's programs with the PIDs and PMTs in use,
  and none for a program that was left. A program that a PAT lists again is not followed
  again, which the replay gets right because the PAT without it has removed its PMT. A PMT
  that is moved keeps its table in both, until one arrives on its new PID.

`CollectedNext` replays the changes into layouts: each starts where the one before ends, and
all but the last have packets (`HavePackets`); the last has none when the last packet
completes a change.

For `CompleteAsDefined` the argument is that no retry leaves both PATs of a pair behind
(`Target`; the pair is one PAT when a read holds the input), although the reader is put back
and discovery may count from one packet before it. `ReaderPlaced` says where the reader is: at
the PAT found, later at the end of a table, always within the range. `TargetReached` says that
the PAT and PMT are acquired no later than from the second of the pair (`AcquiredNoLater`, from
what the second packet of a table is, `SecondIs`), and that discovery is `NotPast` the pair: not
past the first, or past it by one or two packets and a number of full reads and not past the
second. What cannot be parsed lies before both (`TargetIs`), so a failure retries before them
(`RetryKeeps`). One read of discovery finds a PAT that it is not past, or it is full and ends at
most two packets after it (`ReadReaches`); what it finds is not behind that PAT (`FoundBefore`).
So a reader that passes the first of the pair passes it by a full read, and full reads from
there cannot pass the second, because the distance of the two would have one of the remainders
that `OneIsFound` excludes (`RemainderOf`, `NearFullReads`, `NotPastNext`). TLC checked the
property on the inputs of `stream_scan` before it was proved.

For `HeadersAgree` the state is little (`HeaderIsOfPacket`: the `Pes` is what comes of the
last PES packet alone) and the operators are much. `ProblemIs` says that the checks of
`Parse`, whose first failure is reported, all pass exactly on the headers that
`AcceptedAsDefined` describes; `ExtensionFits` is the part of it about the extension, which
`pesExtensionSize` may leave early when a length lies past the header. An accepted header
ends within what `Pes` retains (`PayloadsFolded`), so the payloads that `describePesUnit`
gathers hold it (`GatheredIs`), with the timestamps in it. That the timestamps are the same
33 bits is `TimestampIs`: `pesTimestamp` reads five pieces, `timestampBits` three. What the
detail of the first packet shows of them is `DetailFieldsAre`: a field after one that is
not inside is not listed, which is when the layer says that it is truncated.

For `UnitsAgree` the unit is `UnitAt` of the offset asked for (`UnitIsOfOffset`), and the
rest is about the two loops of `findUnit`. Each lists a set in ascending order (`Ascending`):
`LoopBackIs` and `LoopAheadIs` say that it is the packets of the PID between the one asked
for and the nearest start, `Behind` and `Ahead`, by induction on the packets left in the
range. Those two sets and the packet are the packets that have the same start (`ListIs`); the
packet asked for is one of the packets that lie whole in the range, or the range end cuts it
and it is added to them (`WholeIsCarried`), so
the place and the neighbours in the list are the counts and extrema of the definition
(`CarriedHolds`). Asking from the first packet of a unit gives the same unit (`MemberHas`),
and what follows it is the payloads that the analysis collects, in that order (`PayloadsAre`);
`UnitStampsAre`, from the proof of `HeadersAgree`, then compares the timestamps
(`AnalyzedHolds`).

What stays with TLC: liveness and the fairness part of the refinement (the prover does
not handle fairness); the properties whose definitions count and take maxima over sets of
a history and were not proved (`PidReferences`, the tables of `PsiHealth`); the
decoders of a packet and of a table (`PacketSyntax`, `TableSyntax`), which TLC compares on
every layout of their flags.

## 5. Findings

Four places where a comment or a document says more than the code does (`findings` in
`PROJECT.json`).

- `bitrate_windows`: when the comparable intervals add up to a whole number of seconds,
  or to none, and the next PCR repeats the last value, the packets of that interval are
  in a bucket that `windowBytes` has no element for.
- `stream_retry`: a scan that fails is retried with `fileOffset` at the unparseable
  packet while the reader is after it, so the next attempt seeks one packet too far
  back; when a PAT follows directly the same packet fails a second time.
- `psi_layout_status`: a section of another version that starts between the sections of
  a table and its completion takes its place as the last entry, and no entry of the
  applied section is marked.
- `gui_update_stops_analysis`: on Windows the GUI closes when the package is downloaded,
  although an analysis may have been started meanwhile.

## 6. What is not covered

Smaller disagreements that were met and have no run:

- A descendant of the CLI that keeps a pipe open and silent keeps the reader of a
  cancelled run alive (`process.rs`); as many page runs as pages are cached may run
  while paging quickly, where a comment says one.
- A late retransmission is recognized only as the table last applied with its
  version_number: a superseded version of which a section was missing is applied when
  that section arrives late (`psi_tracking.go`; `Orderly = FALSE` shows it).
- `MuxLead()` lists programs by the last stream types of their PIDs, where
  `mux_lead.go:266` says "every program that has had both".
- `AdaptationField.Parse` reads the clocks and the splice countdown its flags announce
  even past adaptation_field_length (`adaptation_field.go`); the packet detail leaves
  them out, and so does the list for a damaged packet. `DetailAgrees` compares them as
  far as the field goes.
- Two sections with the same header that start in one packet match two entries of the
  log (`psi_layout.go:31`); `MayStart` excludes them.
- The section reader ignores discontinuity_indicator: an announced packet whose counter
  repeats or continues the last one is dropped or joined; `SendAnnounced` excludes it.
- A layout may be empty when the last packet completes a change.
- The comments on the two limits of a jump say that a step "at least this many times" the
  frame interval is a candidate and that an excess "below this (0.5 s)" is ignored
  (`timestamp_anomaly.go:32`); the code wants more than each (`:139`). `IsJump` is what the
  code does, and `pes_check` has steps of exactly both limits.
- The unit of a packet is searched "within the scan range"
  (`docs/reference/json-output.md:2379`). A packet that the end of the range cuts may be asked
  for (`packet_detail.go:115`) and then counts itself in `packets_in_range`, and is the next
  packet of none: from the other packets of its unit it is left out (`:466`). Two packets of
  such a unit are therefore told different numbers.
- `findPat` leaves out a PAT in the last two packets of a read (`stream.go:454`), and the next
  read begins after them. An input whose only usable PAT lies there is reported as incomplete
  or as no transport stream although it could be analyzed. `CompleteWhenPossible` excludes
  that case.
- A range given on the command line above the threshold starts without a question
  (`app.rs:591`), where `docs/gui/cli-interface.md:86` speaks of one; Analyze in the
  confirm dialog does nothing while the CLI is checked again; the comment on `analyzed`
  (`app.rs:58`) says "last started".
- `programAnalyzer.finish` releases the waiting PES packets without a time although its
  comment speaks of an extrapolation (`mpeg_packet.go:564`); `no_pcr_timing` is also the
  reason given to a PID whose PES packets had a time before it became video or audio
  (`pes.go:127`).

Assumptions of the models beyond the constants: the PSI-health collector sees each
PCR_PID of the reference program (at most one of its PMTs is applied per packet);
`PsiLayout`'s sections fit in a packet; the input of `StreamScan` is aligned and its reads hold
whole packets (65536 bytes are 348 packets of 188 and part of another, in which the next read
looks for the alignment anew); the
packet boundaries of a paged file have one phase.

Hazards without a property: an in-place replacement of the installed program that is
interrupted (`update.rs:703`: the steps are those of a library that is not part of this
repository), and a set of sections kept incomplete until its version_number comes round
(`psi_section.go:203`: by design it is told from a new table only by a different size or
a repeated number).

Not modelled: the text and JSON of reports, the command line and its flags; what a
descriptor says, the SDT and the text of names, the value of a CRC32 (a section has a
valid one, or its CRC32 is read at another place and does not match); the names and
formats of the packet detail's values, its dump, its extension fields and the header and
trailer around 188 bytes; the listing's PID filter; the views of
the GUI, its settings and the drawing of a frame; progress events; detection of the
packet size, a choice between fixed patterns; the buffering of reads; read errors of the
input; floating-point rounding; fixture generators and the documentation check.

## 7. Next

- The PES half of the series and the roles of the PIDs in the layout report.
- `PsiTracker` composed with `ProgramAnalyzer`, so that a change of table reaches the
  PES packets in progress in one behaviour.
