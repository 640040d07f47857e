------------------------------ MODULE PsiTracker ------------------------------
(***************************************************************************)
(* The version tracking of the PAT and of the PMTs of the analyzed programs: *)
(* psiTracker of tsparser/psi_tracking.go with the psiAssembler of           *)
(* psi_section.go and the tables of psi_table.go.                           *)
(*                                                                         *)
(* A table is broadcast as sections, repeated until the sender changes it.   *)
(* Sections arrive in any order or not at all, damaged, ahead of their time  *)
(* (current_next_indicator 0), or late, when the table they belong to has    *)
(* been superseded.  A section that arrives is what psiSectionReader handed  *)
(* on; the scan is past the start of every program.                         *)
(***************************************************************************)
EXTENDS Integers, SequencesExt, FiniteSetsExt

CONSTANTS
  ProgramOrder,    \* psiTracker.programs: the program_numbers that are analyzed
  VersionModulus,  \* version_number wraps; 32 in a stream
  PatTables,       \* PATs, as sequences of the [program, pid] entries of a section
  PmtTables,       \* PMTs of each program, as sequences of [pcr, streams] sections
  NoPcr,           \* a PCR_PID that means none: 0 or 0x1FFF
  MaxChanges,      \* bound on the tables broadcast after the first ones
  Orderly          \* whether sections are late and numbers reused only as below

Pat      == 0
Programs == Range(ProgramOrder)
Tables   == Programs \cup {Pat}

ASSUME TrackerAssumption ==
  /\ ProgramOrder \in Seq(Nat \ {Pat}) /\ IsInjective(ProgramOrder)
  /\ VersionModulus \in Nat \ {0}
  /\ MaxChanges \in Nat
  /\ Orderly \in BOOLEAN
  /\ PatTables \subseteq Seq(SUBSET [program : Nat, pid : Nat]) \ {<<>>}
  /\ \A p \in Programs :
       PmtTables[p] \subseteq Seq([pcr : Nat, streams : SUBSET Nat]) \ {<<>>}

VARIABLES
  sent,       \* what the sender broadcast as each table, the last one now
  pat,        \* psiTracker.patTable, patHistory and pat
  followed,   \* trackedProgram of each program
  restarted,  \* PIDs whose continuity state the last packet deleted
  heard,      \* section numbers of each broadcast table received so far
  applied     \* broadcasts of each table applied so far, both for the properties only

trackVars == <<sent, pat, followed, restarted, heard, applied>>

-------------------------------------------------------------------------------
(* Sections and tables.  A complete table is the set of its sections.        *)

Versions == 0 .. VersionModulus - 1

Sections(b) ==
  {[version |-> b.version, number |-> i - 1, last |-> Len(b.contents) - 1,
    content |-> b.contents[i], intact |-> TRUE, current |-> TRUE] : i \in DOMAIN b.contents}

Current(t)       == sent[t][Len(sent[t])]
VersionOf(table) == (CHOOSE s \in table : TRUE).version
SectionZero(table) == CHOOSE s \in table : s.number = 0

\* newPatTable: a program listed more than once keeps its first PMT PID.
Listed(table) == {e.program : e \in UNION {s.content : s \in table}}

PmtPid(table, p) ==
  LET listing == {s \in table : \E e \in s.content : e.program = p}
      first   == CHOOSE s \in listing : \A o \in listing : s.number <= o.number
  IN (CHOOSE e \in first.content : e.program = p).pid

\* newPmtTable and layoutPids: the PCR_PID of section 0, the streams of all.
LayoutPids(pid, table) ==
  {pid} \cup ({SectionZero(table).content.pcr} \ {NoPcr})
        \cup UNION {s.content.streams : s \in table}

-------------------------------------------------------------------------------
(* psiAssembler.                                                             *)

\* CRC32 and syntax, and current_next_indicator.
Usable(s) == s.intact /\ s.current

\* add: an exact retransmission is ignored, a set that contradicts the section
\* is discarded, and a complete set is handed on.
Add(sets, s) ==
  LET collected == sets[s.version]
      agreeing  == IF \E o \in collected : o.last # s.last \/ o.number = s.number
                     THEN {} ELSE collected
      whole     == agreeing \cup {s}
  IN IF ~Usable(s) \/ s \in collected THEN [sets |-> sets, table |-> {}]
     ELSE IF Cardinality(whole) <= s.last
       THEN [sets |-> [sets EXCEPT ![s.version] = whole], table |-> {}]
     ELSE [sets |-> [sets EXCEPT ![s.version] = {}], table |-> whole]

NoSets == [v \in Versions |-> {}]

Historic(table) == [v \in Versions |-> IF v = VersionOf(table) THEN table ELSE {}]

-------------------------------------------------------------------------------
(* psiTracker.                                                               *)

\* Mutant: only the program that changes knows its PIDs.
SetLayout_OwnPidsOnly(state, p, pid, table) ==
  LET f == state.followed[p] IN
  [followed  |-> [state.followed EXCEPT ![p] = [@ EXCEPT !.pmtPid = pid, !.table = table]],
   restarted |-> state.restarted \cup (LayoutPids(pid, table) \ LayoutPids(f.pmtPid, f.table))]

\* setLayout: a PID new to every analyzed program starts a fresh continuity
\* sequence.
SetLayout(state, p, pid, table) ==
  LET known == UNION {LayoutPids(f.pmtPid, f.table) :
                        f \in {state.followed[o] : o \in {q \in Programs : ~state.followed[q].removed}}}
  IN [followed  |-> [state.followed EXCEPT ![p] = [@ EXCEPT !.pmtPid = pid, !.table = table]],
      restarted |-> state.restarted \cup (LayoutPids(pid, table) \ known)]

Fresh(f) == [f EXCEPT !.sets = NoSets, !.moved = TRUE]

\* Mutant: a program that returns to the PAT is followed again.
FollowPat_Resumes(table, state, p) ==
  LET f == state.followed[p] IN
  IF p \notin Listed(table) THEN [state EXCEPT !.followed[p].removed = TRUE]
  ELSE IF PmtPid(table, p) = f.pmtPid THEN [state EXCEPT !.followed[p].removed = FALSE]
  ELSE LET s == SetLayout(state, p, PmtPid(table, p), f.table)
       IN [s EXCEPT !.followed[p] = [Fresh(@) EXCEPT !.removed = FALSE]]

\* applyPat, for one program: it stops when the PAT no longer lists it, and its
\* PMT is read from the PID the PAT gives it.
FollowPat(table, state, p) ==
  LET f == state.followed[p] IN
  IF f.removed THEN state
  ELSE IF p \notin Listed(table) THEN [state EXCEPT !.followed[p].removed = TRUE]
  ELSE IF PmtPid(table, p) = f.pmtPid THEN state
  ELSE LET s == SetLayout(state, p, PmtPid(table, p), f.table)
       IN [s EXCEPT !.followed[p] = Fresh(@)]

\* Mutant: a late retransmission of a superseded version is applied.
IsNew_NoHistory(current, history, table, moved) ==
  VersionOf(table) # VersionOf(current) \/ (moved /\ table # current)

\* Mutant: a PMT on a new PID needs a new version_number.
IsNew_IgnoresMove(current, history, table, moved) ==
  VersionOf(table) # VersionOf(current) /\ history[VersionOf(table)] # table

\* The version differs (or the PMT PID is new), and the table is not the one
\* last applied with its version_number.
IsNew(current, history, table, moved) ==
  /\ VersionOf(table) # VersionOf(current) \/ (moved /\ table # current)
  /\ history[VersionOf(table)] # table

\* applyPat.
ApplyPat(table) ==
  IF ~IsNew(pat.table, pat.history, table, FALSE)
  THEN [followed |-> followed, restarted |-> {}]
  ELSE LET after[n \in 0 .. Len(ProgramOrder)] ==
             IF n = 0 THEN [followed |-> followed, restarted |-> {}]
             ELSE FollowPat(table, after[n - 1], ProgramOrder[n])
       IN after[Len(ProgramOrder)]

\* A section of the PAT arrives.
ObservePat(s) ==
  LET added == Add(pat.sets, s)
      new   == added.table # {} /\ IsNew(pat.table, pat.history, added.table, FALSE)
      after == IF added.table = {} THEN [followed |-> followed, restarted |-> {}]
               ELSE ApplyPat(added.table)
  IN /\ pat' = IF ~new THEN [pat EXCEPT !.sets = added.sets]
               ELSE [table   |-> added.table,
                     history |-> [pat.history EXCEPT ![VersionOf(added.table)] = added.table],
                     sets    |-> added.sets]
     /\ followed' = after.followed
     /\ restarted' = after.restarted

\* applyPmt and setLayout.
ApplyPmt(p, added) ==
  LET f   == followed[p]
      new == IsNew(f.table, f.history, added.table, f.moved)
      g   == [f EXCEPT !.sets = added.sets, !.moved = FALSE,
                       !.history[VersionOf(added.table)] = IF new THEN added.table ELSE @]
      state == [followed |-> [followed EXCEPT ![p] = g], restarted |-> {}]
      after == IF new THEN SetLayout(state, p, f.pmtPid, added.table) ELSE state
  IN followed' = after.followed /\ restarted' = after.restarted

\* A section of the PMT of program p arrives on pid.
Reads(p, pid) == ~followed[p].removed /\ followed[p].pmtPid = pid

ObservePmt(p, pid, s) ==
  /\ UNCHANGED pat
  /\ LET added == Add(followed[p].sets, s) IN
     IF ~Reads(p, pid) THEN UNCHANGED followed /\ restarted' = {}
     ELSE IF added.table = {}
       THEN followed' = [followed EXCEPT ![p].sets = added.sets] /\ restarted' = {}
     ELSE ApplyPmt(p, added)

-------------------------------------------------------------------------------
(* The sender, and what arrives.                                             *)

Changes == FoldFunction(LAMBDA log, n : Len(log) - 1 + n, 0, sent)

NextVersion(t) == (Current(t).version + 1) % VersionModulus

\* With Orderly, a version_number is used again only when the table that had it
\* is not in use, its content differs, and what is left of it in a set can be
\* told from the new one by its size.
MayBroadcast(t, b) ==
  Orderly => LET receiver == IF t = Pat THEN pat ELSE followed[t]
             IN /\ VersionOf(receiver.table) # b.version
                /\ \A s \in receiver.sets[b.version] : s.last # Len(b.contents) - 1
                /\ receiver.history[b.version] # Sections(b)

\* With Orderly, a PMT moves to a PID it was not on before, and takes either the
\* table in use there or a content that was not applied with its version_number.
PidsUsed(p) == {sent[p][k].pid : k \in DOMAIN sent[p]}

MayMove(p, b) ==
  Orderly => /\ b.pid \notin PidsUsed(p)
             /\ \/ followed[p].table = Sections(b)
                \/ followed[p].history[b.version] # Sections(b)

ChangePmt(p) ==
  /\ Changes < MaxChanges
  /\ \E c \in PmtTables[p] \ {Current(p).contents} :
       LET b == [version |-> NextVersion(p), contents |-> c, pid |-> Current(p).pid] IN
       /\ MayBroadcast(p, b)
       /\ sent' = [sent EXCEPT ![p] = Append(@, b)]
  /\ heard' = [heard EXCEPT ![p] = {}]
  /\ UNCHANGED <<pat, followed, restarted, applied>>

\* A new PAT.  A PMT it moves is broadcast on its new PID from then on, with
\* the same version_number and perhaps another content.
ChangePat ==
  /\ Changes < MaxChanges
  /\ \E c \in PatTables \ {Current(Pat).contents} :
       LET b     == [version |-> NextVersion(Pat), contents |-> c, pid |-> Pat]
           table == Sections(b)
           moves == {p \in Programs \cap Listed(table) : PmtPid(table, p) # Current(p).pid}
           Moved(p, contents) == [version |-> Current(p).version, contents |-> contents,
                                  pid |-> PmtPid(table, p)]
       IN /\ MayBroadcast(Pat, b)
          /\ \E pmts \in [moves -> UNION {PmtTables[p] : p \in Programs}] :
               /\ \A p \in moves : pmts[p] \in PmtTables[p] /\ MayMove(p, Moved(p, pmts[p]))
               /\ sent' = [t \in Tables |->
                             IF t = Pat THEN Append(sent[t], b)
                             ELSE IF t \in moves THEN Append(sent[t], Moved(t, pmts[t]))
                             ELSE sent[t]]
          /\ heard' = [t \in Tables |-> IF t \in moves \cup {Pat} THEN {} ELSE heard[t]]
  /\ UNCHANGED <<pat, followed, restarted, applied>>

Received(t, pid, s) == IF t = Pat THEN ObservePat(s) ELSE ObservePmt(t, pid, s)

Applied(t) == IF t = Pat THEN pat.table ELSE followed[t].table

\* The broadcasts in use, of which the last has the table's content.
InUse(t) == {k \in DOMAIN sent[t] : Sections(sent[t][k]) = Applied(t)}

NoteApplied == applied' = [t \in Tables |-> applied[t] \cup InUse(t)']

\* A section of a table as it is now broadcast.
CurrentArrives(t, s) ==
  /\ Received(t, Current(t).pid, s)
  /\ heard' = [o \in Tables |->
                 IF o # Pat /\ followed'[o].pmtPid # followed[o].pmtPid THEN {}
                 ELSE IF o = t /\ (t = Pat \/ Reads(t, Current(t).pid))
                   THEN heard[o] \cup {s.number}
                 ELSE heard[o]]
  /\ UNCHANGED sent
  /\ NoteApplied

\* A section of a table that is no longer broadcast.  With Orderly, it was
\* applied when it was, and its version_number is not in use again.
Late(t) ==
  {k \in 1 .. Len(sent[t]) - 1 :
     Orderly => /\ k \in applied[t]
                /\ \A later \in k + 1 .. Len(sent[t]) : sent[t][later].version # sent[t][k].version}

LateArrives(t, k, s) ==
  /\ Received(t, sent[t][k].pid, s)
  /\ heard' = [o \in Tables |-> IF o # Pat /\ followed'[o].pmtPid # followed[o].pmtPid
                                  THEN {} ELSE heard[o]]
  /\ UNCHANGED sent
  /\ NoteApplied

\* A section that must not be used: damaged, or of the table to come.
UnusableArrives(t) ==
  /\ \E s \in Sections([Current(t) EXCEPT !.version = NextVersion(t)]) :
       \/ Received(t, Current(t).pid, [s EXCEPT !.current = FALSE])
       \/ Received(t, Current(t).pid, [s EXCEPT !.intact = FALSE])
  /\ UNCHANGED <<sent, heard>>
  /\ NoteApplied

FirstTable(contents, pid) == [version |-> 0, contents |-> contents, pid |-> pid]

\* newPsiTracker and addProgram, with the tables acquirePat and acquirePmt found.
TrackInit ==
  /\ \E c \in PatTables, f \in [Programs -> UNION {PmtTables[p] : p \in Programs}] :
       LET table == Sections(FirstTable(c, Pat)) IN
       /\ Listed(table) = Programs
       /\ \A p \in Programs : f[p] \in PmtTables[p]
       /\ sent = [t \in Tables |-> <<IF t = Pat THEN FirstTable(c, Pat)
                                     ELSE FirstTable(f[t], PmtPid(table, t))>>]
  /\ pat = [table |-> Sections(Current(Pat)), history |-> Historic(Sections(Current(Pat))),
            sets |-> NoSets]
  /\ followed = [p \in Programs |->
                   [table |-> Sections(Current(p)), history |-> Historic(Sections(Current(p))),
                    sets |-> NoSets, pmtPid |-> Current(p).pid, moved |-> FALSE, removed |-> FALSE]]
  /\ restarted = {}
  /\ heard = [t \in Tables |-> {}]
  /\ applied = [t \in Tables |-> {1}]

TrackNext ==
  \/ ChangePat
  \/ \E p \in Programs : ChangePmt(p)
  \/ \E t \in Tables :
       \/ \E s \in Sections(Current(t)) : CurrentArrives(t, s)
       \/ \E k \in Late(t) : \E s \in Sections(sent[t][k]) : LateArrives(t, k, s)
       \/ UnusableArrives(t)

TrackSpec == TrackInit /\ [][TrackNext]_trackVars

-------------------------------------------------------------------------------
(* Properties.                                                               *)

\* When every section of a table has arrived since the sender changed it, in
\* whatever order, among sections of other versions and late ones, that table
\* is the one in use: a version change is not missed, and the PMT of a program
\* that moved is taken from its new PID even with the old version_number.
HeardIsApplied ==
  \A t \in Tables :
    (t = Pat \/ ~followed[t].removed)
      /\ heard[t] = {s.number : s \in Sections(Current(t))}
        => Applied(t) = Sections(Current(t))

\* psi_tracking.go:44 "so the layout never rolls back": sections that arrive
\* late never bring back a table that was superseded, nor one put together
\* from two versions.
NeverRollsBack ==
  [][\A t \in Tables :
       Applied(t)' # Applied(t) =>
         \E k \in InUse(t)' : \A old \in InUse(t) : old < k]_trackVars

\* A program is read from the PMT PID that the PAT in use gives it; once a PAT
\* did not list it, it is neither read again nor is its layout changed, even
\* when a later PAT lists it.
ListedAreFollowed ==
  /\ [](\A p \in Programs : ~followed[p].removed =>
          p \in Listed(pat.table) /\ followed[p].pmtPid = PmtPid(pat.table, p))
  /\ [][\A p \in Programs : followed[p].removed => followed'[p] = followed[p]]_trackVars

PidsOf(p) ==
  IF followed[p].removed THEN {} ELSE LayoutPids(followed[p].pmtPid, followed[p].table)

PidsInUse == UNION {PidsOf(p) : p \in Programs}

\* The continuity state of a PID is deleted when no program used it before, so
\* a pause is no error, and kept while a program goes on using it, so a loss is
\* still one, whatever the other programs do.
ContinuityKept ==
  [][followed' # followed =>
       /\ \A p \in Programs : PidsOf(p) \cap PidsOf(p)' \cap restarted' = {}
       /\ PidsInUse' \ PidsInUse \subseteq restarted']_trackVars

\* The programs that are analyzed, and the continuity of their PIDs, follow the PAT
\* in use.
FollowsThePat == ListedAreFollowed /\ ContinuityKept
===============================================================================
