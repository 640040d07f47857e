------------------------------- MODULE PsiLayout -------------------------------
(***************************************************************************)
(* The PSI layout of an analyzed range: psiLayoutRecorder and                *)
(* reportPsiLayout of tsparser/psi_layout.go, beside the psiTracker whose    *)
(* changes they use.                                                        *)
(*                                                                         *)
(* The recorder logs the PAT and PMT sections of every PID, identical copies *)
(* as one run; the report tells which runs the analysis applied, and rebuilds *)
(* the layouts from the first tables and the changes.  Offsets count packets; *)
(* a section starts and ends in one packet, which may hold several.          *)
(***************************************************************************)
EXTENDS PsiTracker

CONSTANT MaxStarts  \* bound on the sections that arrive

VARIABLES
  at,           \* the packet being read
  log,          \* runs, epoch and latest of psiLayoutRecorder
  transitions,  \* psiTracker.transitions
  first,        \* the first complete tables and the packets that completed them
  starts        \* the sections that arrived, for the properties only

layoutVars == <<at, log, transitions, first, starts>>

Pids == {Pat} \cup UNION {UNION {{e.pid : e \in c[i]} : i \in DOMAIN c} : c \in PatTables}

-------------------------------------------------------------------------------
(* psiLayoutRecorder.                                                        *)

\* A section as it is logged, and what the runs tell apart by.
Start(pid, t, s, pos) == [pid |-> pid, table |-> t, section |-> s, pos |-> pos]

Header(e) == <<e.pid, e.table, e.section.version, e.section.current,
               e.section.number, e.section.last>>

Key(e) == <<e.pid, e.table, e.section.current, e.section.number>>

\* What the reader dropped, or an invalid section, closes the valid runs of a PID.
Closed(l, pid) == [l EXCEPT !.epoch[pid] = @ + 1]

Interrupted(l, pid) == [l EXCEPT !.latest[pid] = 0]

OfKey(l, e) == {i \in DOMAIN l.runs : l.runs[i].section.intact /\ Key(l.runs[i]) = Key(e)}

\* The run a section extends, or none.
ExtendsRun(l, e) ==
  IF e.section.intact
    THEN {i \in OfKey(l, e) : /\ \A j \in OfKey(l, e) : j <= i
                              /\ l.runs[i].epoch = l.epoch[e.pid]
                              /\ l.runs[i].section = e.section}
    ELSE {i \in {l.latest[e.pid]} \ {0} : /\ ~l.runs[i].section.intact
                                          /\ Header(l.runs[i]) = Header(e)}

Longer(r, e) == [r EXCEPT !.last = e.pos, !.count = @ + 1]

Extended(l, i, e) == [l EXCEPT !.runs[i] = Longer(@, e), !.latest[e.pid] = i]

RunOf(e, epoch) ==
  [pid |-> e.pid, table |-> e.table, section |-> e.section,
   pos |-> e.pos, last |-> e.pos, count |-> 1, epoch |-> epoch]

NewRun(l, e) ==
  [l EXCEPT !.runs = Append(@, RunOf(e, l.epoch[e.pid])), !.latest[e.pid] = Len(l.runs) + 1]

\* Mutant: an invalid section leaves the valid runs open.
AddSection_KeepsEpoch(l, e) ==
  LET extends == ExtendsRun(l, e)
  IN IF extends # {} THEN Extended(l, CHOOSE i \in extends : TRUE, e) ELSE NewRun(l, e)

\* addSection.
AddSection(l, e) ==
  LET closed  == IF e.section.intact THEN l ELSE Closed(l, e.pid)
      extends == ExtendsRun(closed, e)
  IN IF extends # {} THEN Extended(closed, CHOOSE i \in extends : TRUE, e) ELSE NewRun(closed, e)

\* markApplied: of each section of a table, the run that was current.
Marked(a) ==
  {i \in DOMAIN log.runs :
     LET r     == log.runs[i]
         mine  == {j \in OfKey(log, r) : log.runs[j].pos <= a.pos}
     IN /\ r.pid = a.pid /\ r.table = a.of /\ r.section \in a.table
        /\ i \in mine /\ \A j \in mine : j <= i}

\* What the analysis applied of a table.
Uses(t) == {first[t]} \cup {transitions[i] : i \in {j \in DOMAIN transitions : transitions[j].of = t}}

\* classifyPsiSections.
Status(i) ==
  LET r == log.runs[i] IN
  IF \E a \in Uses(r.table) : i \in Marked(a) THEN "applied"
  ELSE IF ~r.section.intact THEN "invalid"
  ELSE IF \E a \in Uses(r.table) : r.section \in a.table THEN "retransmission"
  ELSE "not_applied"

-------------------------------------------------------------------------------
(* reportPsiLayout.                                                          *)

Unknown == [pmtPid |-> 0, table |-> {}, pos |-> 0]

\* Mutant: a program that is listed again gets its PMT back.
ApplyPatToLayout_Resumes(programs, table) ==
  [p \in Listed(table) |-> [(IF p \in Programs THEN [pmtPid |-> 0, table |-> followed[p].table, pos |-> 0]
                             ELSE Unknown) EXCEPT !.pmtPid = PmtPid(table, p)]]

\* applyPatToLayout.
ApplyPatToLayout(programs, table) ==
  [p \in Listed(table) |-> [(IF p \in DOMAIN programs THEN programs[p] ELSE Unknown)
                              EXCEPT !.pmtPid = PmtPid(table, p)]]

FirstPrograms ==
  [p \in Programs |-> [pmtPid |-> first[p].pid, table |-> first[p].table, pos |-> first[p].pos]]

\* What one transition makes of the programs.
Changed(programs, tr) ==
  IF tr.of = Pat THEN ApplyPatToLayout(programs, tr.table)
  ELSE [p \in DOMAIN programs |->
          IF p = tr.of THEN [pmtPid |-> tr.pid, table |-> tr.table, pos |-> tr.pos]
          ELSE programs[p]]

\* Mutant: every change starts a layout.
Starts_EachChange(i) == TRUE

\* Changes completed by the same packet start one layout.
Starts(i) == i = 1 \/ transitions[i].pos # transitions[i - 1].pos

Emitted(r, end) == Append(r.layouts, [start |-> r.start, end |-> end,
                                      indices |-> r.indices, programs |-> r.programs])

Applies(r, i) ==
  LET tr   == transitions[i]
      next == tr.pos + 1
      s    == IF ~Starts(i) THEN r
              ELSE [r EXCEPT !.layouts = Emitted(r, next), !.start = next, !.indices = {}]
  IN [s EXCEPT !.indices = @ \cup {i}, !.programs = Changed(@, tr)]

\* The layouts of a range that ends here.
Layouts ==
  LET begin == [layouts |-> <<>>, start |-> 1, indices |-> {}, programs |-> FirstPrograms]
      after[n \in 0 .. Len(transitions)] == IF n = 0 THEN begin ELSE Applies(after[n - 1], n)
  IN Emitted(after[Len(transitions)], at + 1)

-------------------------------------------------------------------------------
(* The range.                                                                *)

\* The section starts in the next packet, or in this one after the others of its
\* PID, none of which has its header.
MayStart(pid, t, s, pos) ==
  /\ Len(starts) < MaxStarts
  /\ \/ pos = at + 1 /\ at < MaxStarts
     \/ /\ pos = at
        /\ LET here == {i \in DOMAIN starts : starts[i].pos = at} IN
           /\ here # {}
           /\ \A i \in here : /\ starts[i].pid = pid
                              /\ Header(starts[i]) # Header(Start(pid, t, s, pos))

\* record: a change of the table in use is a transition.
Recorded(t, pid, pos) ==
  transitions' = IF Applied(t)' = Applied(t) THEN transitions
                 ELSE Append(transitions, [of |-> t, pid |-> pid, table |-> Applied(t)', pos |-> pos])

Logged(t, pid, s) ==
  \E pos \in {at, at + 1} :
    LET e == Start(pid, t, s, pos) IN
    /\ MayStart(pid, t, s, pos)
    /\ at' = pos
    /\ log' = AddSection(log, e)
    /\ starts' = Append(starts, e)
    /\ Recorded(t, pid, pos)
    /\ UNCHANGED first

\* Damaged, or ahead of its time.
UnusableLogged(t, s) ==
  /\ Received(t, Current(t).pid, s)
  /\ UNCHANGED <<sent, heard>>
  /\ NoteApplied
  /\ Logged(t, Current(t).pid, s)

\* A packet after a section whose data the section reader drops, or one with
\* another table.
NothingLogged(pid) ==
  /\ at < MaxStarts
  /\ at' = at + 1
  /\ log.latest[pid] # 0
  /\ log' = Interrupted(Closed(log, pid), pid) \/ log' = Interrupted(log, pid)
  /\ starts' = starts
  /\ UNCHANGED <<transitions, first>>
  /\ UNCHANGED trackVars

\* The tables the range starts with, each in a packet of its own.
NoLog == [runs |-> <<>>, epoch |-> [pid \in Pids |-> 0], latest |-> [pid \in Pids |-> 0]]

FirstSections ==
  LET ofTable(t) == [i \in DOMAIN Current(t).contents |->
                       [of |-> t, section |-> CHOOSE s \in Sections(Current(t)) : s.number = i - 1]]
      order  == <<Pat>> \o ProgramOrder
      listed == FlattenSeq([k \in 1 .. Len(order) |-> ofTable(order[k])])
  IN [n \in DOMAIN listed |-> Start(Current(listed[n].of).pid, listed[n].of, listed[n].section, n)]

LayoutInit ==
  /\ TrackInit
  /\ starts = FirstSections
  /\ at = Len(starts)
  /\ log = FoldLeft(AddSection, NoLog, starts)
  /\ transitions = <<>>
  /\ first = [t \in Tables |->
                [of |-> t, pid |-> Current(t).pid, table |-> Applied(t),
                 pos |-> Max({starts[i].pos : i \in {j \in DOMAIN starts : starts[j].table = t}})]]

LayoutNext ==
  \/ /\ ChangePat \/ \E p \in Programs : ChangePmt(p)
     /\ UNCHANGED layoutVars
  \/ \E t \in Tables :
       \/ \E s \in Sections(Current(t)) :
            \/ CurrentArrives(t, s) /\ Logged(t, Current(t).pid, s)
            \/ UnusableLogged(t, [s EXCEPT !.current = FALSE])
            \/ UnusableLogged(t, [s EXCEPT !.intact = FALSE])
       \/ \E k \in Late(t) : \E s \in Sections(sent[t][k]) :
            LateArrives(t, k, s) /\ Logged(t, sent[t][k].pid, s)
  \/ \E pid \in Pids : NothingLogged(pid)

LayoutSpec == LayoutInit /\ [][LayoutNext]_<<trackVars, layoutVars>>

-------------------------------------------------------------------------------
(* Properties.                                                               *)

Matches(e) ==
  {k \in DOMAIN log.runs : LET r == log.runs[k] IN
     Header(r) = Header(e) /\ r.pos <= e.pos /\ e.pos <= r.last}

\* psi_layout.go:31 "For a packet that starts a section, its PID, the section
\* header and its offset therefore match at most one entry": it is the entry in
\* which that copy was counted, and tells whether the copy was valid.  It says
\* not_applied just when no table the analysis used had the section.
EntriesFound ==
  /\ \A i \in DOMAIN starts :
       \E k \in DOMAIN log.runs :
         LET e == starts[i] r == log.runs[k] IN
         /\ Matches(e) = {k}
         /\ r.section.intact = e.section.intact
         /\ e.section.intact => r.section = e.section
  /\ \A k \in DOMAIN log.runs :
       log.runs[k].count = Cardinality({i \in DOMAIN starts : k \in Matches(starts[i])})
  /\ \A k \in DOMAIN log.runs :
       LET r    == log.runs[k]
           used == UNION {Sections(sent[r.table][j]) : j \in applied[r.table]}
       IN (Status(k) = "not_applied") <=> (r.section.intact /\ r.section \notin used)

Analyzed(p) == p \in Programs /\ ~followed[p].removed

\* psi_layout.go:35: the layouts "always agree with psi_transitions".  They follow
\* one another from the start of the range to its end, each change starts one of
\* them in the packet after it, and the last one has the programs of the PAT with
\* the PIDs and PMTs that the analysis uses, and no PMT for a program it left.
LayoutsAsApplied ==
  starts # <<>> =>
    LET layouts == Layouts
        last    == layouts[Len(layouts)]
    IN /\ layouts[1].start = 1 /\ last.end = at + 1
       /\ \A k \in 1 .. Len(layouts) - 1 :
            layouts[k].end = layouts[k + 1].start /\ layouts[k].start < layouts[k].end
       /\ \A i \in DOMAIN transitions : \E k \in DOMAIN layouts :
            i \in layouts[k].indices /\ layouts[k].start = transitions[i].pos + 1
       /\ DOMAIN last.programs = Listed(pat.table)
       /\ \A p \in Listed(pat.table) :
            /\ last.programs[p].table = IF Analyzed(p) THEN followed[p].table ELSE {}
            /\ Analyzed(p) => last.programs[p].pmtPid = followed[p].pmtPid

\* The report of the tables, section by section and layout by layout, is what the
\* analysis has applied.
ReportsWhatWasApplied == EntriesFound /\ LayoutsAsApplied

\* docs/reference/json-output.md:2177 "status is applied for the entry whose
\* sections the analysis applied".
AppliedIsMarked ==
  \A t \in Tables : \A a \in Uses(t) : \A s \in a.table : \E i \in Marked(a) : log.runs[i].section = s
===============================================================================
