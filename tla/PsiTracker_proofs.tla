--------------------------- MODULE PsiTracker_proofs ---------------------------
(***************************************************************************)
(* Proofs about PsiTracker, for every set of programs, tables and            *)
(* version_numbers: what is read, and its continuity, follows the PAT in use, *)
(* whoever sends; and when the sender and the channel are orderly, a table   *)
(* that was heard is applied, none is rolled back, and the report of          *)
(* PsiLayout is what was applied.                                             *)
(***************************************************************************)
EXTENDS PsiLayout, Induction, SequenceTheorems, FunctionTheorems

-------------------------------------------------------------------------------
(* Types.                                                                    *)

Content     == (SUBSET [program : Nat, pid : Nat]) \cup [pcr : Nat, streams : SUBSET Nat]
SectionType == [version : Versions, number : Nat, last : Nat, content : Content,
                intact : BOOLEAN, current : BOOLEAN]
TableType   == SUBSET SectionType
TablesType  == [Versions -> TableType]
PidType     == Nat \cup {PmtPid(table, p) : table \in TableType, p \in Programs}

FollowedType ==
  [table : TableType, history : TablesType, sets : TablesType, pmtPid : PidType,
   moved : BOOLEAN, removed : BOOLEAN]

PidsType  == SUBSET UNION {LayoutPids(pid, table) : pid \in PidType, table \in TableType}
StateType == [followed : [Programs -> FollowedType], restarted : PidsType]

-------------------------------------------------------------------------------
(* The PIDs in use.                                                          *)

\* The PIDs of one program, and of all of them.
PidsIn(f)  == IF f.removed THEN {} ELSE LayoutPids(f.pmtPid, f.table)
AllPids(F) == UNION {PidsIn(F[p]) : p \in Programs}

\* The continuity state that is deleted on the way from F to a state st of the tracker:
\* of no PID that a program keeps, and of every PID that is new to all of them.
Continues(F, st) ==
  /\ \A p \in Programs : PidsIn(F[p]) \cap PidsIn(st.followed[p]) \cap st.restarted = {}
  /\ AllPids(st.followed) \ AllPids(F) \subseteq st.restarted

\* What SetLayout knows are the PIDs in use.
LEMMA KnownPids ==
  ASSUME NEW F
  PROVE  UNION {LayoutPids(f.pmtPid, f.table) :
                  f \in {F[o] : o \in {q \in Programs : ~F[q].removed}}} = AllPids(F)
BY DEF AllPids, PidsIn

\* The fields of the state after SetLayout.
LEMMA SetLayoutIs ==
  ASSUME NEW st \in StateType, NEW p \in Programs, NEW pid \in PidType, NEW table \in TableType
  PROVE  LET s == SetLayout(st, p, pid, table) IN
         /\ s \in StateType
         /\ s.followed[p].pmtPid = pid /\ s.followed[p].table = table
         /\ s.followed[p].history = st.followed[p].history
         /\ s.followed[p].sets = st.followed[p].sets
         /\ s.followed[p].moved = st.followed[p].moved
         /\ s.followed[p].removed = st.followed[p].removed
         /\ \A q \in Programs : q # p => s.followed[q] = st.followed[q]
         /\ s.restarted = st.restarted \cup (LayoutPids(pid, table) \ AllPids(st.followed))
<1> DEFINE s == SetLayout(st, p, pid, table)
           g == [st.followed[p] EXCEPT !.pmtPid = pid, !.table = table]
<1>0. st.followed \in [Programs -> FollowedType] /\ st.restarted \in PidsType
  BY DEF StateType
<1>1. /\ g \in FollowedType /\ g.pmtPid = pid /\ g.table = table
      /\ g.history = st.followed[p].history /\ g.sets = st.followed[p].sets
      /\ g.moved = st.followed[p].moved /\ g.removed = st.followed[p].removed
  <2>1. st.followed[p] \in FollowedType
    BY <1>0
  <2>2. QED BY <2>1 DEF FollowedType
<1>2. /\ s.followed = [st.followed EXCEPT ![p] = g]
      /\ s.restarted = st.restarted \cup (LayoutPids(pid, table) \ AllPids(st.followed))
      /\ s = [followed |-> s.followed, restarted |-> s.restarted]
  BY KnownPids DEF SetLayout
<1> HIDE DEF s, g
<1>3. s.followed \in [Programs -> FollowedType]
  BY <1>0, <1>1, <1>2
<1>4. s.restarted \in PidsType
  <2>1. LayoutPids(pid, table) \in PidsType
    BY DEF PidsType
  <2>2. QED BY <1>0, <1>2, <2>1 DEF PidsType
<1>5. s \in StateType
  BY <1>2, <1>3, <1>4 DEF StateType
<1>6. s.followed[p] = g /\ \A q \in Programs : q # p => s.followed[q] = st.followed[q]
  BY <1>0, <1>2
<1>7. QED BY <1>1, <1>2, <1>5, <1>6 DEF s

\* SetLayout keeps the continuity of what is in use.
LEMMA SetLayoutContinues ==
  ASSUME NEW F, NEW st \in StateType, NEW p \in Programs, NEW pid \in PidType,
         NEW table \in TableType, Continues(F, st), PidsIn(st.followed[p]) = PidsIn(F[p]),
         ~st.followed[p].removed
  PROVE  Continues(F, SetLayout(st, p, pid, table))
<1> DEFINE s == SetLayout(st, p, pid, table)
           new == LayoutPids(pid, table) \ AllPids(st.followed)
<1>1. /\ s.followed[p].removed = st.followed[p].removed
      /\ s.followed[p].pmtPid = pid /\ s.followed[p].table = table
      /\ \A q \in Programs : q # p => s.followed[q] = st.followed[q]
      /\ s.restarted = st.restarted \cup new
  BY SetLayoutIs
<1>2. PidsIn(s.followed[p]) = LayoutPids(pid, table)
  BY <1>1 DEF PidsIn
<1> HIDE DEF s
<1>3. ASSUME NEW q \in Programs
      PROVE  PidsIn(F[q]) \cap PidsIn(s.followed[q]) \cap s.restarted = {}
  <2>1. PidsIn(st.followed[q]) \subseteq AllPids(st.followed)
    BY DEF AllPids
  <2>2. PidsIn(F[q]) \cap PidsIn(st.followed[q]) \cap st.restarted = {}
    BY DEF Continues
  <2>3. CASE q = p
    BY <1>1, <2>1, <2>2, <2>3
  <2>4. CASE q # p
    BY <1>1, <2>1, <2>2, <2>4
  <2>5. QED BY <2>3, <2>4
<1>4. ASSUME NEW x \in AllPids(s.followed), x \notin AllPids(F)
      PROVE  x \in s.restarted
  <2>1. PICK q \in Programs : x \in PidsIn(s.followed[q])
    BY DEF AllPids
  <2>2. CASE x \in AllPids(st.followed)
    BY <1>1, <1>4, <2>2 DEF Continues
  <2>3. CASE x \notin AllPids(st.followed)
    <3>1. q = p
      BY <1>1, <2>1, <2>3 DEF AllPids
    <3>2. QED BY <1>1, <1>2, <2>1, <2>3, <3>1
  <2>4. QED BY <2>2, <2>3
<1>5. QED BY <1>3, <1>4 DEF Continues, s

\* A state with the same PIDs.
LEMMA SameContinues ==
  ASSUME NEW F, NEW s, NEW r, Continues(F, s), r.restarted = s.restarted,
         \A q \in Programs : PidsIn(r.followed[q]) = PidsIn(s.followed[q])
  PROVE  Continues(F, r)
BY DEF Continues, AllPids

\* A state without the PIDs of a program.
LEMMA FewerContinues ==
  ASSUME NEW F, NEW s, NEW r, NEW p \in Programs, Continues(F, s), r.restarted = s.restarted,
         r.followed[p].removed, \A q \in Programs : q # p => r.followed[q] = s.followed[q]
  PROVE  Continues(F, r)
<1>1. \A q \in Programs : PidsIn(r.followed[q]) \subseteq PidsIn(s.followed[q])
  BY DEF PidsIn
<1>2. QED BY <1>1 DEF Continues, AllPids

-------------------------------------------------------------------------------
(* What a new PAT does to the programs.                                      *)

\* What becomes of one program under a new PAT.
Follows(table, p, f, g) ==
  IF f.removed THEN g = f
  ELSE IF p \notin Listed(table)
    THEN /\ g.removed /\ g.pmtPid = f.pmtPid
         /\ g.table = f.table /\ g.history = f.history /\ g.sets = f.sets
  ELSE /\ ~g.removed /\ g.pmtPid = PmtPid(table, p) /\ g.table = f.table /\ g.history = f.history
       /\ g.pmtPid = f.pmtPid => g = f
       /\ g.pmtPid # f.pmtPid => g.sets = NoSets /\ g.moved

\* FollowPat follows one program and leaves the others alone.
LEMMA FollowPatIs ==
  ASSUME NEW table \in TableType, NEW st \in StateType, NEW p \in Programs
  PROVE  /\ FollowPat(table, st, p) \in StateType
         /\ Follows(table, p, st.followed[p], FollowPat(table, st, p).followed[p])
         /\ \A q \in Programs : q # p => FollowPat(table, st, p).followed[q] = st.followed[q]
<1> DEFINE f == st.followed[p]
           r == FollowPat(table, st, p)
<1>0. f \in FollowedType /\ st.followed \in [Programs -> FollowedType] /\ st.restarted \in PidsType
  BY DEF StateType
<1>1. CASE f.removed
  <2>1. r = st
    BY <1>1 DEF FollowPat
  <2>2. QED BY <1>1, <2>1 DEF Follows
<1>2. CASE ~f.removed /\ p \notin Listed(table)
  <2>1. r = [st EXCEPT !.followed[p].removed = TRUE]
    BY <1>2 DEF FollowPat
  <2> DEFINE g == [f EXCEPT !.removed = TRUE]
  <2>2. /\ g \in FollowedType /\ g.removed /\ g.pmtPid = f.pmtPid
        /\ g.table = f.table /\ g.history = f.history /\ g.sets = f.sets
    BY <1>0 DEF FollowedType
  <2>3. r.followed = [st.followed EXCEPT ![p] = g] /\ r = [st EXCEPT !.followed = r.followed]
    BY <2>1 DEF StateType
  <2> HIDE DEF g, r
  <2>4. r.followed \in [Programs -> FollowedType]
    BY <1>0, <2>2, <2>3
  <2>5. r \in StateType
    BY <2>3, <2>4 DEF StateType
  <2>6. r.followed[p] = g /\ \A q \in Programs : q # p => r.followed[q] = st.followed[q]
    BY <1>0, <2>3
  <2>7. QED BY <1>2, <2>2, <2>5, <2>6 DEF Follows, r
<1>3. CASE ~f.removed /\ p \in Listed(table) /\ PmtPid(table, p) = f.pmtPid
  <2>1. r = st
    BY <1>3 DEF FollowPat
  <2>2. QED BY <1>3, <2>1 DEF Follows
<1>4. CASE ~f.removed /\ p \in Listed(table) /\ PmtPid(table, p) # f.pmtPid
  <2> DEFINE s == SetLayout(st, p, PmtPid(table, p), f.table)
             g == Fresh(s.followed[p])
  <2>1. r = [s EXCEPT !.followed[p] = g]
    BY <1>4 DEF FollowPat
  <2>2. PmtPid(table, p) \in PidType /\ f.table \in TableType
    BY <1>0 DEF PidType, FollowedType
  <2>3. /\ s \in StateType
        /\ s.followed[p].pmtPid = PmtPid(table, p) /\ s.followed[p].table = f.table
        /\ s.followed[p].history = f.history /\ s.followed[p].removed = f.removed
        /\ \A q \in Programs : q # p => s.followed[q] = st.followed[q]
    BY <2>2, SetLayoutIs
  <2> HIDE DEF s
  <2>4. s.followed \in [Programs -> FollowedType] /\ s.followed[p] \in FollowedType
    BY <2>3 DEF StateType
  <2>5. NoSets \in TablesType
    BY DEF NoSets, TablesType, TableType
  <2>6. /\ g \in FollowedType /\ g.sets = NoSets /\ g.moved
        /\ g.pmtPid = s.followed[p].pmtPid /\ g.table = s.followed[p].table
        /\ g.history = s.followed[p].history /\ g.removed = s.followed[p].removed
    BY <2>4, <2>5 DEF Fresh, FollowedType
  <2> HIDE DEF g
  <2>7. r.followed = [s.followed EXCEPT ![p] = g] /\ r = [s EXCEPT !.followed = r.followed]
    BY <2>1, <2>3 DEF StateType
  <2> HIDE DEF r
  <2>8. r.followed \in [Programs -> FollowedType]
    BY <2>4, <2>6, <2>7
  <2>9. r \in StateType
    BY <2>3, <2>7, <2>8 DEF StateType
  <2>10. r.followed[p] = g /\ \A q \in Programs : q # p => r.followed[q] = st.followed[q]
    BY <2>3, <2>4, <2>7
  <2>11. Follows(table, p, f, r.followed[p])
    BY <1>4, <2>3, <2>6, <2>10 DEF Follows
  <2>12. QED BY <2>9, <2>10, <2>11 DEF r
<1>5. QED BY <1>1, <1>2, <1>3, <1>4

\* FollowPat keeps the continuity of what is in use.
LEMMA FollowPatContinues ==
  ASSUME NEW F, NEW table \in TableType, NEW st \in StateType, NEW p \in Programs,
         Continues(F, st), st.followed[p] = F[p]
  PROVE  Continues(F, FollowPat(table, st, p))
<1> DEFINE f == st.followed[p]
           r == FollowPat(table, st, p)
<1>0. f \in FollowedType
  BY DEF StateType
<1>1. CASE f.removed \/ (p \in Listed(table) /\ PmtPid(table, p) = f.pmtPid)
  BY <1>1 DEF FollowPat
<1>2. CASE ~f.removed /\ p \notin Listed(table)
  <2>1. r = [st EXCEPT !.followed[p].removed = TRUE]
    BY <1>2 DEF FollowPat
  <2>2. r.restarted = st.restarted
    BY <2>1 DEF StateType
  <2>3. r.followed[p].removed /\ \A q \in Programs : q # p => r.followed[q] = st.followed[q]
    BY <1>2, FollowPatIs DEF Follows
  <2> HIDE DEF r
  <2>4. Continues(F, r)
    BY <2>2, <2>3, FewerContinues
  <2>5. QED BY <2>4 DEF r
<1>3. CASE ~f.removed /\ p \in Listed(table) /\ PmtPid(table, p) # f.pmtPid
  <2> DEFINE s == SetLayout(st, p, PmtPid(table, p), f.table)
             g == Fresh(s.followed[p])
  <2>1. r = [s EXCEPT !.followed[p] = g]
    BY <1>3 DEF FollowPat
  <2>2. PmtPid(table, p) \in PidType /\ f.table \in TableType
    BY <1>0 DEF PidType, FollowedType
  <2>3. s \in StateType
    BY <2>2, SetLayoutIs
  <2>4. Continues(F, s)
    BY <1>3, <2>2, SetLayoutContinues
  <2> HIDE DEF s
  <2>5. s.followed[p] \in FollowedType /\ s.followed \in [Programs -> FollowedType]
    BY <2>3 DEF StateType
  <2>6. g.pmtPid = s.followed[p].pmtPid /\ g.table = s.followed[p].table
        /\ g.removed = s.followed[p].removed
    BY <2>5 DEF Fresh, FollowedType
  <2> HIDE DEF g
  <2>7. r.followed = [s.followed EXCEPT ![p] = g] /\ r.restarted = s.restarted
    BY <2>1, <2>3 DEF StateType
  <2> HIDE DEF r
  <2>8. \A q \in Programs : PidsIn(r.followed[q]) = PidsIn(s.followed[q])
    BY <2>5, <2>6, <2>7 DEF PidsIn
  <2>9. Continues(F, r)
    BY <2>4, <2>7, <2>8, SameContinues
  <2>10. QED BY <2>9 DEF r
<1>4. QED BY <1>1, <1>2, <1>3

\* A new PAT follows every program, and keeps the continuity of what is in use.
LEMMA PatFollowsAll ==
  ASSUME NEW table \in TableType, followed \in [Programs -> FollowedType],
         IsNew(pat.table, pat.history, table, FALSE)
  PROVE  /\ ApplyPat(table) \in StateType
         /\ \A p \in Programs : Follows(table, p, followed[p], ApplyPat(table).followed[p])
         /\ Continues(followed, ApplyPat(table))
<1> DEFINE N == Len(ProgramOrder)
           base == [followed |-> followed, restarted |-> {}]
           step == [n \in 1 .. N |-> [st \in StateType |-> FollowPat(table, st, ProgramOrder[n])]]
           after[n \in 0 .. N] == IF n = 0 THEN base
                                  ELSE FollowPat(table, after[n - 1], ProgramOrder[n])
<1>0. /\ N \in Nat /\ DOMAIN ProgramOrder = 1 .. N
      /\ \A n \in 1 .. N : ProgramOrder[n] \in Programs
      /\ \A p \in Programs : \E n \in 1 .. N : ProgramOrder[n] = p
      /\ \A m, n \in 1 .. N : ProgramOrder[m] = ProgramOrder[n] => m = n
  BY TrackerAssumption DEF Programs, Range, IsInjective
<1>1. base \in StateType
  <2>1. {} \in PidsType
    BY DEF PidsType
  <2>2. QED BY <2>1 DEF StateType
<1>2. ASSUME NEW n \in 1 .. N, NEW st \in StateType
      PROVE  step[n][st] \in StateType /\ step[n][st] = FollowPat(table, st, ProgramOrder[n])
  BY <1>0, <1>2, FollowPatIs
<1>3. step \in [1 .. N -> [StateType -> StateType]]
  BY <1>2
<1> HIDE DEF N, base, step
<1>4. PICK g \in [0 .. N -> StateType] : IsRecursion(g, base, step, N)
  BY <1>0, <1>1, <1>3, RecursionExists
<1> DEFINE body(h) == [n \in 0 .. N |-> IF n = 0 THEN base
                                          ELSE FollowPat(table, h[n - 1], ProgramOrder[n])]
<1>5. g = body(g)
  <2>1. ASSUME NEW n \in 0 .. N PROVE g[n] = body(g)[n]
    <3>1. CASE n = 0
      BY <1>4, <3>1 DEF IsRecursion
    <3>2. CASE n # 0
      <4>1. n \in 1 .. N /\ n - 1 \in 0 .. N
        BY <1>0, <3>2
      <4>2. g[n - 1] \in StateType
        BY <1>4, <4>1
      <4>3. g[n] = step[n][g[n - 1]]
        BY <1>4, <3>2 DEF IsRecursion
      <4>4. g[n] = FollowPat(table, g[n - 1], ProgramOrder[n])
        BY <1>2, <4>1, <4>2, <4>3
      <4>5. QED BY <3>2, <4>4
    <3>3. QED BY <3>1, <3>2
  <2>2. QED BY <1>4, <2>1
<1>6. after = CHOOSE h : h = body(h)
  OBVIOUS
<1>7. after = body(after)
  BY <1>5, <1>6
<1> HIDE DEF after
<1>8. after[0] = base /\ \A n \in 1 .. N : after[n] = FollowPat(table, after[n - 1], ProgramOrder[n])
  BY <1>0, <1>7
<1>9. ApplyPat(table) = after[N]
  BY DEF ApplyPat, after, N, base
<1> DEFINE Done(n) == {ProgramOrder[m] : m \in 1 .. n}
           Good(n, st) ==
             /\ st \in StateType /\ Continues(followed, st)
             /\ \A p \in Programs :
                  IF p \in Done(n) THEN Follows(table, p, followed[p], st.followed[p])
                  ELSE st.followed[p] = followed[p]
           Q == {n \in Nat : n <= N => Good(n, after[n])}
<1>10. 0 \in Q
  <2>1. base.followed = followed /\ base.restarted = {} /\ Done(0) = {}
    BY DEF base
  <2>2. Continues(followed, base)
    BY <2>1 DEF Continues
  <2>3. QED BY <1>1, <1>8, <2>1, <2>2
<1>11. ASSUME NEW n \in Nat, n \in Q PROVE n + 1 \in Q
  <2> SUFFICES ASSUME n + 1 <= N PROVE Good(n + 1, after[n + 1])
    OBVIOUS
  <2> DEFINE p == ProgramOrder[n + 1]
             st == after[n]
  <2>1. n + 1 \in 1 .. N /\ (n + 1) - 1 = n /\ Good(n, st)
    BY <1>0, <1>11
  <2>2. p \in Programs /\ p \notin Done(n) /\ Done(n + 1) = Done(n) \cup {p}
    BY <1>0, <2>1
  <2>3. after[n + 1] = FollowPat(table, st, p)
    BY <1>8, <2>1
  <2>4. st \in StateType /\ Continues(followed, st) /\ st.followed[p] = followed[p]
    BY <2>1, <2>2
  <2> HIDE DEF p, st
  <2>5. /\ after[n + 1] \in StateType
        /\ Follows(table, p, followed[p], after[n + 1].followed[p])
        /\ \A q \in Programs : q # p => after[n + 1].followed[q] = st.followed[q]
    BY <2>2, <2>3, <2>4, FollowPatIs
  <2>6. Continues(followed, after[n + 1])
    BY <2>2, <2>3, <2>4, FollowPatContinues
  <2>7. ASSUME NEW q \in Programs
        PROVE  IF q \in Done(n + 1) THEN Follows(table, q, followed[q], after[n + 1].followed[q])
               ELSE after[n + 1].followed[q] = followed[q]
    <3>1. CASE q = p
      BY <2>2, <2>5, <3>1
    <3>2. CASE q # p
      <4>1. q \in Done(n + 1) <=> q \in Done(n)
        BY <2>2, <3>2
      <4>2. IF q \in Done(n) THEN Follows(table, q, followed[q], st.followed[q])
            ELSE st.followed[q] = followed[q]
        BY <2>1
      <4>3. after[n + 1].followed[q] = st.followed[q]
        BY <2>5, <3>2
      <4> HIDE DEF Done
      <4>4. QED BY <4>1, <4>2, <4>3
    <3>3. QED BY <3>1, <3>2
  <2>8. QED BY <2>5, <2>6, <2>7
<1>12. N \in Q
  <2> HIDE DEF Q
  <2>1. \A n \in Nat : n \in Q
    BY <1>10, <1>11, SetInduction
  <2>2. QED BY <1>0, <2>1
<1>13. Good(N, after[N]) /\ \A p \in Programs : p \in Done(N)
  BY <1>0, <1>12
<1>14. QED BY <1>9, <1>13

-------------------------------------------------------------------------------
(* Sections and sets.                                                        *)

ContentsType  == Seq(Content) \ {<<>>}
BroadcastType == [version : Versions, contents : ContentsType, pid : PidType]
SentType      == Seq(BroadcastType) \ {<<>>}
PatType       == [table : TableType, history : TablesType, sets : TablesType]

TrackerTypes ==
  /\ sent \in [Tables -> SentType]
  /\ pat \in PatType
  /\ followed \in [Programs -> FollowedType]

\* The sections of a broadcast.
LEMMA SectionsTyped ==
  ASSUME NEW b \in BroadcastType
  PROVE  Sections(b) \in TableType
<1>1. b.version \in Versions /\ b.contents \in Seq(Content) /\ b.contents # <<>>
  BY DEF BroadcastType, ContentsType
<1>2. /\ Len(b.contents) \in Nat /\ Len(b.contents) # 0 /\ DOMAIN b.contents = 1 .. Len(b.contents)
      /\ \A i \in DOMAIN b.contents : b.contents[i] \in Content
  BY <1>1
<1>3. Len(b.contents) - 1 \in Nat /\ \A i \in DOMAIN b.contents : i - 1 \in Nat
  BY <1>2
<1>4. ASSUME NEW i \in DOMAIN b.contents
      PROVE  [version |-> b.version, number |-> i - 1, last |-> Len(b.contents) - 1,
              content |-> b.contents[i], intact |-> TRUE, current |-> TRUE] \in SectionType
  BY <1>1, <1>2, <1>3 DEF SectionType
<1>5. QED BY <1>4 DEF Sections, TableType

\* What is broadcast now.
LEMMA CurrentTyped ==
  ASSUME TrackerTypes, NEW t \in Tables
  PROVE  /\ Len(sent[t]) \in Nat \ {0} /\ Len(sent[t]) \in DOMAIN sent[t]
         /\ DOMAIN sent[t] = 1 .. Len(sent[t])
         /\ \A k \in DOMAIN sent[t] : sent[t][k] \in BroadcastType
         /\ Current(t) \in BroadcastType
<1>1. sent[t] \in Seq(BroadcastType) /\ sent[t] # <<>>
  BY DEF TrackerTypes, SentType
<1> HIDE DEF BroadcastType
<1>2. QED BY <1>1 DEF Current

\* What collecting a section gives.
LEMMA AddTyped ==
  ASSUME NEW sets \in TablesType, NEW s \in SectionType
  PROVE  /\ Add(sets, s).sets \in TablesType
         /\ Add(sets, s).table \in TableType
<1> DEFINE collected == sets[s.version]
           agreeing == IF \E o \in collected : o.last # s.last \/ o.number = s.number
                         THEN {} ELSE collected
           whole == agreeing \cup {s}
<1>1. s.version \in Versions
  BY DEF SectionType
<1>2. collected \in TableType
  BY <1>1 DEF TablesType
<1>3. whole \in TableType /\ {} \in TableType
  BY <1>2 DEF TableType
<1>4. \/ Add(sets, s) = [sets |-> sets, table |-> {}]
      \/ Add(sets, s) = [sets |-> [sets EXCEPT ![s.version] = whole], table |-> {}]
      \/ Add(sets, s) = [sets |-> [sets EXCEPT ![s.version] = {}], table |-> whole]
  BY DEF Add
<1> HIDE DEF whole
<1>5. QED BY <1>1, <1>3, <1>4 DEF TablesType

\* The version of a table that is not empty.
LEMMA VersionTyped ==
  ASSUME NEW table \in TableType, table # {}
  PROVE  VersionOf(table) \in Versions /\ \E s \in table : VersionOf(table) = s.version
BY DEF VersionOf, TableType, SectionType

-------------------------------------------------------------------------------
(* A section of the PAT, and of a PMT.                                       *)

Now == [followed |-> followed, restarted |-> restarted]

\* What a section of the PAT does.
LEMMA PatStep ==
  ASSUME TrackerTypes, NEW s \in SectionType, ObservePat(s)
  PROVE  /\ pat' \in PatType /\ followed' \in [Programs -> FollowedType]
         /\ Continues(followed, Now')
         /\ \/ pat'.table = pat.table /\ followed' = followed
            \/ \A p \in Programs : Follows(pat'.table, p, followed[p], followed'[p])
<1> DEFINE added == Add(pat.sets, s)
           new   == added.table # {} /\ IsNew(pat.table, pat.history, added.table, FALSE)
           after == IF added.table = {} THEN [followed |-> followed, restarted |-> {}]
                    ELSE ApplyPat(added.table)
           kept  == [pat EXCEPT !.sets = added.sets]
           turned == [table   |-> added.table,
                      history |-> [pat.history EXCEPT ![VersionOf(added.table)] = added.table],
                      sets    |-> added.sets]
<1>0. /\ pat.table \in TableType /\ pat.history \in TablesType /\ pat.sets \in TablesType
      /\ pat \in PatType
  BY DEF TrackerTypes, PatType
<1>1. added.sets \in TablesType /\ added.table \in TableType
  BY <1>0, AddTyped
<1>2. /\ pat' = IF ~new THEN kept ELSE turned
      /\ followed' = after.followed /\ restarted' = after.restarted
  BY DEF ObservePat
<1> HIDE DEF added
<1>3. CASE ~new
  <2>1. after = [followed |-> followed, restarted |-> {}]
    BY <1>3 DEF ApplyPat
  <2>2. followed' = followed /\ restarted' = {}
    BY <1>2, <2>1
  <2>3. pat' \in PatType /\ pat'.table = pat.table
    BY <1>0, <1>1, <1>2, <1>3 DEF PatType
  <2>4. Continues(followed, Now')
    BY <2>2 DEF Continues, Now
  <2>5. QED BY <2>2, <2>3, <2>4 DEF TrackerTypes
<1>4. CASE new
  <2>1. after = ApplyPat(added.table) /\ pat' = turned
    BY <1>2, <1>4
  <2>2. VersionOf(added.table) \in Versions
    BY <1>1, <1>4, VersionTyped
  <2>3. turned.history \in TablesType
    BY <1>0, <1>1, <2>2 DEF TablesType
  <2>4. pat' \in PatType /\ pat'.table = added.table
    BY <1>1, <2>1, <2>3 DEF PatType
  <2>5. /\ ApplyPat(added.table) \in StateType
        /\ \A p \in Programs : Follows(added.table, p, followed[p], ApplyPat(added.table).followed[p])
        /\ Continues(followed, ApplyPat(added.table))
    BY <1>1, <1>4, PatFollowsAll DEF TrackerTypes
  <2>6. Now' = ApplyPat(added.table)
    BY <1>2, <2>1, <2>5 DEF Now, StateType
  <2>7. followed' \in [Programs -> FollowedType]
    BY <1>2, <2>1, <2>5 DEF StateType
  <2>8. \A p \in Programs : Follows(pat'.table, p, followed[p], followed'[p])
    BY <1>2, <2>1, <2>4, <2>5
  <2>9. QED BY <2>4, <2>5, <2>6, <2>7, <2>8
<1>5. QED BY <1>3, <1>4

\* What a section of a PMT does to its program.
Updates(f, g) ==
  IF f.removed THEN g = f ELSE ~g.removed /\ g.pmtPid = f.pmtPid

\* A program that changes without changing its PIDs.
LEMMA SamePidsStep ==
  ASSUME followed \in [Programs -> FollowedType], NEW p \in Programs, NEW g \in FollowedType,
         g.table = followed[p].table, g.pmtPid = followed[p].pmtPid, ~followed[p].removed,
         ~g.removed, followed' = [followed EXCEPT ![p] = g], restarted' = {}
  PROVE  /\ followed' \in [Programs -> FollowedType]
         /\ Continues(followed, Now')
         /\ Updates(followed[p], followed'[p])
         /\ \A q \in Programs : q # p => followed'[q] = followed[q]
<1>1. /\ followed' \in [Programs -> FollowedType] /\ followed'[p] = g
      /\ \A q \in Programs : q # p => followed'[q] = followed[q]
  OBVIOUS
<1>2. \A q \in Programs : PidsIn(followed'[q]) = PidsIn(followed[q])
  BY <1>1 DEF PidsIn
<1>3. Continues(followed, Now')
  BY <1>2 DEF Continues, Now, AllPids
<1>4. QED BY <1>1, <1>3 DEF Updates

\* What a section of the PMT of p does.
LEMMA PmtStep ==
  ASSUME TrackerTypes, NEW s \in SectionType, NEW p \in Programs, NEW pid, ObservePmt(p, pid, s)
  PROVE  /\ pat' = pat /\ followed' \in [Programs -> FollowedType]
         /\ Continues(followed, Now')
         /\ Updates(followed[p], followed'[p])
         /\ \A q \in Programs : q # p => followed'[q] = followed[q]
<1> DEFINE f == followed[p]
           added == Add(f.sets, s)
<1>0. /\ followed \in [Programs -> FollowedType] /\ f \in FollowedType
      /\ f.table \in TableType /\ f.history \in TablesType /\ f.sets \in TablesType
      /\ f.pmtPid \in PidType
  BY DEF TrackerTypes, FollowedType
<1>1. added.sets \in TablesType /\ added.table \in TableType
  BY <1>0, AddTyped
<1>2. pat' = pat
  BY DEF ObservePmt
<1> HIDE DEF added
<1>3. CASE ~Reads(p, pid)
  <2>1. followed' = followed /\ restarted' = {}
    BY <1>3 DEF ObservePmt
  <2>2. Continues(followed, Now')
    BY <2>1 DEF Continues, Now
  <2>3. QED BY <1>0, <1>2, <2>1, <2>2 DEF Updates
<1>4. CASE Reads(p, pid) /\ added.table = {}
  <2> DEFINE g == [f EXCEPT !.sets = added.sets]
  <2>1. followed' = [followed EXCEPT ![p] = g] /\ restarted' = {}
    BY <1>4 DEF ObservePmt, added
  <2>2. /\ g \in FollowedType /\ g.table = f.table /\ g.pmtPid = f.pmtPid /\ g.removed = f.removed
    BY <1>0, <1>1 DEF FollowedType
  <2> HIDE DEF g
  <2>3. QED BY <1>0, <1>2, <1>4, <2>1, <2>2, SamePidsStep DEF Reads, Updates
<1>5. CASE Reads(p, pid) /\ added.table # {}
  <2> DEFINE new == IsNew(f.table, f.history, added.table, f.moved)
             g == [f EXCEPT !.sets = added.sets, !.moved = FALSE,
                            !.history[VersionOf(added.table)] = IF new THEN added.table ELSE @]
             st == [followed |-> [followed EXCEPT ![p] = g], restarted |-> {}]
             after == IF new THEN SetLayout(st, p, f.pmtPid, added.table) ELSE st
  <2>1. followed' = after.followed /\ restarted' = after.restarted
    BY <1>5 DEF ObservePmt, ApplyPmt, added
  <2>2. VersionOf(added.table) \in Versions
    BY <1>1, <1>5, VersionTyped
  <2>3. /\ g \in FollowedType /\ g.table = f.table /\ g.pmtPid = f.pmtPid /\ g.removed = f.removed
    BY <1>0, <1>1, <2>2 DEF FollowedType, TablesType
  <2> HIDE DEF g, new
  <2>4. CASE ~new
    <3>1. followed' = [followed EXCEPT ![p] = g] /\ restarted' = {}
      BY <2>1, <2>4
    <3>2. QED BY <1>0, <1>2, <1>5, <2>3, <3>1, SamePidsStep DEF Reads, Updates
  <2>5. CASE new
    <3>1. st \in StateType
      <4>1. {} \in PidsType
        BY DEF PidsType
      <4>2. QED BY <1>0, <2>3, <4>1 DEF StateType
    <3>2. /\ st.followed[p] = g /\ st.restarted = {}
          /\ \A q \in Programs : q # p => st.followed[q] = followed[q]
      BY <1>0
    <3> HIDE DEF st
    <3>3. \A q \in Programs : PidsIn(st.followed[q]) = PidsIn(followed[q])
      BY <2>3, <3>2 DEF PidsIn
    <3>4. Continues(followed, st)
      BY <3>2, <3>3 DEF Continues, AllPids
    <3>5. /\ ~st.followed[p].removed /\ PidsIn(st.followed[p]) = PidsIn(followed[p])
      BY <1>5, <2>3, <3>2, <3>3 DEF Reads
    <3> DEFINE r == SetLayout(st, p, f.pmtPid, added.table)
    <3>6. Continues(followed, r)
      BY <1>0, <1>1, <3>1, <3>4, <3>5, SetLayoutContinues
    <3>7. /\ r \in StateType /\ r.followed[p].pmtPid = f.pmtPid
          /\ r.followed[p].removed = st.followed[p].removed
          /\ \A q \in Programs : q # p => r.followed[q] = st.followed[q]
      BY <1>0, <1>1, <3>1, SetLayoutIs
    <3>8. followed' = r.followed /\ restarted' = r.restarted
      BY <2>1, <2>5
    <3> HIDE DEF r
    <3>9. Now' = r
      BY <3>7, <3>8 DEF Now, StateType
    <3>10. followed' \in [Programs -> FollowedType]
      BY <3>7, <3>8 DEF StateType
    <3>11. Updates(f, followed'[p])
      BY <1>5, <3>5, <3>7, <3>8 DEF Updates, Reads
    <3>12. \A q \in Programs : q # p => followed'[q] = followed[q]
      BY <3>2, <3>7, <3>8
    <3>13. QED BY <1>2, <3>6, <3>9, <3>10, <3>11, <3>12
  <2>6. QED BY <2>4, <2>5
<1>6. QED BY <1>3, <1>4, <1>5

-------------------------------------------------------------------------------
(* What is sent.                                                             *)

\* The tables that may be broadcast.
LEMMA ContentsTyped ==
  /\ PatTables \subseteq ContentsType
  /\ \A p \in Programs : PmtTables[p] \subseteq ContentsType
<1>1. ASSUME NEW S, S \subseteq Content, NEW c \in Seq(S) \ {<<>>} PROVE c \in ContentsType
  <2>1. c \in Seq(Content)
    BY <1>1
  <2>2. QED BY <2>1 DEF ContentsType
<1>2. SUBSET [program : Nat, pid : Nat] \subseteq Content
  BY DEF Content
<1>3. [pcr : Nat, streams : SUBSET Nat] \subseteq Content
  BY DEF Content
<1>4. QED BY <1>1, <1>2, <1>3, TrackerAssumption

\* The next version_number.
LEMMA NextVersionTyped ==
  ASSUME TrackerTypes, NEW t \in Tables
  PROVE  NextVersion(t) \in Versions
<1>1. Current(t).version \in Versions
  BY CurrentTyped DEF BroadcastType
<1>2. VersionModulus \in Nat \ {0} /\ Current(t).version \in Nat
  BY <1>1, TrackerAssumption DEF Versions
<1>3. QED BY <1>2 DEF NextVersion, Versions

\* One more broadcast.
LEMMA AppendTyped ==
  ASSUME NEW B \in SentType, NEW b \in BroadcastType
  PROVE  Append(B, b) \in SentType
<1> HIDE DEF BroadcastType
<1>1. B \in Seq(BroadcastType)
  BY DEF SentType
<1>2. Append(B, b) \in Seq(BroadcastType) /\ Len(Append(B, b)) = Len(B) + 1 /\ Len(B) \in Nat
  BY <1>1
<1>3. Append(B, b) # <<>>
  BY <1>2
<1>4. QED BY <1>2, <1>3 DEF SentType

\* A change of a PMT.
LEMMA ChangePmtTyped ==
  ASSUME TrackerTypes, NEW p \in Programs, ChangePmt(p)
  PROVE  sent' \in [Tables -> SentType]
<1>1. PICK c \in PmtTables[p] :
        sent' = [sent EXCEPT ![p] = Append(@, [version |-> NextVersion(p), contents |-> c,
                                               pid |-> Current(p).pid])]
  BY DEF ChangePmt
<1>2. p \in Tables
  BY DEF Tables
<1>3. [version |-> NextVersion(p), contents |-> c, pid |-> Current(p).pid] \in BroadcastType
  <2>1. c \in ContentsType
    BY ContentsTyped
  <2>2. Current(p).pid \in PidType
    BY <1>2, CurrentTyped DEF BroadcastType
  <2>3. QED BY <1>2, <2>1, <2>2, NextVersionTyped DEF BroadcastType
<1>4. QED BY <1>1, <1>2, <1>3, AppendTyped DEF TrackerTypes

\* What a new PAT does to what is sent: the PAT, and a PMT for each that moves.
PatOf(c) == [version |-> NextVersion(Pat), contents |-> c, pid |-> Pat]
Moves(b) == {p \in Programs \cap Listed(Sections(b)) : PmtPid(Sections(b), p) # Current(p).pid}
MovedTo(b, p, contents) ==
  [version |-> Current(p).version, contents |-> contents, pid |-> PmtPid(Sections(b), p)]

PatChanges(b, pmts) ==
  /\ MayBroadcast(Pat, b)
  /\ \A p \in Moves(b) : pmts[p] \in PmtTables[p] /\ MayMove(p, MovedTo(b, p, pmts[p]))
  /\ sent' = [t \in Tables |-> IF t = Pat THEN Append(sent[t], b)
                               ELSE IF t \in Moves(b) THEN Append(sent[t], MovedTo(b, t, pmts[t]))
                               ELSE sent[t]]
  /\ heard' = [t \in Tables |-> IF t \in Moves(b) \cup {Pat} THEN {} ELSE heard[t]]

\* A change of the PAT is one with some PAT.
LEMMA ChangePatIs ==
  ASSUME ChangePat
  PROVE  \E c \in PatTables : \E pmts : PatChanges(PatOf(c), pmts)
BY ZenonT(60) DEF ChangePat, PatChanges, PatOf, Moves, MovedTo

\* A change of the PAT.
LEMMA ChangePatTyped ==
  ASSUME TrackerTypes, NEW c \in PatTables, NEW pmts, PatChanges(PatOf(c), pmts)
  PROVE  /\ PatOf(c) \in BroadcastType
         /\ \A p \in Moves(PatOf(c)) : MovedTo(PatOf(c), p, pmts[p]) \in BroadcastType
         /\ sent' \in [Tables -> SentType]
<1> DEFINE b == PatOf(c)
<1>0. Pat \in Tables /\ Programs \subseteq Tables
  BY DEF Tables
<1>1. b \in BroadcastType
  <2>1. c \in ContentsType
    BY ContentsTyped
  <2>2. Pat \in PidType
    BY DEF Pat, PidType
  <2>3. QED BY <1>0, <2>1, <2>2, NextVersionTyped DEF BroadcastType, PatOf
<1> HIDE DEF b
<1>2. ASSUME NEW p \in Moves(b) PROVE MovedTo(b, p, pmts[p]) \in BroadcastType
  <2>1. p \in Programs /\ pmts[p] \in PmtTables[p]
    BY DEF PatChanges, Moves, b
  <2>2. pmts[p] \in ContentsType
    BY <2>1, ContentsTyped
  <2>3. PmtPid(Sections(b), p) \in PidType
    BY <1>1, <2>1, SectionsTyped DEF PidType
  <2>4. Current(p).version \in Versions
    BY <1>0, <2>1, CurrentTyped DEF BroadcastType
  <2>5. QED BY <2>2, <2>3, <2>4 DEF MovedTo, BroadcastType
<1>3. sent' = [t \in Tables |-> IF t = Pat THEN Append(sent[t], b)
                               ELSE IF t \in Moves(b) THEN Append(sent[t], MovedTo(b, t, pmts[t]))
                               ELSE sent[t]]
  BY DEF PatChanges, b
<1>4. ASSUME NEW t \in Tables
      PROVE  (IF t = Pat THEN Append(sent[t], b)
              ELSE IF t \in Moves(b) THEN Append(sent[t], MovedTo(b, t, pmts[t]))
              ELSE sent[t]) \in SentType
  <2>1. sent[t] \in SentType
    BY DEF TrackerTypes
  <2>2. QED BY <1>1, <1>2, <2>1, AppendTyped
<1>5. QED BY <1>1, <1>2, <1>3, <1>4 DEF b

\* The first tables.
LEMMA InitTyped ==
  ASSUME TrackInit
  PROVE  TrackerTypes
<1>1. PICK c \in PatTables, f \in [Programs -> UNION {PmtTables[p] : p \in Programs}] :
        /\ \A p \in Programs : f[p] \in PmtTables[p]
        /\ sent = [t \in Tables |-> <<IF t = Pat THEN FirstTable(c, Pat)
                     ELSE FirstTable(f[t], PmtPid(Sections(FirstTable(c, Pat)), t))>>]
  BY DEF TrackInit
<1>2. 0 \in Versions
  BY TrackerAssumption DEF Versions
<1>3. FirstTable(c, Pat) \in BroadcastType
  <2>1. c \in ContentsType /\ Pat \in PidType
    BY ContentsTyped DEF Pat, PidType
  <2>2. QED BY <1>2, <2>1 DEF FirstTable, BroadcastType
<1>4. ASSUME NEW p \in Programs
      PROVE  FirstTable(f[p], PmtPid(Sections(FirstTable(c, Pat)), p)) \in BroadcastType
  <2>1. f[p] \in ContentsType
    BY <1>1, ContentsTyped
  <2>2. PmtPid(Sections(FirstTable(c, Pat)), p) \in PidType
    BY <1>3, SectionsTyped DEF PidType
  <2>3. QED BY <1>2, <2>1, <2>2 DEF FirstTable, BroadcastType
<1>5. \A t \in Tables : sent[t] \in SentType
  <2> HIDE DEF BroadcastType
  <2>1. ASSUME NEW b \in BroadcastType PROVE <<b>> \in SentType
    BY DEF SentType
  <2>2. QED BY <1>1, <1>3, <1>4, <2>1 DEF Tables
<1>6. sent \in [Tables -> SentType]
  BY <1>1, <1>5
<1>7. ASSUME NEW t \in Tables PROVE Sections(Current(t)) \in TableType /\ Current(t).pid \in PidType
  <2>1. sent[t] \in Seq(BroadcastType) /\ sent[t] # <<>>
    BY <1>5 DEF SentType
  <2>2. Current(t) \in BroadcastType
    <3> HIDE DEF BroadcastType
    <3> QED BY <2>1 DEF Current
  <2>3. QED BY <2>2, SectionsTyped DEF BroadcastType
<1>8. ASSUME NEW table \in TableType PROVE Historic(table) \in TablesType /\ NoSets \in TablesType
  BY DEF Historic, NoSets, TablesType, TableType
<1>9. pat \in PatType
  BY <1>7, <1>8 DEF TrackInit, PatType, Tables
<1>10. followed \in [Programs -> FollowedType]
  <2>1. followed = [p \in Programs |->
                     [table |-> Sections(Current(p)), history |-> Historic(Sections(Current(p))),
                      sets |-> NoSets, pmtPid |-> Current(p).pid, moved |-> FALSE, removed |-> FALSE]]
    BY DEF TrackInit
  <2>2. QED BY <1>7, <1>8, <2>1 DEF FollowedType, Tables
<1>11. QED BY <1>6, <1>9, <1>10 DEF TrackerTypes

-------------------------------------------------------------------------------
(* The programs follow the PAT in use.                                       *)

\* A packet: a section of the PAT or of a PMT, which leaves what is sent alone.
PacketArrives ==
  /\ UNCHANGED sent
  /\ \E t \in Tables, s \in SectionType, pid \in PidType : Received(t, pid, s)

\* A change of what is sent, which the tracker does not notice.
SenderChanges ==
  UNCHANGED <<pat, followed, restarted>> /\ sent' \in [Tables -> SentType]

\* Every step is one of those.
LEMMA StepKinds ==
  ASSUME TrackerTypes, TrackNext
  PROVE  PacketArrives \/ SenderChanges
<1>1. CASE ChangePat
  <2>1. sent' \in [Tables -> SentType]
    BY <1>1, ChangePatIs, ChangePatTyped
  <2>2. QED BY <1>1, <2>1 DEF SenderChanges, ChangePat
<1>2. ASSUME NEW p \in Programs, ChangePmt(p) PROVE SenderChanges
  <2>1. sent' \in [Tables -> SentType]
    BY <1>2, ChangePmtTyped
  <2>2. QED BY <1>2, <2>1 DEF SenderChanges, ChangePmt
<1>3. ASSUME NEW t \in Tables, NEW s \in Sections(Current(t)), CurrentArrives(t, s)
      PROVE  PacketArrives
  <2>1. Current(t) \in BroadcastType
    BY CurrentTyped
  <2>2. s \in SectionType /\ Current(t).pid \in PidType
    BY <2>1, SectionsTyped DEF TableType, BroadcastType
  <2>3. QED BY <1>3, <2>2 DEF CurrentArrives, PacketArrives
<1>4. ASSUME NEW t \in Tables, NEW k \in Late(t), NEW s \in Sections(sent[t][k]),
             LateArrives(t, k, s)
      PROVE  PacketArrives
  <2>1. k \in DOMAIN sent[t]
    BY CurrentTyped DEF Late
  <2>2. sent[t][k] \in BroadcastType
    BY <2>1, CurrentTyped
  <2>3. s \in SectionType /\ sent[t][k].pid \in PidType
    BY <2>2, SectionsTyped DEF TableType, BroadcastType
  <2>4. QED BY <1>4, <2>3 DEF LateArrives, PacketArrives
<1>5. ASSUME NEW t \in Tables, UnusableArrives(t)
      PROVE  PacketArrives
  <2> DEFINE b == [Current(t) EXCEPT !.version = NextVersion(t)]
  <2>1. Current(t) \in BroadcastType /\ NextVersion(t) \in Versions
    BY CurrentTyped, NextVersionTyped
  <2>2. b \in BroadcastType /\ Current(t).pid \in PidType
    BY <2>1 DEF BroadcastType
  <2> HIDE DEF b
  <2>3. ASSUME NEW s \in Sections(b)
        PROVE  [s EXCEPT !.current = FALSE] \in SectionType /\ [s EXCEPT !.intact = FALSE] \in SectionType
    <3>1. s \in SectionType
      BY <2>2, SectionsTyped DEF TableType
    <3>2. QED BY <3>1 DEF SectionType
  <2>4. PICK s \in Sections(b) :
          \/ Received(t, Current(t).pid, [s EXCEPT !.current = FALSE])
          \/ Received(t, Current(t).pid, [s EXCEPT !.intact = FALSE])
    BY <1>5 DEF UnusableArrives, b
  <2>5. QED BY <1>5, <2>2, <2>3, <2>4 DEF UnusableArrives, PacketArrives
<1>6. QED BY <1>1, <1>2, <1>3, <1>4, <1>5 DEF TrackNext

\* A program is read from the PMT PID that the PAT in use gives it.
Listens(F, table) ==
  \A p \in Programs : ~F[p].removed => p \in Listed(table) /\ F[p].pmtPid = PmtPid(table, p)

\* A packet keeps the types, and the programs that are followed follow the PAT.
LEMMA PacketStep ==
  ASSUME TrackerTypes, Listens(followed, pat.table), PacketArrives
  PROVE  /\ TrackerTypes' /\ Continues(followed, Now')
         /\ Listens(followed', pat'.table)
         /\ \A p \in Programs : followed[p].removed => followed'[p] = followed[p]
<1>1. PICK t \in Tables, s \in SectionType, pid \in PidType : Received(t, pid, s)
  BY DEF PacketArrives
<1>2. sent' = sent
  BY DEF PacketArrives
<1>3. CASE t = Pat
  <2>1. ObservePat(s)
    BY <1>1, <1>3 DEF Received
  <2>2. /\ pat' \in PatType /\ followed' \in [Programs -> FollowedType]
        /\ Continues(followed, Now')
        /\ \/ pat'.table = pat.table /\ followed' = followed
           \/ \A p \in Programs : Follows(pat'.table, p, followed[p], followed'[p])
    BY <2>1, PatStep
  <2>3. TrackerTypes'
    BY <1>2, <2>2 DEF TrackerTypes
  <2>4. CASE pat'.table = pat.table /\ followed' = followed
    BY <2>2, <2>3, <2>4
  <2>5. CASE \A p \in Programs : Follows(pat'.table, p, followed[p], followed'[p])
    <3>1. ASSUME NEW p \in Programs
          PROVE  /\ ~followed'[p].removed =>
                      p \in Listed(pat'.table) /\ followed'[p].pmtPid = PmtPid(pat'.table, p)
                 /\ followed[p].removed => followed'[p] = followed[p]
      BY <2>5 DEF Follows
    <3>2. Listens(followed', pat'.table)
      BY <3>1 DEF Listens
    <3>3. QED BY <2>2, <2>3, <3>1, <3>2
  <2>6. QED BY <2>2, <2>4, <2>5
<1>4. CASE t # Pat
  <2>1. t \in Programs /\ ObservePmt(t, pid, s)
    BY <1>1, <1>4 DEF Received, Tables
  <2>2. /\ pat' = pat /\ followed' \in [Programs -> FollowedType]
        /\ Continues(followed, Now')
        /\ Updates(followed[t], followed'[t])
        /\ \A q \in Programs : q # t => followed'[q] = followed[q]
    BY <2>1, PmtStep
  <2>3. TrackerTypes'
    BY <1>2, <2>2 DEF TrackerTypes
  <2>4. ASSUME NEW p \in Programs
        PROVE  /\ followed[p].removed => followed'[p] = followed[p]
               /\ ~followed'[p].removed =>
                    p \in Listed(pat.table) /\ followed'[p].pmtPid = PmtPid(pat.table, p)
    <3>1. CASE p = t
      BY <2>2, <3>1 DEF Updates, Listens
    <3>2. CASE p # t
      BY <2>2, <3>2 DEF Listens
    <3>3. QED BY <3>1, <3>2
  <2>5. Listens(followed', pat'.table)
    BY <2>2, <2>4 DEF Listens
  <2>6. QED BY <2>2, <2>3, <2>4, <2>5
<1>5. QED BY <1>3, <1>4

TrackerInv == TrackerTypes /\ Listens(followed, pat.table)

\* Each program is read where the first PAT says.
LEMMA InitEstablishesTrackerInv == TrackInit => TrackerInv
<1> SUFFICES ASSUME TrackInit PROVE Listens(followed, pat.table)
  BY InitTyped DEF TrackerInv
<1>1. PICK c \in PatTables, f \in [Programs -> UNION {PmtTables[p] : p \in Programs}] :
        /\ Listed(Sections(FirstTable(c, Pat))) = Programs
        /\ sent = [t \in Tables |-> <<IF t = Pat THEN FirstTable(c, Pat)
                     ELSE FirstTable(f[t], PmtPid(Sections(FirstTable(c, Pat)), t))>>]
  BY DEF TrackInit
<1>2. Pat \in Tables /\ Programs \subseteq Tables /\ Pat \notin Programs
  BY TrackerAssumption DEF Tables, Programs, Pat, Range
<1>3. Current(Pat) = FirstTable(c, Pat)
  BY <1>1, <1>2 DEF Current
<1>4. \A p \in Programs : Current(p).pid = PmtPid(Sections(FirstTable(c, Pat)), p)
  <2>1. ASSUME NEW p \in Programs
        PROVE  Current(p) = FirstTable(f[p], PmtPid(Sections(FirstTable(c, Pat)), p))
    BY <1>1, <1>2 DEF Current
  <2>2. QED BY <2>1 DEF FirstTable
<1>5. pat.table = Sections(Current(Pat)) /\ \A p \in Programs : followed[p].pmtPid = Current(p).pid
  BY DEF TrackInit
<1>6. QED BY <1>1, <1>3, <1>4, <1>5 DEF Listens

\* Every step keeps the invariant.
LEMMA NextKeepsTrackerInv == TrackerInv /\ [TrackNext]_trackVars => TrackerInv'
<1> SUFFICES ASSUME TrackerInv, [TrackNext]_trackVars PROVE TrackerInv'
  OBVIOUS
<1>1. CASE TrackNext
  <2>1. CASE PacketArrives
    BY <2>1, PacketStep DEF TrackerInv
  <2>2. CASE SenderChanges
    BY <2>2 DEF SenderChanges, TrackerInv, TrackerTypes, Listens
  <2>3. QED BY <1>1, <2>1, <2>2, StepKinds DEF TrackerInv
<1>2. CASE UNCHANGED trackVars
  BY <1>2 DEF TrackerInv, TrackerTypes, Listens, trackVars
<1>3. QED BY <1>1, <1>2

\* The types, and where each program is read, throughout.
THEOREM TrackerInvHolds == TrackSpec => []TrackerInv
<1>1. TrackInit => TrackerInv
  BY InitEstablishesTrackerInv
<1>2. TrackerInv /\ [TrackNext]_trackVars => TrackerInv'
  BY NextKeepsTrackerInv
<1>3. QED BY <1>1, <1>2, PTL DEF TrackSpec

\* What is read follows the PAT in use, and a program that a PAT left out is not touched.
THEOREM ProgramsFollowThePat == TrackSpec => ListedAreFollowed
<1> DEFINE Where == \A p \in Programs : ~followed[p].removed =>
                      p \in Listed(pat.table) /\ followed[p].pmtPid = PmtPid(pat.table, p)
           Stays == \A p \in Programs : followed[p].removed => followed'[p] = followed[p]
<1>1. TrackerInv => Where
  BY DEF TrackerInv, Listens
<1>2. TrackerInv /\ [TrackNext]_trackVars => [Stays]_trackVars
  <2> SUFFICES ASSUME TrackerInv, TrackNext PROVE Stays
    OBVIOUS
  <2>1. CASE PacketArrives
    BY <2>1, PacketStep DEF TrackerInv
  <2>2. CASE SenderChanges
    BY <2>2 DEF SenderChanges
  <2>3. QED BY <2>1, <2>2, StepKinds DEF TrackerInv
<1>3. ListedAreFollowed <=> []Where /\ [][Stays]_trackVars
  BY DEF ListedAreFollowed
<1> HIDE DEF Where, Stays
<1>4. QED BY <1>1, <1>2, <1>3, TrackerInvHolds, PTL DEF TrackSpec

\* The continuity state of a PID is deleted exactly when no program used it before.
THEOREM ContinuityIsKept == TrackSpec => ContinuityKept
<1> DEFINE Keeps == followed' # followed =>
                      /\ \A p \in Programs : PidsOf(p) \cap PidsOf(p)' \cap restarted' = {}
                      /\ PidsInUse' \ PidsInUse \subseteq restarted'
<1>1. TrackerInv /\ [TrackNext]_trackVars => [Keeps]_trackVars
  <2> SUFFICES ASSUME TrackerInv, TrackNext, followed' # followed
               PROVE  /\ \A p \in Programs : PidsOf(p) \cap PidsOf(p)' \cap restarted' = {}
                      /\ PidsInUse' \ PidsInUse \subseteq restarted'
    OBVIOUS
  <2>1. PacketArrives
    BY StepKinds DEF TrackerInv, SenderChanges
  <2>2. Continues(followed, Now')
    BY <2>1, PacketStep DEF TrackerInv
  <2>3. \A p \in Programs : PidsOf(p) = PidsIn(followed[p]) /\ PidsOf(p)' = PidsIn(followed'[p])
    BY DEF PidsOf, PidsIn
  <2>4. PidsInUse = AllPids(followed) /\ PidsInUse' = AllPids(followed')
    BY <2>3 DEF PidsInUse, AllPids
  <2>5. Now'.followed = followed' /\ Now'.restarted = restarted'
    BY DEF Now
  <2>6. QED BY <2>2, <2>3, <2>4, <2>5 DEF Continues
<1>2. ContinuityKept <=> [][Keeps]_trackVars
  BY DEF ContinuityKept
<1> HIDE DEF Keeps
<1>3. QED BY <1>1, <1>2, TrackerInvHolds, PTL DEF TrackSpec

\* The programs that are analyzed, and the continuity of their PIDs, follow the PAT in use.
THEOREM AnalysisFollowsThePat == TrackSpec => FollowsThePat
BY ProgramsFollowThePat, ContinuityIsKept DEF FollowsThePat

-------------------------------------------------------------------------------
(* The sections of a broadcast.                                              *)

SectionAt(b, i) ==
  [version |-> b.version, number |-> i - 1, last |-> Len(b.contents) - 1,
   content |-> b.contents[i], intact |-> TRUE, current |-> TRUE]

\* The length of a broadcast.
LEMMA LengthTyped ==
  ASSUME NEW b \in BroadcastType
  PROVE  /\ Len(b.contents) \in Nat \ {0} /\ DOMAIN b.contents = 1 .. Len(b.contents)
         /\ b.version \in Versions /\ b.pid \in PidType
<1>1. b.contents \in Seq(Content) /\ b.contents # <<>>
  BY DEF BroadcastType, ContentsType
<1> HIDE DEF Content
<1>2. QED BY <1>1 DEF BroadcastType

\* What every section of a broadcast says of it, and that numbers tell them apart.
LEMMA SectionsSay ==
  ASSUME NEW b \in BroadcastType
  PROVE  /\ \A s \in Sections(b) :
              /\ s.version = b.version /\ s.last = Len(b.contents) - 1 /\ s.number \in Nat
              /\ Usable(s)
         /\ \A r, s \in Sections(b) : r.number = s.number => r = s
         /\ Sections(b) # {}
<1>1. Len(b.contents) \in Nat \ {0} /\ DOMAIN b.contents = 1 .. Len(b.contents)
  BY LengthTyped
<1>2. Sections(b) = {SectionAt(b, i) : i \in 1 .. Len(b.contents)}
  BY <1>1 DEF Sections, SectionAt
<1>3. ASSUME NEW i \in 1 .. Len(b.contents)
      PROVE  LET s == SectionAt(b, i) IN
             /\ s.version = b.version /\ s.last = Len(b.contents) - 1 /\ s.number \in Nat
             /\ Usable(s) /\ i = s.number + 1
  BY <1>1 DEF SectionAt, Usable
<1> HIDE DEF BroadcastType
<1>4. \A s \in Sections(b) :
        /\ s.version = b.version /\ s.last = Len(b.contents) - 1 /\ s.number \in Nat
        /\ Usable(s)
  BY <1>2, <1>3
<1>5. ASSUME NEW r \in Sections(b), NEW s \in Sections(b), r.number = s.number PROVE r = s
  <2>1. PICK i \in 1 .. Len(b.contents) : r = SectionAt(b, i)
    BY <1>2
  <2>2. PICK j \in 1 .. Len(b.contents) : s = SectionAt(b, j)
    BY <1>2
  <2>3. i = r.number + 1 /\ j = s.number + 1
    BY <1>3, <2>1, <2>2
  <2>4. QED BY <1>5, <2>1, <2>2, <2>3
<1>6. Sections(b) # {}
  <2>1. 1 \in 1 .. Len(b.contents)
    BY <1>1
  <2>2. SectionAt(b, 1) \in Sections(b)
    BY <1>2, <2>1
  <2>3. QED BY <2>2
<1>7. QED BY <1>4, <1>5, <1>6

\* There are as many sections as section_numbers.
LEMMA SectionsCounted ==
  ASSUME NEW b \in BroadcastType
  PROVE  IsFiniteSet(Sections(b)) /\ Cardinality(Sections(b)) = Len(b.contents)
<1> DEFINE n == Len(b.contents)
           f == [i \in 1 .. n |-> SectionAt(b, i)]
<1>1. n \in Nat \ {0} /\ DOMAIN b.contents = 1 .. n
  BY LengthTyped
<1>2. Sections(b) = {SectionAt(b, i) : i \in 1 .. n}
  BY <1>1 DEF Sections, SectionAt
<1>3. \A i \in 1 .. n : SectionAt(b, i).number = i - 1
  BY <1>1 DEF SectionAt
<1> HIDE DEF BroadcastType, n
<1>4. \A i, j \in 1 .. n : f[i] = f[j] => i = j
  BY <1>1, <1>3
<1>5. f \in Bijection(1 .. n, Sections(b))
  BY <1>2, <1>4 DEF Bijection, Injection, Surjection, IsInjective
<1>6. IsFiniteSet(1 .. n) /\ Cardinality(1 .. n) = n
  BY <1>1, FS_Interval
<1>7. ExistsBijection(1 .. n, Sections(b))
  BY <1>5 DEF ExistsBijection
<1>8. QED BY <1>6, <1>7, FS_Bijection DEF n

\* A set of sections of a broadcast that counts them all has them all.
LEMMA AllOfThem ==
  ASSUME NEW b \in BroadcastType, NEW set \in SUBSET Sections(b),
         Cardinality(set) > Len(b.contents) - 1
  PROVE  set = Sections(b)
<1>1. Len(b.contents) \in Nat
  BY LengthTyped
<1> HIDE DEF BroadcastType
<1>2. IsFiniteSet(Sections(b)) /\ Cardinality(Sections(b)) = Len(b.contents)
  BY SectionsCounted
<1>3. IsFiniteSet(set) /\ Cardinality(set) <= Len(b.contents) /\ Cardinality(set) \in Nat
      /\ (Cardinality(Sections(b)) = Cardinality(set) => Sections(b) = set)
  BY <1>2, FS_Subset, FS_CardinalityType
<1>4. QED BY <1>1, <1>2, <1>3

\* The version_number of a broadcast is that of its sections.
LEMMA VersionOfSections ==
  ASSUME NEW b \in BroadcastType
  PROVE  VersionOf(Sections(b)) = b.version
BY SectionsSay DEF VersionOf

-------------------------------------------------------------------------------
(* Collecting sections.                                                      *)

\* The sets in which a section is still missing.
Unfinished(sets) ==
  \A v \in Versions :
    IsFiniteSet(sets[v]) /\ \A s \in sets[v] : Cardinality(sets[v]) <= s.last

\* A set that is part of a broadcast, or that any section of the broadcast discards.
Holds(b, set) ==
  set \subseteq Sections(b) \/ \A s \in set : s.last # Len(b.contents) - 1

\* The sections of a broadcast with these numbers, and a set of exactly those.
Numbered(b, H) == {s \in Sections(b) : s.number \in H}

Collected(b, H, set) ==
  set = Numbered(b, H) \/ (H = {} /\ \A s \in set : s.last # Len(b.contents) - 1)

\* The set a section is added to, and what it is with it.
Agreeing(set, s) == IF \E o \in set : o.last # s.last \/ o.number = s.number THEN {} ELSE set
Whole(set, s)    == Agreeing(set, s) \cup {s}

\* What add returns.
LEMMA AddIs ==
  ASSUME NEW sets, NEW s
  PROVE  Add(sets, s) =
           IF ~Usable(s) \/ s \in sets[s.version] THEN [sets |-> sets, table |-> {}]
           ELSE IF Cardinality(Whole(sets[s.version], s)) <= s.last
             THEN [sets |-> [sets EXCEPT ![s.version] = Whole(sets[s.version], s)], table |-> {}]
           ELSE [sets |-> [sets EXCEPT ![s.version] = {}], table |-> Whole(sets[s.version], s)]
BY DEF Add, Whole, Agreeing

\* A section leaves the sets of the other version_numbers alone.
LEMMA AddKeepsOthers ==
  ASSUME NEW sets \in TablesType, NEW s \in SectionType
  PROVE  \A v \in Versions : v # s.version => Add(sets, s).sets[v] = sets[v]
<1>1. s.version \in Versions
  BY DEF SectionType
<1>2. QED BY <1>1, AddIs DEF TablesType

\* A set that is complete is handed on, so those that are kept are not.
LEMMA AddUnfinished ==
  ASSUME NEW sets \in TablesType, NEW s \in SectionType, Unfinished(sets)
  PROVE  Unfinished(Add(sets, s).sets)
<1> DEFINE w == Whole(sets[s.version], s)
<1>1. s.version \in Versions
  BY DEF SectionType
<1>2. IsFiniteSet(w) /\ \A o \in w : o.last = s.last
  <2>1. IsFiniteSet(Agreeing(sets[s.version], s))
    BY <1>1, FS_EmptySet DEF Agreeing, Unfinished
  <2>2. IsFiniteSet(w)
    BY <2>1, FS_AddElement DEF Whole
  <2>3. QED BY <2>2 DEF Whole, Agreeing
<1> HIDE DEF w
<1>3. \/ Add(sets, s).sets = sets
      \/ Cardinality(w) <= s.last /\ Add(sets, s).sets = [sets EXCEPT ![s.version] = w]
      \/ Add(sets, s).sets = [sets EXCEPT ![s.version] = {}]
  BY AddIs DEF w
<1>4. sets \in [Versions -> TableType]
  BY DEF TablesType
<1> HIDE DEF TableType
<1>5. CASE Add(sets, s).sets = sets
  BY <1>5
<1>6. CASE Cardinality(w) <= s.last /\ Add(sets, s).sets = [sets EXCEPT ![s.version] = w]
  BY <1>1, <1>2, <1>4, <1>6 DEF Unfinished
<1>7. CASE Add(sets, s).sets = [sets EXCEPT ![s.version] = {}]
  BY <1>1, <1>4, <1>7, FS_EmptySet DEF Unfinished
<1>8. QED BY <1>3, <1>5, <1>6, <1>7

\* A section of a broadcast joins what is there of the broadcast, and nothing else.
LEMMA AddHeld ==
  ASSUME NEW b \in BroadcastType, NEW sets \in TablesType, NEW s \in Sections(b),
         Holds(b, sets[b.version])
  PROVE  /\ Add(sets, s).table \in {{}, Sections(b)}
         /\ Add(sets, s).sets[b.version] \subseteq Sections(b)
<1> DEFINE set == sets[b.version]
           w == Whole(set, s)
<1>1. s.version = b.version /\ s.last = Len(b.contents) - 1 /\ b.version \in Versions
  BY SectionsSay, LengthTyped
<1>2. s \in set => set \subseteq Sections(b)
  BY <1>1 DEF Holds
<1>3. w \subseteq Sections(b)
  BY <1>1 DEF Whole, Agreeing, Holds
<1>4. Cardinality(w) > s.last => w = Sections(b)
  BY <1>1, <1>3, AllOfThem
<1>5. Cardinality(w) \in Nat /\ s.last \in Nat
  <2>1. Len(b.contents) \in Nat \ {0}
    BY LengthTyped
  <2>2. Cardinality(w) \in Nat
    BY <1>3, SectionsCounted, FS_Subset, FS_CardinalityType
  <2>3. QED BY <1>1, <2>1, <2>2
<1>6. Add(sets, s) = IF ~Usable(s) \/ s \in set THEN [sets |-> sets, table |-> {}]
                     ELSE IF Cardinality(w) <= s.last
                       THEN [sets |-> [sets EXCEPT ![b.version] = w], table |-> {}]
                     ELSE [sets |-> [sets EXCEPT ![b.version] = {}], table |-> w]
  BY <1>1, AddIs
<1>7. Usable(s)
  BY SectionsSay
<1>8. sets \in [Versions -> TableType]
  BY DEF TablesType
<1> HIDE DEF w, BroadcastType, TableType
<1>9. CASE s \in set
  BY <1>2, <1>6, <1>9
<1>10. CASE s \notin set /\ Cardinality(w) <= s.last
  BY <1>1, <1>3, <1>6, <1>7, <1>8, <1>10
<1>11. CASE s \notin set /\ ~(Cardinality(w) <= s.last)
  BY <1>1, <1>4, <1>5, <1>6, <1>7, <1>8, <1>11
<1>12. QED BY <1>9, <1>10, <1>11

\* The sections of a broadcast that were received are collected, unless they are all there.
LEMMA AddCollected ==
  ASSUME NEW b \in BroadcastType, NEW sets \in TablesType, NEW s \in Sections(b),
         NEW H, Collected(b, H, sets[b.version]), Add(sets, s).table = {}
  PROVE  Add(sets, s).sets[b.version] = Numbered(b, H \cup {s.number})
<1> DEFINE set == sets[b.version]
           w == Whole(set, s)
<1>1. /\ s.version = b.version /\ s.last = Len(b.contents) - 1 /\ b.version \in Versions
      /\ Usable(s)
  BY SectionsSay, LengthTyped
<1>2. Add(sets, s) = IF ~Usable(s) \/ s \in set THEN [sets |-> sets, table |-> {}]
                     ELSE IF Cardinality(w) <= s.last
                       THEN [sets |-> [sets EXCEPT ![b.version] = w], table |-> {}]
                     ELSE [sets |-> [sets EXCEPT ![b.version] = {}], table |-> w]
  BY <1>1, AddIs
<1>3. w # {}
  BY DEF Whole
<1>4. sets \in [Versions -> TableType]
  BY DEF TablesType
<1>5. \A o \in Sections(b) : o.last = s.last /\ (o.number = s.number => o = s)
  BY <1>1, SectionsSay
<1>6. CASE s \in set
  <2>1. set = Numbered(b, H)
    BY <1>1, <1>6 DEF Collected
  <2>2. s.number \in H
    BY <1>6, <2>1 DEF Numbered
  <2>3. Add(sets, s).sets = sets
    BY <1>2, <1>6
  <2>4. H \cup {s.number} = H
    BY <2>2
  <2>5. QED BY <2>1, <2>3, <2>4
<1>7. CASE s \notin set
  <2>1. Add(sets, s).sets = [sets EXCEPT ![b.version] = w]
    <3> HIDE DEF w
    <3> QED BY <1>1, <1>2, <1>3, <1>7
  <2>2. Add(sets, s).sets[b.version] = w
    <3> HIDE DEF w, TableType
    <3> QED BY <1>1, <1>4, <2>1
  <2>3. CASE set = Numbered(b, H)
    <3>1. s.number \notin H
      BY <1>7, <2>3 DEF Numbered
    <3>2. \A o \in set : o.last = s.last /\ o.number # s.number
      BY <1>5, <2>3, <3>1 DEF Numbered
    <3>3. w = Numbered(b, H) \cup {s}
      BY <2>3, <3>2 DEF Whole, Agreeing
    <3>4. Numbered(b, H) \cup {s} = Numbered(b, H \cup {s.number})
      BY <1>5 DEF Numbered
    <3>5. QED BY <2>2, <3>3, <3>4
  <2>4. CASE H = {} /\ \A o \in set : o.last # Len(b.contents) - 1
    <3>1. w = {s}
      BY <1>1, <2>4 DEF Whole, Agreeing
    <3>2. Numbered(b, H \cup {s.number}) = {s}
      BY <1>5, <2>4 DEF Numbered
    <3>3. QED BY <2>2, <3>1, <3>2
  <2>5. QED BY <2>3, <2>4 DEF Collected
<1>8. QED BY <1>6, <1>7

\* A set in which a section is missing is not the broadcast.
LEMMA UnfinishedLacks ==
  ASSUME NEW b \in BroadcastType, NEW sets, Unfinished(sets)
  PROVE  sets[b.version] # Sections(b)
<1>1. Len(b.contents) \in Nat \ {0} /\ b.version \in Versions
  BY LengthTyped
<1>2. PICK s \in Sections(b) : s.last = Len(b.contents) - 1
  BY SectionsSay
<1>3. Cardinality(Sections(b)) = Len(b.contents)
  BY SectionsCounted
<1>4. QED BY <1>1, <1>2, <1>3 DEF Unfinished

-------------------------------------------------------------------------------
(* One table: the broadcasts B, those applied (A), the numbers received of the *)
(* last one (H), and the receiver.                                            *)

Newest(B, k) == \A j \in k + 1 .. Len(B) : B[j].version # B[k].version

\* The last broadcast is the first one on its PID.
NewOn(B) == \A k \in 1 .. Len(B) - 1 : B[k].pid # B[Len(B)].pid

InTable(B, table) == {k \in DOMAIN B : Sections(B[k]) = table}

\* A broadcast that was applied is remembered while no other has its version_number.
Remembers(B, A, r) ==
  /\ r.table # {} /\ r.history[VersionOf(r.table)] = r.table
  /\ A \subseteq DOMAIN B
  /\ \A k \in A : Newest(B, k) => r.history[B[k].version] = Sections(B[k])

\* A set can be completed to a broadcast on the PID that is read, and to no mixture.
Collects(B, r) ==
  \A k \in DOMAIN B : Newest(B, k) /\ B[k].pid = r.pmtPid => Holds(B[k], r.sets[B[k].version])

\* The last broadcast is in use, or will be new when it is complete.
Awaits(B, r) ==
  \/ r.table = Sections(B[Len(B)])
  \/ /\ r.history[B[Len(B)].version] # Sections(B[Len(B)])
     /\ \/ VersionOf(r.table) # B[Len(B)].version
        \/ NewOn(B) /\ (B[Len(B)].pid = r.pmtPid => r.moved)

\* What was received of the last broadcast is there, unless the broadcast is in use.
Gathers(B, H, r) ==
  IF B[Len(B)].pid # r.pmtPid THEN H = {}
  ELSE r.table = Sections(B[Len(B)]) \/ Collected(B[Len(B)], H, r.sets[B[Len(B)].version])

ListensOn(B, r) == \E k \in DOMAIN B : B[k].pid = r.pmtPid

Live(B, H, r) == Collects(B, r) /\ Awaits(B, r) /\ Gathers(B, H, r) /\ ListensOn(B, r)

TableInv(B, A, H, r) ==
  /\ Remembers(B, A, r)
  /\ Unfinished(r.sets)
  /\ ~r.removed => Live(B, H, r)

\* What a section that is read does to a receiver.
Takes(r, s, g) ==
  LET added == Add(r.sets, s) IN
  /\ g.pmtPid = r.pmtPid /\ g.removed = r.removed /\ g.sets = added.sets
  /\ IF added.table = {} THEN g.table = r.table /\ g.history = r.history /\ g.moved = r.moved
     ELSE IF IsNew(r.table, r.history, added.table, r.moved)
       THEN /\ g.table = added.table
            /\ g.history = [r.history EXCEPT ![VersionOf(added.table)] = added.table]
     ELSE g.table = r.table /\ g.history = r.history

\* The indices of what was sent.
LEMMA LogTyped ==
  ASSUME NEW B \in SentType
  PROVE  /\ Len(B) \in Nat \ {0} /\ Len(B) \in DOMAIN B /\ DOMAIN B = 1 .. Len(B)
         /\ \A k \in DOMAIN B : B[k] \in BroadcastType
<1>1. B \in Seq(BroadcastType) /\ B # <<>>
  BY DEF SentType
<1> HIDE DEF BroadcastType
<1>2. QED BY <1>1

\* The last broadcast is the newest, and no other has its version_number and is.
LEMMA NewestIsOne ==
  ASSUME NEW B \in SentType
  PROVE  /\ Newest(B, Len(B))
         /\ \A j, k \in DOMAIN B :
              Newest(B, j) /\ Newest(B, k) /\ B[j].version = B[k].version => j = k
<1>1. Len(B) \in Nat /\ DOMAIN B = 1 .. Len(B)
  BY LogTyped
<1> HIDE DEF SentType
<1>2. QED BY <1>1 DEF Newest

\* The fields of a receiver.
LEMMA ReceiverTyped ==
  ASSUME NEW r \in FollowedType
  PROVE  /\ r.table \in TableType /\ r.history \in TablesType /\ r.sets \in TablesType
         /\ r.moved \in BOOLEAN /\ r.removed \in BOOLEAN /\ r.pmtPid \in PidType
BY DEF FollowedType

\* A table that is in use is remembered, however often it was broadcast.
LEMMA NoteRemembers ==
  ASSUME NEW B \in SentType, NEW A, NEW r \in FollowedType, Remembers(B, A, r)
  PROVE  Remembers(B, A \cup InTable(B, r.table), r)
<1>1. ASSUME NEW k \in InTable(B, r.table) PROVE k \in DOMAIN B /\ r.history[B[k].version] = Sections(B[k])
  <2>1. k \in DOMAIN B /\ Sections(B[k]) = r.table
    BY DEF InTable
  <2>2. B[k] \in BroadcastType
    BY <2>1, LogTyped
  <2>3. VersionOf(r.table) = B[k].version
    BY <2>1, <2>2, VersionOfSections
  <2>4. QED BY <2>1, <2>3 DEF Remembers
<1>2. QED BY <1>1 DEF Remembers

\* The last broadcast comes into use and is remembered.
LEMMA AppliedRemembers ==
  ASSUME NEW B \in SentType, NEW A, NEW r \in FollowedType, NEW g \in FollowedType,
         Remembers(B, A, r), g.table = Sections(B[Len(B)]),
         g.history = [r.history EXCEPT ![B[Len(B)].version] = Sections(B[Len(B)])]
  PROVE  Remembers(B, A, g)
<1> DEFINE b == B[Len(B)]
<1>1. b \in BroadcastType /\ Len(B) \in DOMAIN B
  BY LogTyped
<1>2. b.version \in Versions
  BY <1>1, LengthTyped
<1>3. r.history \in [Versions -> TableType]
  BY ReceiverTyped DEF TablesType
<1>4. g.table # {} /\ VersionOf(g.table) = b.version
  BY <1>1, SectionsSay, VersionOfSections
<1>5. /\ g.history[b.version] = Sections(b)
      /\ \A v \in Versions : v # b.version => g.history[v] = r.history[v]
  BY <1>2, <1>3
<1>6. ASSUME NEW k \in A, Newest(B, k) PROVE g.history[B[k].version] = Sections(B[k])
  <2>1. k \in DOMAIN B /\ r.history[B[k].version] = Sections(B[k])
    BY <1>6 DEF Remembers
  <2>2. B[k].version \in Versions
    BY <2>1, LogTyped, LengthTyped
  <2>3. CASE B[k].version = b.version
    <3>1. k = Len(B)
      BY <1>1, <1>6, <2>1, <2>3, NewestIsOne
    <3>2. QED BY <1>5, <3>1
  <2>4. CASE B[k].version # b.version
    BY <1>5, <2>1, <2>2, <2>4
  <2>5. QED BY <2>3, <2>4
<1> HIDE DEF b
<1>7. QED BY <1>4, <1>5, <1>6 DEF Remembers, b

\* A section of a broadcast on the PID that is read keeps the sets in order, and
\* completes no table but that broadcast.
LEMMA SectionTaken ==
  ASSUME NEW B \in SentType, NEW r \in FollowedType, NEW g \in FollowedType,
         Collects(B, r), Unfinished(r.sets), NEW j \in DOMAIN B, Newest(B, j),
         B[j].pid = r.pmtPid, NEW s \in Sections(B[j]), Takes(r, s, g)
  PROVE  /\ Unfinished(g.sets) /\ Collects(B, g)
         /\ Add(r.sets, s).table \in {{}, Sections(B[j])}
         /\ \A v \in Versions : v # B[j].version => g.sets[v] = r.sets[v]
<1> DEFINE b == B[j]
<1>1. b \in BroadcastType
  BY LogTyped
<1>2. /\ s.version = b.version /\ s \in SectionType /\ b.version \in Versions
      /\ r.sets \in TablesType
  BY <1>1, SectionsSay, SectionsTyped, LengthTyped, ReceiverTyped DEF TableType
<1>3. g.sets = Add(r.sets, s).sets /\ g.pmtPid = r.pmtPid
  BY DEF Takes
<1>4. Unfinished(g.sets)
  BY <1>2, <1>3, AddUnfinished
<1>5. Holds(b, r.sets[b.version])
  BY DEF Collects
<1>6. Add(r.sets, s).table \in {{}, Sections(b)} /\ g.sets[b.version] \subseteq Sections(b)
  BY <1>1, <1>2, <1>3, <1>5, AddHeld
<1>7. \A v \in Versions : v # b.version => g.sets[v] = r.sets[v]
  BY <1>2, <1>3, AddKeepsOthers
<1>8. ASSUME NEW k \in DOMAIN B, Newest(B, k), B[k].pid = g.pmtPid
      PROVE  Holds(B[k], g.sets[B[k].version])
  <2>1. B[k].version \in Versions
    BY LogTyped, LengthTyped
  <2>2. CASE B[k].version = b.version
    <3>1. k = j
      BY <1>8, <2>2, NewestIsOne
    <3>2. QED BY <1>6, <3>1 DEF Holds
  <2>3. CASE B[k].version # b.version
    BY <1>3, <1>7, <1>8, <2>1, <2>3 DEF Collects
  <2>4. QED BY <2>2, <2>3
<1>9. QED BY <1>4, <1>6, <1>7, <1>8 DEF Collects

\* A section of the last broadcast, read on its PID.
LEMMA CurrentTaken ==
  ASSUME NEW B \in SentType, NEW A, NEW H, NEW r \in FollowedType, NEW g \in FollowedType,
         TableInv(B, A, H, r), ~r.removed, B[Len(B)].pid = r.pmtPid,
         NEW s \in Sections(B[Len(B)]), Takes(r, s, g)
  PROVE  /\ TableInv(B, A \cup InTable(B, g.table), H \cup {s.number}, g)
         /\ g.table = r.table \/ g.table = Sections(B[Len(B)])
<1> DEFINE b == B[Len(B)]
           added == Add(r.sets, s)
<1>1. b \in BroadcastType /\ Len(B) \in DOMAIN B /\ Newest(B, Len(B))
  BY LogTyped, NewestIsOne
<1>2. Collects(B, r) /\ Awaits(B, r) /\ Gathers(B, H, r) /\ ListensOn(B, r) /\ Unfinished(r.sets)
      /\ Remembers(B, A, r)
  BY DEF TableInv, Live
<1>3. Unfinished(g.sets) /\ Collects(B, g) /\ added.table \in {{}, Sections(b)}
  BY <1>1, <1>2, SectionTaken
<1>4. g.pmtPid = r.pmtPid /\ g.sets = added.sets
  BY DEF Takes
<1>5. VersionOf(Sections(b)) = b.version /\ Sections(b) # {}
  BY <1>1, VersionOfSections, SectionsSay
<1>6. CASE added.table = {}
  <2>1. g.table = r.table /\ g.history = r.history /\ g.moved = r.moved
    BY <1>6 DEF Takes
  <2>2. Remembers(B, A, g)
    BY <1>2, <2>1 DEF Remembers
  <2>3. Awaits(B, g)
    BY <1>2, <1>4, <2>1 DEF Awaits
  <2>4. Gathers(B, H \cup {s.number}, g)
    <3>1. CASE r.table = Sections(b)
      BY <1>4, <2>1, <3>1 DEF Gathers
    <3>2. CASE Collected(b, H, r.sets[b.version])
      <4>1. added.sets[b.version] = Numbered(b, H \cup {s.number})
        BY <1>1, <1>6, <3>2, ReceiverTyped, AddCollected
      <4>2. QED BY <1>4, <4>1 DEF Gathers, Collected
    <3>3. QED BY <1>2, <3>1, <3>2 DEF Gathers
  <2>5. QED BY <1>2, <1>3, <1>4, <2>1, <2>2, <2>3, <2>4, NoteRemembers DEF TableInv, Live, ListensOn
<1>7. CASE added.table = Sections(b)
  <2>1. g.table = Sections(b) /\ Remembers(B, A, g)
    <3>1. CASE IsNew(r.table, r.history, added.table, r.moved)
      <4>1. /\ g.table = added.table
            /\ g.history = [r.history EXCEPT ![VersionOf(added.table)] = added.table]
        BY <1>5, <1>7, <3>1 DEF Takes
      <4>2. QED BY <1>2, <1>5, <1>7, <4>1, AppliedRemembers
    <3>2. CASE ~IsNew(r.table, r.history, added.table, r.moved)
      <4>1. r.table = Sections(b)
        BY <1>2, <1>5, <1>7, <3>2 DEF IsNew, Awaits
      <4>2. g.table = r.table /\ g.history = r.history
        BY <1>5, <1>7, <3>2 DEF Takes
      <4>3. QED BY <1>2, <4>1, <4>2 DEF Remembers
    <3>3. QED BY <3>1, <3>2
  <2>2. Awaits(B, g) /\ Gathers(B, H \cup {s.number}, g) /\ ListensOn(B, g)
    BY <1>2, <1>4, <2>1 DEF Awaits, Gathers, ListensOn
  <2>3. QED BY <1>3, <2>1, <2>2, NoteRemembers DEF TableInv, Live
<1>8. QED BY <1>3, <1>6, <1>7

\* A section that comes late, of a broadcast that was applied and whose
\* version_number is not in use again.
LEMMA LateTaken ==
  ASSUME NEW B \in SentType, NEW A, NEW H, NEW r \in FollowedType, NEW g \in FollowedType,
         NEW j, NEW s, TableInv(B, A, H, r), ~r.removed, j \in A, j # Len(B), Newest(B, j),
         B[j].pid = r.pmtPid, s \in Sections(B[j]), Takes(r, s, g)
  PROVE  TableInv(B, A \cup InTable(B, g.table), H, g) /\ g.table = r.table
<1> DEFINE b == B[Len(B)]
           added == Add(r.sets, s)
<1>1. /\ Collects(B, r) /\ Awaits(B, r) /\ Gathers(B, H, r) /\ ListensOn(B, r)
      /\ Unfinished(r.sets) /\ Remembers(B, A, r)
  BY DEF TableInv, Live
<1>2. /\ j \in DOMAIN B /\ r.history[B[j].version] = Sections(B[j])
  BY <1>1 DEF Remembers
<1>3. /\ B[j] \in BroadcastType /\ b \in BroadcastType /\ j \in 1 .. Len(B) - 1
      /\ Len(B) \in DOMAIN B
  BY <1>2, LogTyped
<1>4. /\ Unfinished(g.sets) /\ Collects(B, g) /\ added.table \in {{}, Sections(B[j])}
      /\ \A v \in Versions : v # B[j].version => g.sets[v] = r.sets[v]
  BY <1>1, <1>2, SectionTaken
<1>5. VersionOf(Sections(B[j])) = B[j].version /\ Sections(B[j]) # {}
  BY <1>3, VersionOfSections, SectionsSay
<1>6. ~IsNew(r.table, r.history, Sections(B[j]), r.moved)
  BY <1>2, <1>5 DEF IsNew
<1>7. /\ g.pmtPid = r.pmtPid /\ g.table = r.table /\ g.history = r.history
      /\ added.table = {} => g.moved = r.moved
  BY <1>4, <1>5, <1>6 DEF Takes
<1>8. Remembers(B, A, g)
  BY <1>1, <1>7 DEF Remembers
<1>9. Awaits(B, g)
  <2>1. NewOn(B) => b.pid # r.pmtPid
    BY <1>3 DEF NewOn
  <2>2. QED BY <1>1, <1>7, <2>1 DEF Awaits
<1>10. Gathers(B, H, g)
  <2>1. b.version \in Versions /\ b.version # B[j].version
    <3>1. b.version \in Versions
      BY <1>3, LengthTyped
    <3>2. Len(B) \in j + 1 .. Len(B)
      BY <1>3, LogTyped
    <3>3. QED BY <3>1, <3>2 DEF Newest
  <2>2. g.sets[b.version] = r.sets[b.version]
    BY <1>4, <2>1
  <2>3. QED BY <1>1, <1>7, <2>2 DEF Gathers
<1>11. QED BY <1>1, <1>4, <1>7, <1>8, <1>9, <1>10, NoteRemembers DEF TableInv, Live, ListensOn

\* A receiver that does not change, and what is in use is noted.
LEMMA NothingTaken ==
  ASSUME NEW B \in SentType, NEW A, NEW H, NEW r \in FollowedType, NEW g \in FollowedType,
         TableInv(B, A, H, r), g.table = r.table, g.history = r.history,
         ~r.removed /\ ~g.removed =>
            g.sets = r.sets /\ g.pmtPid = r.pmtPid /\ g.moved = r.moved,
         r.removed => g.removed, g.sets = r.sets
  PROVE  TableInv(B, A \cup InTable(B, g.table), H, g)
<1>1. Remembers(B, A, g) /\ Unfinished(g.sets)
  BY DEF TableInv, Remembers
<1>2. ASSUME ~g.removed PROVE Live(B, H, g)
  <2>1. /\ g.table = r.table /\ g.history = r.history /\ g.sets = r.sets /\ g.pmtPid = r.pmtPid
        /\ g.moved = r.moved
    BY <1>2
  <2>2. Live(B, H, r)
    BY <1>2 DEF TableInv
  <2>3. QED BY <2>1, <2>2 DEF Live, Collects, Awaits, Gathers, ListensOn
<1>3. QED BY <1>1, <1>2, NoteRemembers DEF TableInv

\* A section that must not be used.
LEMMA UnusableTaken ==
  ASSUME NEW r, NEW s, NEW g, ~Usable(s), Takes(r, s, g)
  PROVE  /\ g.table = r.table /\ g.history = r.history /\ g.sets = r.sets
         /\ g.pmtPid = r.pmtPid /\ g.moved = r.moved /\ g.removed = r.removed
<1>1. Add(r.sets, s) = [sets |-> r.sets, table |-> {}]
  BY AddIs
<1>2. QED BY <1>1 DEF Takes

\* The PAT gives the program another PID, the one its PMT is on.
LEMMA SwitchTaken ==
  ASSUME NEW B \in SentType, NEW A, NEW H, NEW r \in FollowedType, NEW g \in FollowedType,
         TableInv(B, A, H, r), ~r.removed, g.table = r.table, g.history = r.history,
         g.sets = NoSets, g.moved, g.pmtPid = B[Len(B)].pid
  PROVE  TableInv(B, A \cup InTable(B, g.table), {}, g)
<1> DEFINE b == B[Len(B)]
<1>1. b \in BroadcastType /\ Len(B) \in DOMAIN B
  BY LogTyped
<1>2. \A v \in Versions : g.sets[v] = {}
  BY DEF NoSets
<1>3. Remembers(B, A, g)
  BY DEF TableInv, Remembers
<1>4. Unfinished(g.sets)
  BY <1>2, FS_EmptySet DEF Unfinished
<1>5. Collects(B, g)
  <2>1. ASSUME NEW k \in DOMAIN B PROVE Holds(B[k], g.sets[B[k].version])
    <3>1. B[k].version \in Versions
      BY LogTyped, LengthTyped
    <3>2. QED BY <1>2, <3>1 DEF Holds
  <2>2. QED BY <2>1 DEF Collects
<1>6. Awaits(B, g)
  BY DEF TableInv, Live, Awaits
<1>7. Gathers(B, {}, g)
  <2>1. g.sets[b.version] = {}
    BY <1>1, <1>2, LengthTyped
  <2>2. Collected(b, {}, {})
    BY DEF Collected
  <2>3. QED BY <2>1, <2>2 DEF Gathers
<1>8. ListensOn(B, g)
  BY <1>1 DEF ListensOn
<1>9. QED BY <1>3, <1>4, <1>5, <1>6, <1>7, <1>8, NoteRemembers DEF TableInv, Live

-------------------------------------------------------------------------------
(* What the sender does to a table.                                          *)

\* A log with one more broadcast.
LEMMA AppendIs ==
  ASSUME NEW B \in SentType, NEW b \in BroadcastType
  PROVE  LET L == Append(B, b) IN
         /\ L[Len(L)] = b /\ Len(L) = Len(B) + 1
         /\ DOMAIN L = DOMAIN B \cup {Len(L)}
         /\ \A k \in DOMAIN B : L[k] = B[k]
         /\ \A k \in DOMAIN B : Newest(L, k) => Newest(B, k) /\ b.version # B[k].version
<1> DEFINE L == Append(B, b)
<1>1. B \in Seq(BroadcastType) /\ Len(B) \in Nat /\ DOMAIN B = 1 .. Len(B)
  BY LogTyped DEF SentType
<1> HIDE DEF BroadcastType
<1>2. /\ L[Len(L)] = b /\ Len(L) = Len(B) + 1 /\ DOMAIN L = 1 .. Len(B) + 1
      /\ \A k \in 1 .. Len(B) : L[k] = B[k]
  BY <1>1
<1> HIDE DEF L
<1>3. ASSUME NEW k \in DOMAIN B, Newest(L, k) PROVE Newest(B, k) /\ b.version # B[k].version
  <2>1. \A j \in k + 1 .. Len(B) + 1 : L[j].version # L[k].version
    BY <1>2, <1>3 DEF Newest
  <2>2. \A j \in k + 1 .. Len(B) : j \in 1 .. Len(B) /\ j \in k + 1 .. Len(B) + 1
    BY <1>1
  <2>3. Len(B) + 1 \in k + 1 .. Len(B) + 1
    BY <1>1
  <2>4. QED BY <1>1, <1>2, <2>1, <2>2, <2>3 DEF Newest
<1>4. QED BY <1>1, <1>2, <1>3 DEF L

\* A new broadcast leaves what is remembered, and what is collected of the others, true.
LEMMA BroadcastKeeps ==
  ASSUME NEW B \in SentType, NEW b \in BroadcastType, NEW A, NEW H, NEW r \in FollowedType,
         TableInv(B, A, H, r), b.pid = r.pmtPid => Holds(b, r.sets[b.version])
  PROVE  LET L == Append(B, b) IN
         /\ Remembers(L, A, r)
         /\ ~r.removed => Collects(L, r) /\ ListensOn(L, r)
<1> DEFINE L == Append(B, b)
<1>1. /\ L[Len(L)] = b /\ DOMAIN L = DOMAIN B \cup {Len(L)}
      /\ \A k \in DOMAIN B : L[k] = B[k]
      /\ \A k \in DOMAIN B : Newest(L, k) => Newest(B, k)
  BY AppendIs, SMTT(40)
<1> HIDE DEF L, SentType, BroadcastType
<1>2. Remembers(L, A, r)
  <2>1. Remembers(B, A, r)
    BY SMTT(40) DEF TableInv
  <2>2. QED BY <1>1, <2>1 DEF Remembers
<1>3. ASSUME ~r.removed PROVE Collects(L, r) /\ ListensOn(L, r)
  <2>1. Collects(B, r) /\ ListensOn(B, r)
    BY <1>3, SMTT(40) DEF TableInv, Live
  <2>2. ASSUME NEW k \in DOMAIN L, Newest(L, k), L[k].pid = r.pmtPid
        PROVE  Holds(L[k], r.sets[L[k].version])
    BY <1>1, <2>1, <2>2 DEF Collects
  <2>3. QED BY <1>1, <2>1, <2>2 DEF Collects, ListensOn
<1>4. QED BY <1>2, <1>3 DEF L

\* A table that is broadcast anew under a version_number that is free.
LEMMA NextBroadcast ==
  ASSUME NEW B \in SentType, NEW b \in BroadcastType, NEW A, NEW H, NEW r \in FollowedType,
         TableInv(B, A, H, r), VersionOf(r.table) # b.version,
         \A s \in r.sets[b.version] : s.last # Len(b.contents) - 1,
         r.history[b.version] # Sections(b)
  PROVE  TableInv(Append(B, b), A, {}, r)
<1> DEFINE L == Append(B, b)
<1>1. Holds(b, r.sets[b.version])
  BY DEF Holds
<1>2. Remembers(L, A, r) /\ (~r.removed => Collects(L, r) /\ ListensOn(L, r))
  BY <1>1, BroadcastKeeps
<1>3. L[Len(L)] = b
  BY AppendIs
<1> HIDE DEF L, SentType, BroadcastType
<1>4. Awaits(L, r) /\ Gathers(L, {}, r)
  BY <1>3 DEF Awaits, Gathers, Collected
<1>5. QED BY <1>2, <1>4 DEF TableInv, Live, L

\* A PMT that goes on with its version_number on a PID it was not on before.
LEMMA MovedBroadcast ==
  ASSUME NEW B \in SentType, NEW b \in BroadcastType, NEW A, NEW H, NEW r \in FollowedType,
         TableInv(B, A, H, r), \A k \in DOMAIN B : B[k].pid # b.pid,
         r.table = Sections(b) \/ r.history[b.version] # Sections(b)
  PROVE  TableInv(Append(B, b), A, {}, r)
<1> DEFINE L == Append(B, b)
<1>1. /\ L[Len(L)] = b /\ Len(L) = Len(B) + 1 /\ \A k \in DOMAIN B : L[k] = B[k]
  BY AppendIs
<1>2. Len(B) \in Nat /\ DOMAIN B = 1 .. Len(B)
  BY LogTyped
<1>3. NewOn(L)
  <2> HIDE DEF L, SentType, BroadcastType
  <2> QED BY <1>1, <1>2 DEF NewOn
<1>4. CASE r.removed
  <2>1. Remembers(B, A, r) /\ Unfinished(r.sets)
    BY DEF TableInv
  <2>2. \A k \in DOMAIN B : Newest(L, k) => Newest(B, k)
    BY AppendIs
  <2>3. DOMAIN L = DOMAIN B \cup {Len(L)}
    BY AppendIs
  <2> HIDE DEF L, SentType, BroadcastType
  <2>4. Remembers(L, A, r)
    BY <1>1, <2>1, <2>2, <2>3 DEF Remembers
  <2>5. QED BY <1>4, <2>1, <2>4 DEF TableInv, L
<1>5. CASE ~r.removed
  <2>1. b.pid # r.pmtPid
    BY <1>5 DEF TableInv, Live, ListensOn
  <2>2. Remembers(L, A, r) /\ Collects(L, r) /\ ListensOn(L, r)
    BY <1>5, <2>1, BroadcastKeeps
  <2> HIDE DEF L, SentType, BroadcastType
  <2>3. Awaits(L, r) /\ Gathers(L, {}, r)
    BY <1>1, <1>3, <2>1 DEF Awaits, Gathers
  <2>4. QED BY <2>2, <2>3 DEF TableInv, Live, L
<1>6. QED BY <1>4, <1>5

-------------------------------------------------------------------------------
(* What a packet does to the receivers.                                      *)

\* The receiver of a table; the PAT has one PID and is never withdrawn.
Receiver(t) ==
  IF t = Pat THEN [table |-> pat.table, history |-> pat.history, sets |-> pat.sets,
                   pmtPid |-> Pat, moved |-> FALSE, removed |-> FALSE]
  ELSE followed[t]

\* The receivers have their types.
LEMMA ReceiversTyped ==
  ASSUME TrackerTypes, NEW t \in Tables
  PROVE  Receiver(t) \in FollowedType
<1>1. CASE t = Pat
  <2>1. Pat \in PidType
    BY DEF Pat, PidType
  <2>2. pat.table \in TableType /\ pat.history \in TablesType /\ pat.sets \in TablesType
    BY DEF TrackerTypes, PatType
  <2>3. QED BY <1>1, <2>1, <2>2 DEF Receiver, FollowedType
<1>2. CASE t # Pat
  BY <1>2 DEF Tables, Receiver, TrackerTypes
<1>3. QED BY <1>1, <1>2

\* A section of the PAT.
LEMMA PatTaken ==
  ASSUME TrackerTypes, NEW s \in SectionType, ObservePat(s)
  PROVE  Takes(Receiver(Pat), s, Receiver(Pat)')
<1> DEFINE added == Add(pat.sets, s)
           new   == added.table # {} /\ IsNew(pat.table, pat.history, added.table, FALSE)
           r == Receiver(Pat)
           g == Receiver(Pat)'
<1>1. /\ r.table = pat.table /\ r.history = pat.history /\ r.sets = pat.sets
      /\ r.pmtPid = Pat /\ r.moved = FALSE /\ r.removed = FALSE
  BY DEF Receiver
<1>2. /\ g.table = pat'.table /\ g.history = pat'.history /\ g.sets = pat'.sets
      /\ g.pmtPid = Pat /\ g.moved = FALSE /\ g.removed = FALSE
  BY DEF Receiver
<1>3. pat' = IF ~new THEN [pat EXCEPT !.sets = added.sets]
             ELSE [table   |-> added.table,
                   history |-> [pat.history EXCEPT ![VersionOf(added.table)] = added.table],
                   sets    |-> added.sets]
  BY DEF ObservePat
<1>4. pat \in PatType
  BY DEF TrackerTypes
<1> HIDE DEF added, r, g
<1>5. CASE ~new
  <2>1. pat'.table = pat.table /\ pat'.history = pat.history /\ pat'.sets = added.sets
    BY <1>3, <1>4, <1>5 DEF PatType
  <2>2. QED BY <1>1, <1>2, <1>5, <2>1 DEF Takes, added, r, g
<1>6. CASE new
  <2>1. /\ pat'.table = added.table /\ pat'.sets = added.sets
        /\ pat'.history = [pat.history EXCEPT ![VersionOf(added.table)] = added.table]
    BY <1>3, <1>6
  <2>2. QED BY <1>1, <1>2, <1>6, <2>1 DEF Takes, added, r, g
<1>7. QED BY <1>5, <1>6

\* A section of the PMT of p, if p is read on that PID.
LEMMA PmtTaken ==
  ASSUME TrackerTypes, NEW s \in SectionType, NEW p \in Programs, NEW pid, ObservePmt(p, pid, s)
  PROVE  IF Reads(p, pid) THEN Takes(followed[p], s, followed'[p]) ELSE followed'[p] = followed[p]
<1> DEFINE f == followed[p]
           added == Add(f.sets, s)
<1>0. /\ followed \in [Programs -> FollowedType] /\ f \in FollowedType
      /\ f.table \in TableType /\ f.history \in TablesType /\ f.sets \in TablesType
      /\ f.pmtPid \in PidType
  BY DEF TrackerTypes, FollowedType
<1>1. added.sets \in TablesType /\ added.table \in TableType
  BY <1>0, AddTyped
<1> HIDE DEF added
<1>2. CASE ~Reads(p, pid)
  BY <1>2 DEF ObservePmt
<1>3. CASE Reads(p, pid) /\ added.table = {}
  <2> DEFINE g == [f EXCEPT !.sets = added.sets]
  <2>1. followed' = [followed EXCEPT ![p] = g]
    BY <1>3 DEF ObservePmt, added
  <2>2. /\ g.table = f.table /\ g.pmtPid = f.pmtPid /\ g.removed = f.removed
        /\ g.history = f.history /\ g.moved = f.moved /\ g.sets = added.sets
    BY <1>0 DEF FollowedType
  <2> HIDE DEF g
  <2>3. followed'[p] = g
    BY <1>0, <2>1
  <2>4. QED BY <1>3, <2>2, <2>3 DEF Takes, added
<1>4. CASE Reads(p, pid) /\ added.table # {}
  <2> DEFINE new == IsNew(f.table, f.history, added.table, f.moved)
             h == [f.history EXCEPT ![VersionOf(added.table)] = added.table]
             g == [f EXCEPT !.sets = added.sets, !.moved = FALSE,
                            !.history[VersionOf(added.table)] = IF new THEN added.table ELSE @]
             st == [followed |-> [followed EXCEPT ![p] = g], restarted |-> {}]
             after == IF new THEN SetLayout(st, p, f.pmtPid, added.table) ELSE st
  <2>1. followed' = after.followed
    BY <1>4 DEF ObservePmt, ApplyPmt, added
  <2>2. VersionOf(added.table) \in Versions
    BY <1>1, <1>4, VersionTyped
  <2>3. g.history = IF new THEN h ELSE f.history
    BY <1>0, <2>2 DEF FollowedType, TablesType
  <2>4. /\ g \in FollowedType /\ g.table = f.table /\ g.pmtPid = f.pmtPid /\ g.removed = f.removed
        /\ g.sets = added.sets
    BY <1>0, <1>1, <2>2 DEF FollowedType, TablesType
  <2> HIDE DEF g, new, h
  <2>5. CASE ~new
    <3>1. followed' = [followed EXCEPT ![p] = g]
      BY <2>1, <2>5
    <3>2. followed'[p] = g
      BY <1>0, <3>1
    <3>3. QED BY <1>4, <2>3, <2>4, <2>5, <3>2 DEF Takes, added, new
  <2>6. CASE new
    <3>1. st \in StateType
      <4>1. {} \in PidsType
        BY DEF PidsType
      <4>2. QED BY <1>0, <2>4, <4>1 DEF StateType
    <3>2. st.followed[p] = g
      BY <1>0
    <3> HIDE DEF st
    <3> DEFINE q == SetLayout(st, p, f.pmtPid, added.table)
    <3>3. /\ q.followed[p].table = added.table /\ q.followed[p].history = g.history
          /\ q.followed[p].sets = g.sets /\ q.followed[p].pmtPid = f.pmtPid
          /\ q.followed[p].removed = g.removed
      BY <1>0, <1>1, <3>1, <3>2, SetLayoutIs
    <3>4. followed' = q.followed
      BY <2>1, <2>6
    <3> HIDE DEF q
    <3>5. QED BY <1>4, <2>3, <2>4, <2>6, <3>3, <3>4 DEF Takes, added, new, h
  <2>7. QED BY <2>5, <2>6
<1>5. QED BY <1>2, <1>3, <1>4

-------------------------------------------------------------------------------
(* An orderly sender and channel.                                            *)

ReceiverInv(t) == TableInv(sent[t], applied[t], heard[t], Receiver(t))

\* The PAT is broadcast on its PID, and each program's PMT where the PAT says.
SentAsListed ==
  /\ \A k \in DOMAIN sent[Pat] : sent[Pat][k].pid = Pat
  /\ \A p \in Programs :
       p \in Listed(Sections(Current(Pat))) =>
         Current(p).pid = PmtPid(Sections(Current(Pat)), p)

OrderlyInv ==
  /\ Orderly
  /\ TrackerInv
  /\ heard \in [Tables -> SUBSET Nat]
  /\ \A t \in Tables : ReceiverInv(t)
  /\ SentAsListed

\* A table changes to the one that is broadcast, or not at all.
OnlyToCurrent ==
  \A t \in Tables : Applied(t)' = Applied(t) \/ Applied(t)' = Sections(Current(t))

\* What is in use is the receiver's table.
LEMMA AppliedIs == \A t \in Tables : Applied(t) = Receiver(t).table /\ Applied(t)' = Receiver(t)'.table
BY DEF Applied, Receiver

\* What is noted after a packet.
LEMMA Noted ==
  ASSUME UNCHANGED sent, NoteApplied, NEW t \in Tables
  PROVE  applied'[t] = applied[t] \cup InTable(sent[t], Receiver(t)'.table)
<1>1. InUse(t)' = InTable(sent[t], Receiver(t)'.table)
  BY AppliedIs DEF InUse, InTable
<1>2. QED BY <1>1 DEF NoteApplied

\* What a section of the PAT does to the program p.
LEMMA PatLeaves ==
  ASSUME OrderlyInv, NEW s \in SectionType, ObservePat(s), NEW p \in Programs,
         Receiver(Pat)'.table \in {pat.table, Sections(Current(Pat))}
  PROVE  /\ TableInv(sent[p], applied[p] \cup InTable(sent[p], followed'[p].table),
                     IF followed'[p].pmtPid # followed[p].pmtPid THEN {} ELSE heard[p],
                     followed'[p])
         /\ followed'[p].table = followed[p].table
         /\ Receiver(Pat)'.table = pat.table => followed'[p] = followed[p]
<1> DEFINE f == followed[p]
           g == followed'[p]
           table == pat'.table
<1>0. TrackerTypes /\ Listens(followed, pat.table) /\ p \in Tables /\ p # Pat
  BY TrackerAssumption DEF OrderlyInv, TrackerInv, Tables, Pat, Programs, Range
<1>1. /\ followed' \in [Programs -> FollowedType]
      /\ \/ table = pat.table /\ followed' = followed
         \/ \A q \in Programs : Follows(table, q, followed[q], followed'[q])
  BY <1>0, PatStep
<1>2. /\ f \in FollowedType /\ g \in FollowedType /\ sent[p] \in SentType
      /\ f.removed \in BOOLEAN /\ g.removed \in BOOLEAN
  BY <1>0, <1>1, ReceiverTyped DEF TrackerTypes
<1>3. TableInv(sent[p], applied[p], heard[p], f)
  BY <1>0 DEF OrderlyInv, ReceiverInv, Receiver
<1>4. Receiver(Pat)'.table = table
  BY DEF Receiver
<1> HIDE DEF f, g, table
<1>5. CASE g = f
  <2>1. TableInv(sent[p], applied[p] \cup InTable(sent[p], g.table), heard[p], g)
    BY <1>2, <1>3, <1>5, NothingTaken
  <2>2. QED BY <1>5, <2>1 DEF f, g
<1>6. CASE g # f
  <2>1. Follows(table, p, f, g) /\ ~f.removed
    BY <1>1, <1>6 DEF Follows, f, g
  <2>2. p \in Listed(pat.table) /\ f.pmtPid = PmtPid(pat.table, p)
    BY <1>0, <2>1 DEF Listens, f
  <2>3. CASE p \notin Listed(table)
    <3>1. /\ g.removed /\ g.pmtPid = f.pmtPid
          /\ g.table = f.table /\ g.history = f.history /\ g.sets = f.sets
      BY <2>1, <2>3 DEF Follows
    <3>2. TableInv(sent[p], applied[p] \cup InTable(sent[p], g.table), heard[p], g)
      BY <1>2, <1>3, <2>1, <3>1, NothingTaken
    <3>3. table # pat.table
      BY <2>2, <2>3
    <3>4. QED BY <1>4, <3>1, <3>2, <3>3 DEF f, g
  <2>4. CASE p \in Listed(table)
    <3>1. /\ g.pmtPid = PmtPid(table, p) /\ g.pmtPid # f.pmtPid
          /\ g.table = f.table /\ g.history = f.history /\ g.sets = NoSets /\ g.moved
      BY <1>6, <2>1, <2>4 DEF Follows
    <3>2. table # pat.table
      BY <2>2, <3>1
    <3>3. table = Sections(Current(Pat))
      BY <1>4, <3>2
    <3>4. g.pmtPid = sent[p][Len(sent[p])].pid
      BY <2>4, <3>1, <3>3 DEF OrderlyInv, SentAsListed, Current
    <3>5. TableInv(sent[p], applied[p] \cup InTable(sent[p], g.table), {}, g)
      BY <1>2, <1>3, <2>1, <3>1, <3>4, SwitchTaken
    <3>6. QED BY <1>4, <3>1, <3>2, <3>5 DEF f, g
  <2>5. QED BY <2>3, <2>4
<1>7. QED BY <1>5, <1>6

\* A section of the PAT, when the PAT's receiver is as it should be afterwards.
LEMMA PatPacket ==
  ASSUME OrderlyInv, NEW s \in SectionType, ObservePat(s), UNCHANGED sent, NoteApplied,
         heard' \in [Tables -> SUBSET Nat],
         TableInv(sent[Pat], applied[Pat] \cup InTable(sent[Pat], Receiver(Pat)'.table),
                  heard'[Pat], Receiver(Pat)'),
         Receiver(Pat)'.table \in {pat.table, Sections(Current(Pat))},
         \A p \in Programs :
           heard'[p] = IF followed'[p].pmtPid # followed[p].pmtPid THEN {} ELSE heard[p]
  PROVE  OrderlyInv' /\ OnlyToCurrent
<1>0. Pat \in Tables /\ Programs \subseteq Tables /\ Pat \notin Programs
  BY TrackerAssumption DEF Tables, Programs, Pat, Range
<1>1. PacketArrives
  BY <1>0 DEF PacketArrives, Received, PidType, Pat
<1>2. TrackerInv'
  BY <1>1, PacketStep DEF OrderlyInv, TrackerInv
<1>3. ASSUME NEW t \in Tables
      PROVE  /\ TableInv(sent[t], applied'[t], heard'[t], Receiver(t)')
             /\ Receiver(t)'.table = Receiver(t).table \/ Receiver(t)'.table = Sections(Current(t))
  <2>1. applied'[t] = applied[t] \cup InTable(sent[t], Receiver(t)'.table)
    BY Noted
  <2>2. CASE t = Pat
    BY <2>1, <2>2 DEF Receiver
  <2>3. CASE t # Pat
    <3>1. t \in Programs
      BY <2>3 DEF Tables
    <3>2. Receiver(t) = followed[t] /\ Receiver(t)' = followed'[t]
      BY <2>3 DEF Receiver
    <3>3. QED BY <2>1, <3>1, <3>2, PatLeaves
  <2>4. QED BY <2>2, <2>3
<1>4. \A t \in Tables : ReceiverInv(t)'
  BY <1>3 DEF ReceiverInv
<1>5. SentAsListed'
  BY DEF OrderlyInv, SentAsListed, Current
<1>6. OnlyToCurrent
  BY <1>3, AppliedIs DEF OnlyToCurrent
<1>7. QED BY <1>2, <1>4, <1>5, <1>6 DEF OrderlyInv

\* A section of a PMT, when its receiver is as it should be afterwards.
LEMMA PmtPacket ==
  ASSUME OrderlyInv, NEW s \in SectionType, NEW p \in Programs, NEW pid \in PidType,
         ObservePmt(p, pid, s), UNCHANGED sent, NoteApplied,
         heard' \in [Tables -> SUBSET Nat],
         TableInv(sent[p], applied[p] \cup InTable(sent[p], followed'[p].table),
                  heard'[p], followed'[p]),
         followed'[p].table = followed[p].table \/ followed'[p].table = Sections(Current(p)),
         \A t \in Tables : t # p => heard'[t] = heard[t]
  PROVE  OrderlyInv' /\ OnlyToCurrent
<1>0. Pat \in Tables /\ Programs \subseteq Tables /\ p # Pat /\ p \in Tables
  BY TrackerAssumption DEF Tables, Programs, Pat, Range
<1>t. TrackerTypes
  BY DEF OrderlyInv, TrackerInv
<1>1. PacketArrives
  BY <1>0 DEF PacketArrives, Received
<1>2. TrackerInv'
  BY <1>1, PacketStep DEF OrderlyInv, TrackerInv
<1>3. /\ pat' = pat /\ followed' \in [Programs -> FollowedType]
      /\ \A q \in Programs : q # p => followed'[q] = followed[q]
  BY <1>t, PmtStep
<1>4. ASSUME NEW t \in Tables
      PROVE  /\ TableInv(sent[t], applied'[t], heard'[t], Receiver(t)')
             /\ Receiver(t)'.table = Receiver(t).table \/ Receiver(t)'.table = Sections(Current(t))
  <2>1. applied'[t] = applied[t] \cup InTable(sent[t], Receiver(t)'.table)
    BY Noted
  <2>2. CASE t = p
    <3>1. Receiver(t) = followed[t] /\ Receiver(t)' = followed'[t]
      BY <1>0, <2>2 DEF Receiver
    <3>2. QED BY <2>1, <2>2, <3>1
  <2>3. CASE t # p
    <3>1. Receiver(t)' = Receiver(t)
      BY <1>3, <2>3 DEF Receiver, Tables
    <3>2. Receiver(t) \in FollowedType /\ sent[t] \in SentType
      BY <1>t, ReceiversTyped DEF TrackerTypes
    <3>3. TableInv(sent[t], applied[t], heard[t], Receiver(t))
      BY DEF OrderlyInv, ReceiverInv
    <3>4. TableInv(sent[t], applied[t] \cup InTable(sent[t], Receiver(t).table), heard[t], Receiver(t))
      BY <3>2, <3>3, NothingTaken
    <3>5. QED BY <2>1, <2>3, <3>1, <3>4
  <2>4. QED BY <2>2, <2>3
<1>5. \A t \in Tables : ReceiverInv(t)'
  BY <1>4 DEF ReceiverInv
<1>6. SentAsListed'
  BY DEF OrderlyInv, SentAsListed, Current
<1>7. OnlyToCurrent
  BY <1>4, AppliedIs DEF OnlyToCurrent
<1>8. QED BY <1>2, <1>5, <1>6, <1>7 DEF OrderlyInv

\* The receivers after a packet have their types.
LEMMA ReceiversTypedAfter ==
  ASSUME TrackerTypes', NEW t \in Tables
  PROVE  Receiver(t)' \in FollowedType
<1>1. CASE t = Pat
  <2>1. Pat \in PidType
    BY DEF Pat, PidType
  <2>2. pat'.table \in TableType /\ pat'.history \in TablesType /\ pat'.sets \in TablesType
    BY DEF TrackerTypes, PatType
  <2>3. QED BY <1>1, <2>1, <2>2 DEF Receiver, FollowedType
<1>2. CASE t # Pat
  BY <1>2 DEF Tables, Receiver, TrackerTypes
<1>3. QED BY <1>1, <1>2

\* What a packet of the table t needs of the receivers.
LEMMA PacketTypes ==
  ASSUME OrderlyInv, UNCHANGED sent, NEW t \in Tables, NEW s \in SectionType,
         NEW pid \in PidType, Received(t, pid, s)
  PROVE  /\ TrackerTypes /\ sent[t] \in SentType
         /\ Receiver(t) \in FollowedType /\ Receiver(t)' \in FollowedType
         /\ TableInv(sent[t], applied[t], heard[t], Receiver(t))
         /\ t \in Programs => followed' \in [Programs -> FollowedType]
<1>1. PacketArrives
  BY DEF PacketArrives
<1>2. TrackerTypes /\ TrackerTypes'
  BY <1>1, PacketStep DEF OrderlyInv, TrackerInv
<1>3. QED BY <1>2, ReceiversTyped, ReceiversTypedAfter DEF TrackerTypes, OrderlyInv, ReceiverInv

\* Programs and the PAT.
LEMMA TablesAre ==
  /\ Pat \in Tables /\ Pat \notin Programs
  /\ \A t \in Tables : t # Pat => t \in Programs
  /\ \A p \in Programs : p \in Tables /\ p # Pat
BY TrackerAssumption DEF Tables, Programs, Pat, Range

\* A section of the PAT that is broadcast.
LEMMA CurrentPatStep ==
  ASSUME OrderlyInv, NEW s \in Sections(Current(Pat)), CurrentArrives(Pat, s)
  PROVE  OrderlyInv' /\ OnlyToCurrent
<1> DEFINE B == sent[Pat]
           r == Receiver(Pat)
           g == Receiver(Pat)'
<1>1. /\ ObservePat(s) /\ UNCHANGED sent /\ NoteApplied
      /\ heard' = [o \in Tables |->
                     IF o # Pat /\ followed'[o].pmtPid # followed[o].pmtPid THEN {}
                     ELSE IF o = Pat /\ (Pat = Pat \/ Reads(Pat, Current(Pat).pid))
                       THEN heard[o] \cup {s.number}
                     ELSE heard[o]]
  BY DEF CurrentArrives, Received
<1>2. Current(Pat) \in BroadcastType
  BY TablesAre, CurrentTyped DEF OrderlyInv, TrackerInv
<1>3. s \in SectionType /\ s.number \in Nat /\ Pat \in PidType
  BY <1>2, SectionsTyped, SectionsSay DEF TableType, PidType, Pat
<1>4. /\ TrackerTypes /\ B \in SentType /\ r \in FollowedType /\ g \in FollowedType
      /\ TableInv(B, applied[Pat], heard[Pat], r)
  BY <1>1, <1>3, TablesAre, PacketTypes DEF Received
<1>5. Takes(r, s, g)
  BY <1>1, <1>3, <1>4, PatTaken
<1>6. ~r.removed /\ r.pmtPid = Pat /\ r.table = pat.table /\ Current(Pat) = B[Len(B)]
  BY DEF Receiver, Current
<1>7. B[Len(B)].pid = Pat
  BY <1>4, LogTyped DEF OrderlyInv, SentAsListed
<1> HIDE DEF r, g, B
<1>8. /\ TableInv(B, applied[Pat] \cup InTable(B, g.table), heard[Pat] \cup {s.number}, g)
      /\ g.table = r.table \/ g.table = Sections(B[Len(B)])
  BY <1>4, <1>5, <1>6, <1>7, CurrentTaken
<1>9. /\ heard'[Pat] = heard[Pat] \cup {s.number}
      /\ \A p \in Programs :
           heard'[p] = IF followed'[p].pmtPid # followed[p].pmtPid THEN {} ELSE heard[p]
  BY <1>1, TablesAre
<1>10. heard' \in [Tables -> SUBSET Nat]
  BY <1>1, <1>3 DEF OrderlyInv
<1>11. QED BY <1>1, <1>3, <1>6, <1>8, <1>9, <1>10, PatPacket DEF r, g, B

\* A section of a PMT that is broadcast.
LEMMA CurrentPmtStep ==
  ASSUME OrderlyInv, NEW p \in Programs, NEW s \in Sections(Current(p)), CurrentArrives(p, s)
  PROVE  OrderlyInv' /\ OnlyToCurrent
<1> DEFINE B == sent[p]
           r == followed[p]
           g == followed'[p]
           pid == Current(p).pid
<1>1. /\ ObservePmt(p, pid, s) /\ UNCHANGED sent /\ NoteApplied
      /\ heard' = [o \in Tables |->
                     IF o # Pat /\ followed'[o].pmtPid # followed[o].pmtPid THEN {}
                     ELSE IF o = p /\ (p = Pat \/ Reads(p, pid))
                       THEN heard[o] \cup {s.number}
                     ELSE heard[o]]
      /\ Received(p, pid, s)
  BY TablesAre DEF CurrentArrives, Received
<1>2. Current(p) \in BroadcastType
  BY TablesAre, CurrentTyped DEF OrderlyInv, TrackerInv
<1>3. s \in SectionType /\ s.number \in Nat /\ pid \in PidType
  BY <1>2, SectionsTyped, SectionsSay, LengthTyped DEF TableType
<1>0. Receiver(p) = r /\ Receiver(p)' = g
  BY TablesAre DEF Receiver
<1>4. /\ TrackerTypes /\ B \in SentType /\ r \in FollowedType /\ g \in FollowedType
      /\ TableInv(B, applied[p], heard[p], r)
  BY <1>0, <1>1, <1>3, TablesAre, PacketTypes
<1>5. /\ IF Reads(p, pid) THEN Takes(r, s, g) ELSE g = r
      /\ \A q \in Programs : q # p => followed'[q] = followed[q]
  BY <1>1, <1>3, <1>4, PmtTaken, PmtStep
<1>6. Current(p) = B[Len(B)]
  BY DEF Current
<1>7. ASSUME NEW t \in Tables, t # p PROVE heard'[t] = heard[t]
  BY <1>1, <1>5, <1>7, TablesAre
<1>8. heard' \in [Tables -> SUBSET Nat]
  BY <1>1, <1>3 DEF OrderlyInv
<1>9. CASE Reads(p, pid)
  <2>1. ~r.removed /\ r.pmtPid = pid
    BY <1>9 DEF Reads
  <2>2. /\ TableInv(B, applied[p] \cup InTable(B, g.table), heard[p] \cup {s.number}, g)
        /\ g.table = r.table \/ g.table = Sections(B[Len(B)])
    <3>1. s \in Sections(B[Len(B)]) /\ Takes(r, s, g) /\ B[Len(B)].pid = r.pmtPid
      BY <1>5, <1>6, <1>9, <2>1
    <3> HIDE DEF B, r, g, pid
    <3>2. QED BY <1>4, <2>1, <3>1, CurrentTaken
  <2>3. heard'[p] = heard[p] \cup {s.number}
    <3>1. g.pmtPid = r.pmtPid
      BY <1>5, <1>9 DEF Takes
    <3>2. QED BY <1>1, <1>9, <3>1, TablesAre
  <2>4. QED BY <1>1, <1>3, <1>6, <1>7, <1>8, <2>2, <2>3, PmtPacket
<1>10. CASE ~Reads(p, pid)
  <2>1. TableInv(B, applied[p] \cup InTable(B, g.table), heard[p], g)
    BY <1>4, <1>5, <1>10, NothingTaken
  <2>2. heard'[p] = heard[p]
    BY <1>1, <1>5, <1>10, TablesAre
  <2>3. g.table = r.table
    BY <1>5, <1>10
  <2>4. QED BY <1>1, <1>3, <1>7, <1>8, <2>1, <2>2, <2>3, PmtPacket
<1>11. QED BY <1>9, <1>10

\* A section of a PAT that has been superseded.
LEMMA LatePatStep ==
  ASSUME OrderlyInv, NEW k \in Late(Pat), NEW s \in Sections(sent[Pat][k]), LateArrives(Pat, k, s)
  PROVE  OrderlyInv' /\ OnlyToCurrent
<1> DEFINE B == sent[Pat]
           r == Receiver(Pat)
           g == Receiver(Pat)'
<1>1. /\ ObservePat(s) /\ UNCHANGED sent /\ NoteApplied
      /\ heard' = [o \in Tables |-> IF o # Pat /\ followed'[o].pmtPid # followed[o].pmtPid
                                      THEN {} ELSE heard[o]]
  BY DEF LateArrives, Received
<1>2. /\ Len(B) \in Nat /\ DOMAIN B = 1 .. Len(B)
      /\ \A j \in DOMAIN B : B[j] \in BroadcastType
  BY TablesAre, CurrentTyped DEF OrderlyInv, TrackerInv
<1>3. k \in DOMAIN B /\ k # Len(B) /\ k \in applied[Pat] /\ Newest(B, k)
  BY <1>2 DEF Late, Newest, OrderlyInv
<1>4. s \in SectionType /\ Pat \in PidType
  BY <1>2, <1>3, SectionsTyped DEF TableType, PidType, Pat
<1>5. /\ TrackerTypes /\ B \in SentType /\ r \in FollowedType /\ g \in FollowedType
      /\ TableInv(B, applied[Pat], heard[Pat], r)
  BY <1>1, <1>4, TablesAre, PacketTypes DEF Received
<1>6. Takes(r, s, g)
  BY <1>1, <1>4, <1>5, PatTaken
<1>7. ~r.removed /\ r.pmtPid = Pat /\ r.table = pat.table
  BY DEF Receiver
<1>8. B[k].pid = Pat
  BY <1>3 DEF OrderlyInv, SentAsListed
<1> HIDE DEF r, g, B
<1>9. TableInv(B, applied[Pat] \cup InTable(B, g.table), heard[Pat], g) /\ g.table = r.table
  <2>1. s \in Sections(B[k])
    BY DEF B
  <2> DEFINE A == applied[Pat]
             H == heard[Pat]
  <2>2. k \in A /\ TableInv(B, A, H, r)
    BY <1>3, <1>5
  <2> HIDE DEF A, H
  <2>3. TableInv(B, A \cup InTable(B, g.table), H, g) /\ g.table = r.table
    BY <1>3, <1>5, <1>6, <1>7, <1>8, <2>1, <2>2, LateTaken
  <2>4. QED BY <2>3 DEF A, H
<1>10. /\ heard'[Pat] = heard[Pat]
       /\ \A p \in Programs :
            heard'[p] = IF followed'[p].pmtPid # followed[p].pmtPid THEN {} ELSE heard[p]
  BY <1>1, TablesAre
<1>11. heard' \in [Tables -> SUBSET Nat]
  BY <1>1 DEF OrderlyInv
<1>12. QED BY <1>1, <1>4, <1>7, <1>9, <1>10, <1>11, PatPacket DEF r, g, B

\* A section of a PMT that has been superseded.
LEMMA LatePmtStep ==
  ASSUME OrderlyInv, NEW p \in Programs, NEW k \in Late(p), NEW s \in Sections(sent[p][k]),
         LateArrives(p, k, s)
  PROVE  OrderlyInv' /\ OnlyToCurrent
<1> DEFINE B == sent[p]
           r == followed[p]
           g == followed'[p]
           pid == sent[p][k].pid
<1>1. /\ ObservePmt(p, pid, s) /\ UNCHANGED sent /\ NoteApplied
      /\ heard' = [o \in Tables |-> IF o # Pat /\ followed'[o].pmtPid # followed[o].pmtPid
                                      THEN {} ELSE heard[o]]
      /\ Received(p, pid, s)
  BY TablesAre DEF LateArrives, Received
<1>2. /\ Len(B) \in Nat /\ DOMAIN B = 1 .. Len(B)
      /\ \A j \in DOMAIN B : B[j] \in BroadcastType
  BY TablesAre, CurrentTyped DEF OrderlyInv, TrackerInv
<1>3. k \in DOMAIN B /\ k # Len(B) /\ k \in applied[p] /\ Newest(B, k)
  BY <1>2 DEF Late, Newest, OrderlyInv
<1>4. s \in SectionType /\ pid \in PidType
  BY <1>2, <1>3, SectionsTyped, LengthTyped DEF TableType
<1>0. Receiver(p) = r /\ Receiver(p)' = g
  BY TablesAre DEF Receiver
<1>5. /\ TrackerTypes /\ B \in SentType /\ r \in FollowedType /\ g \in FollowedType
      /\ TableInv(B, applied[p], heard[p], r)
  BY <1>0, <1>1, <1>4, TablesAre, PacketTypes
<1>6. /\ IF Reads(p, pid) THEN Takes(r, s, g) ELSE g = r
      /\ \A q \in Programs : q # p => followed'[q] = followed[q]
  BY <1>1, <1>4, <1>5, PmtTaken, PmtStep
<1>7. ASSUME NEW t \in Tables, t # p PROVE heard'[t] = heard[t]
  BY <1>1, <1>6, <1>7, TablesAre
<1>8. heard' \in [Tables -> SUBSET Nat]
  BY <1>1 DEF OrderlyInv
<1>9. /\ TableInv(B, applied[p] \cup InTable(B, g.table), heard[p], g)
      /\ g.table = r.table /\ g.pmtPid = r.pmtPid
  <2>1. CASE Reads(p, pid)
    <3>1. ~r.removed /\ r.pmtPid = B[k].pid /\ Takes(r, s, g)
      BY <1>6, <2>1 DEF Reads
    <3>2. TableInv(B, applied[p] \cup InTable(B, g.table), heard[p], g) /\ g.table = r.table
      <4>1. s \in Sections(B[k])
        OBVIOUS
      <4> DEFINE A == applied[p]
                 H == heard[p]
      <4>2. k \in A /\ TableInv(B, A, H, r)
        BY <1>3, <1>5
      <4> HIDE DEF A, H, B, r, g, pid
      <4>3. TableInv(B, A \cup InTable(B, g.table), H, g) /\ g.table = r.table
        BY <1>3, <1>5, <3>1, <4>1, <4>2, LateTaken
      <4>4. QED BY <4>3 DEF A, H
    <3>3. QED BY <3>1, <3>2 DEF Takes
  <2>2. CASE ~Reads(p, pid)
    BY <1>5, <1>6, <2>2, NothingTaken
  <2>3. QED BY <2>1, <2>2
<1>10. heard'[p] = heard[p]
  BY <1>1, <1>9, TablesAre
<1>11. QED BY <1>1, <1>4, <1>7, <1>8, <1>9, <1>10, PmtPacket

\* A section that must not be used changes nothing.
LEMMA UnusableReceived ==
  ASSUME OrderlyInv, NEW t \in Tables, NEW s \in SectionType, ~Usable(s),
         Received(t, Current(t).pid, s), UNCHANGED sent, UNCHANGED heard, NoteApplied
  PROVE  OrderlyInv' /\ OnlyToCurrent
<1> DEFINE pid == Current(t).pid
<1>1. pid \in PidType
  BY CurrentTyped DEF OrderlyInv, TrackerInv, BroadcastType
<1>2. heard' \in [Tables -> SUBSET Nat]
  BY DEF OrderlyInv
<1> DEFINE r == Receiver(t)
           g == Receiver(t)'
<1>3. /\ TrackerTypes /\ sent[t] \in SentType /\ r \in FollowedType /\ g \in FollowedType
      /\ TableInv(sent[t], applied[t], heard[t], r)
  BY <1>1, PacketTypes
<1>4. CASE t = Pat
  <2>1. ObservePat(s)
    BY <1>4 DEF Received
  <2>2. Takes(r, s, g)
    BY <1>3, <1>4, <2>1, PatTaken
  <2>3. /\ g.table = r.table /\ g.history = r.history /\ g.sets = r.sets
        /\ g.pmtPid = r.pmtPid /\ g.moved = r.moved /\ g.removed = r.removed
    BY <2>2, UnusableTaken
  <2>4. TableInv(sent[t], applied[t] \cup InTable(sent[t], g.table), heard'[t], g)
    BY <1>3, <2>3, NothingTaken
  <2>5. g.table = pat.table
    BY <1>4, <2>3 DEF Receiver
  <2>6. \A p \in Programs : followed'[p] = followed[p]
    BY <1>4, <2>1, <2>5, PatLeaves
  <2>7. QED BY <1>2, <1>4, <2>1, <2>4, <2>5, <2>6, PatPacket
<1>5. CASE t # Pat
  <2>1. t \in Programs /\ ObservePmt(t, pid, s) /\ r = followed[t] /\ g = followed'[t]
    BY <1>5, TablesAre DEF Received, Receiver
  <2>2. IF Reads(t, pid) THEN Takes(r, s, g) ELSE g = r
    BY <1>3, <2>1, PmtTaken
  <2>3. /\ g.table = r.table /\ g.history = r.history /\ g.sets = r.sets
        /\ g.pmtPid = r.pmtPid /\ g.moved = r.moved /\ g.removed = r.removed
    BY <2>2, UnusableTaken
  <2>4. TableInv(sent[t], applied[t] \cup InTable(sent[t], g.table), heard'[t], g)
    BY <1>3, <2>3, NothingTaken
  <2>5. QED BY <1>1, <1>2, <2>1, <2>3, <2>4, PmtPacket
<1>6. QED BY <1>4, <1>5

\* A section that is damaged or ahead of its time changes nothing.
LEMMA UnusableStep ==
  ASSUME OrderlyInv, NEW t \in Tables, UnusableArrives(t)
  PROVE  OrderlyInv' /\ OnlyToCurrent
<1> DEFINE b == [Current(t) EXCEPT !.version = NextVersion(t)]
           pid == Current(t).pid
<1>1. Current(t) \in BroadcastType /\ NextVersion(t) \in Versions
  BY CurrentTyped, NextVersionTyped DEF OrderlyInv, TrackerInv
<1>2. b \in BroadcastType /\ pid \in PidType
  BY <1>1 DEF BroadcastType
<1>3. PICK x \in Sections(b) :
        \/ Received(t, pid, [x EXCEPT !.current = FALSE])
        \/ Received(t, pid, [x EXCEPT !.intact = FALSE])
  BY DEF UnusableArrives
<1> HIDE DEF b
<1>4. x \in SectionType
  BY <1>2, SectionsTyped DEF TableType
<1>5. PICK s \in SectionType : ~Usable(s) /\ Received(t, pid, s)
  <2>1. /\ [x EXCEPT !.current = FALSE] \in SectionType /\ ~[x EXCEPT !.current = FALSE].current
        /\ [x EXCEPT !.intact = FALSE] \in SectionType /\ ~[x EXCEPT !.intact = FALSE].intact
    BY <1>4 DEF SectionType
  <2>2. QED BY <1>3, <2>1 DEF Usable
<1>6. QED BY <1>5, UnusableReceived DEF UnusableArrives

\* A table that is left alone.
LEMMA SenderLeaves ==
  ASSUME OrderlyInv, NEW t \in Tables, sent'[t] = sent[t], heard'[t] = heard[t],
         UNCHANGED <<pat, followed, applied>>
  PROVE  ReceiverInv(t)'
BY DEF OrderlyInv, ReceiverInv, Receiver

\* A new PMT.
LEMMA NewPmtStep ==
  ASSUME OrderlyInv, NEW p \in Programs, ChangePmt(p)
  PROVE  OrderlyInv'
<1>1. PICK c \in PmtTables[p] :
        LET b == [version |-> NextVersion(p), contents |-> c, pid |-> Current(p).pid] IN
        MayBroadcast(p, b) /\ sent' = [sent EXCEPT ![p] = Append(@, b)]
  BY DEF ChangePmt
<1> DEFINE b == [version |-> NextVersion(p), contents |-> c, pid |-> Current(p).pid]
<1>2. TrackerTypes /\ TrackerInv /\ sent \in [Tables -> SentType]
  BY DEF OrderlyInv, TrackerInv, TrackerTypes
<1>3. b \in BroadcastType
  <2>1. c \in ContentsType
    BY ContentsTyped
  <2>2. Current(p).pid \in PidType
    BY <1>2, TablesAre, CurrentTyped DEF BroadcastType
  <2>3. QED BY <1>2, <2>1, <2>2, TablesAre, NextVersionTyped DEF BroadcastType
<1>4. MayBroadcast(p, b) /\ sent' = [sent EXCEPT ![p] = Append(@, b)] /\ b.pid = Current(p).pid
  BY <1>1
<1>5. /\ heard' = [heard EXCEPT ![p] = {}]
      /\ UNCHANGED <<pat, followed, restarted, applied>>
  BY DEF ChangePmt
<1> HIDE DEF b
<1>6. /\ sent'[p] = Append(sent[p], b) /\ heard'[p] = {}
      /\ \A t \in Tables : t # p => sent'[t] = sent[t] /\ heard'[t] = heard[t]
  BY <1>2, <1>4, <1>5, TablesAre DEF OrderlyInv
<1>7. ReceiverInv(p)'
  <2> DEFINE r == followed[p]
             A == applied[p]
             H == heard[p]
             B == sent[p]
  <2>1. /\ VersionOf(r.table) # b.version
        /\ \A s \in r.sets[b.version] : s.last # Len(b.contents) - 1
        /\ r.history[b.version] # Sections(b)
    BY <1>4, TablesAre DEF MayBroadcast, OrderlyInv
  <2>2. r \in FollowedType /\ B \in SentType /\ TableInv(B, A, H, r)
    <3>1. Receiver(p) = r
      BY TablesAre DEF Receiver
    <3>2. QED BY <1>2, <3>1, TablesAre, ReceiversTyped DEF OrderlyInv, ReceiverInv
  <2>3. Receiver(p)' = r /\ applied'[p] = A
    BY <1>5, TablesAre DEF Receiver
  <2> HIDE DEF r, A, H, B
  <2>4. TableInv(Append(B, b), A, {}, r)
    BY <1>3, <2>1, <2>2, NextBroadcast
  <2>5. QED BY <1>6, <2>3, <2>4 DEF ReceiverInv, B
<1>8. ASSUME NEW t \in Tables, t # p PROVE ReceiverInv(t)'
  BY <1>5, <1>6, <1>8, SenderLeaves
<1>9. TrackerInv'
  <2>1. SenderChanges
    BY <1>2, <1>5, ChangePmtTyped DEF SenderChanges
  <2>2. QED BY <1>2, <2>1 DEF SenderChanges, TrackerInv, TrackerTypes, Listens
<1>10. SentAsListed'
  <2>1. sent'[Pat] = sent[Pat] /\ Current(Pat)' = Current(Pat)
    BY <1>6, TablesAre DEF Current
  <2>2. Current(p)'.pid = Current(p).pid
    <3>1. Current(p)' = b
      BY <1>2, <1>3, <1>6, TablesAre, AppendIs DEF Current
    <3>2. QED BY <1>4, <3>1
  <2>3. \A q \in Programs : Current(q)'.pid = Current(q).pid
    BY <1>6, <2>2, TablesAre DEF Current
  <2>4. QED BY <2>1, <2>3 DEF SentAsListed, OrderlyInv
<1>11. heard' \in [Tables -> SUBSET Nat]
  BY <1>5 DEF OrderlyInv
<1>12. QED BY <1>7, <1>8, <1>9, <1>10, <1>11 DEF OrderlyInv

\* A new PAT, and the PMTs it moves.
LEMMA NewPatStep ==
  ASSUME OrderlyInv, ChangePat
  PROVE  OrderlyInv'
<1>0. PICK c \in PatTables : \E pmts : PatChanges(PatOf(c), pmts)
  BY ChangePatIs
<1>1. PICK pmts : PatChanges(PatOf(c), pmts)
  BY <1>0
<1> DEFINE b == PatOf(c)
<1>2. TrackerTypes /\ TrackerInv /\ sent \in [Tables -> SentType]
  BY DEF OrderlyInv, TrackerInv, TrackerTypes
<1>3. /\ b \in BroadcastType
      /\ \A p \in Moves(b) : MovedTo(b, p, pmts[p]) \in BroadcastType
      /\ sent' \in [Tables -> SentType]
  BY <1>0, <1>1, <1>2, ChangePatTyped
<1>4. /\ MayBroadcast(Pat, b)
      /\ \A p \in Moves(b) : MayMove(p, MovedTo(b, p, pmts[p]))
      /\ sent' = [t \in Tables |-> IF t = Pat THEN Append(sent[t], b)
                                   ELSE IF t \in Moves(b) THEN Append(sent[t], MovedTo(b, t, pmts[t]))
                                   ELSE sent[t]]
      /\ heard' = [t \in Tables |-> IF t \in Moves(b) \cup {Pat} THEN {} ELSE heard[t]]
  BY <1>1 DEF PatChanges
<1>5. UNCHANGED <<pat, followed, restarted, applied>>
  BY DEF ChangePat
<1>6. b.pid = Pat
  BY DEF PatOf
<1> HIDE DEF b
<1>7. Moves(b) \subseteq Programs
  BY DEF Moves
<1>8. /\ sent'[Pat] = Append(sent[Pat], b) /\ heard'[Pat] = {}
      /\ \A p \in Moves(b) : sent'[p] = Append(sent[p], MovedTo(b, p, pmts[p])) /\ heard'[p] = {}
      /\ \A t \in Tables : t # Pat /\ t \notin Moves(b) => sent'[t] = sent[t] /\ heard'[t] = heard[t]
  BY <1>4, <1>7, TablesAre
<1>9. ReceiverInv(Pat)'
  <2> DEFINE r == Receiver(Pat)
             A == applied[Pat]
             H == heard[Pat]
             B == sent[Pat]
  <2>1. /\ VersionOf(r.table) # b.version
        /\ \A s \in r.sets[b.version] : s.last # Len(b.contents) - 1
        /\ r.history[b.version] # Sections(b)
    BY <1>4 DEF MayBroadcast, OrderlyInv, Receiver
  <2>2. r \in FollowedType /\ B \in SentType /\ TableInv(B, A, H, r)
    BY <1>2, TablesAre, ReceiversTyped DEF OrderlyInv, ReceiverInv
  <2>3. Receiver(Pat)' = r /\ applied'[Pat] = A
    BY <1>5 DEF Receiver
  <2> HIDE DEF r, A, H, B
  <2>4. TableInv(Append(B, b), A, {}, r)
    BY <1>3, <2>1, <2>2, NextBroadcast
  <2>5. QED BY <1>8, <2>3, <2>4 DEF ReceiverInv, B
<1>10. ASSUME NEW p \in Moves(b) PROVE ReceiverInv(p)'
  <2> DEFINE r == followed[p]
             A == applied[p]
             H == heard[p]
             B == sent[p]
             m == MovedTo(b, p, pmts[p])
  <2>0. p \in Programs /\ p \in Tables /\ p # Pat
    BY <1>7, TablesAre
  <2>1. /\ \A k \in DOMAIN B : B[k].pid # m.pid
        /\ r.table = Sections(m) \/ r.history[m.version] # Sections(m)
    BY <1>4 DEF MayMove, PidsUsed, OrderlyInv
  <2>2. r \in FollowedType /\ B \in SentType /\ TableInv(B, A, H, r)
    <3>1. Receiver(p) = r
      BY <2>0 DEF Receiver
    <3>2. QED BY <1>2, <2>0, <3>1, ReceiversTyped DEF OrderlyInv, ReceiverInv
  <2>3. Receiver(p)' = r /\ applied'[p] = A
    BY <1>5, <2>0 DEF Receiver
  <2>4. m \in BroadcastType /\ sent'[p] = Append(B, m) /\ heard'[p] = {}
    BY <1>3, <1>8
  <2> HIDE DEF r, A, H, B, m
  <2>5. TableInv(Append(B, m), A, {}, r)
    BY <2>1, <2>2, <2>4, MovedBroadcast
  <2>6. QED BY <2>3, <2>4, <2>5 DEF ReceiverInv
<1>11. ASSUME NEW t \in Tables, t # Pat, t \notin Moves(b) PROVE ReceiverInv(t)'
  BY <1>5, <1>8, <1>11, SenderLeaves
<1>12. TrackerInv'
  BY <1>2, <1>3, <1>5 DEF TrackerInv, TrackerTypes, Listens
<1>13. SentAsListed'
  <2>1. Current(Pat)' = b
    BY <1>2, <1>3, <1>8, TablesAre, AppendIs DEF Current
  <2>2. \A k \in DOMAIN sent'[Pat] : sent'[Pat][k].pid = Pat
    <3>1. sent[Pat] \in SentType
      BY <1>2, TablesAre
    <3> DEFINE B == sent[Pat]
    <3>2. \A k \in DOMAIN B : B[k].pid = Pat
      BY DEF OrderlyInv, SentAsListed
    <3>3. sent'[Pat] = Append(B, b)
      BY <1>8
    <3> HIDE DEF B, SentType, BroadcastType
    <3>4. \A k \in DOMAIN Append(B, b) : Append(B, b)[k].pid = Pat
      BY <1>3, <1>6, <3>1, <3>2, AppendIs DEF B
    <3>5. QED BY <3>3, <3>4
  <2>3. ASSUME NEW p \in Programs, p \in Listed(Sections(b))
        PROVE  Current(p)'.pid = PmtPid(Sections(b), p)
    <3>1. CASE p \in Moves(b)
      <4>1. Current(p)' = MovedTo(b, p, pmts[p])
        BY <1>2, <1>3, <1>8, <3>1, TablesAre, AppendIs DEF Current
      <4>2. QED BY <4>1 DEF MovedTo
    <3>2. CASE p \notin Moves(b)
      <4>1. PmtPid(Sections(b), p) = Current(p).pid
        BY <2>3, <3>2 DEF Moves
      <4>2. Current(p)' = Current(p)
        BY <1>8, <3>2, TablesAre DEF Current
      <4>3. QED BY <4>1, <4>2
    <3>3. QED BY <3>1, <3>2
  <2>4. QED BY <2>1, <2>2, <2>3 DEF SentAsListed
<1>14. heard' \in [Tables -> SUBSET Nat]
  BY <1>4 DEF OrderlyInv
<1>15. QED BY <1>9, <1>10, <1>11, <1>12, <1>13, <1>14 DEF OrderlyInv

\* The receiver of a table that was found before the scan.
LEMMA FirstTaken ==
  ASSUME NEW b \in BroadcastType, NEW B \in SentType, Len(B) = 1, B[1] = b,
         NEW r \in FollowedType, r.table = Sections(b), r.history = Historic(Sections(b)),
         r.sets = NoSets, r.pmtPid = b.pid
  PROVE  TableInv(B, {1}, {}, r)
<1>1. b.version \in Versions /\ VersionOf(Sections(b)) = b.version /\ Sections(b) # {}
  BY LengthTyped, VersionOfSections, SectionsSay
<1>2. DOMAIN B = {1} /\ B[Len(B)] = b
  BY LogTyped
<1>3. Remembers(B, {1}, r)
  BY <1>1, <1>2 DEF Remembers, Historic
<1>4. \A v \in Versions : r.sets[v] = {}
  BY DEF NoSets
<1>5. Unfinished(r.sets)
  BY <1>4, FS_EmptySet DEF Unfinished
<1>6. Collects(B, r)
  BY <1>1, <1>2, <1>4 DEF Collects, Holds
<1>7. Awaits(B, r) /\ Gathers(B, {}, r) /\ ListensOn(B, r)
  BY <1>2 DEF Awaits, Gathers, ListensOn
<1>8. QED BY <1>3, <1>5, <1>6, <1>7 DEF TableInv, Live

\* The tables that were found before the scan are in use.
LEMMA InitEstablishesOrderlyInv == Orderly /\ TrackInit => OrderlyInv
<1> SUFFICES ASSUME Orderly, TrackInit PROVE OrderlyInv
  OBVIOUS
<1>1. TrackerInv /\ TrackerTypes
  BY InitEstablishesTrackerInv DEF TrackerInv
<1>2. heard = [t \in Tables |-> {}] /\ applied = [t \in Tables |-> {1}]
  BY DEF TrackInit
<1>3. PICK c \in PatTables, f \in [Programs -> UNION {PmtTables[p] : p \in Programs}] :
        sent = [t \in Tables |-> <<IF t = Pat THEN FirstTable(c, Pat)
                     ELSE FirstTable(f[t], PmtPid(Sections(FirstTable(c, Pat)), t))>>]
  BY DEF TrackInit
<1>4. /\ pat = [table |-> Sections(Current(Pat)), history |-> Historic(Sections(Current(Pat))),
                sets |-> NoSets]
      /\ followed = [p \in Programs |->
                       [table |-> Sections(Current(p)), history |-> Historic(Sections(Current(p))),
                        sets |-> NoSets, pmtPid |-> Current(p).pid, moved |-> FALSE, removed |-> FALSE]]
  BY DEF TrackInit
<1>5. \A t \in Tables : Len(sent[t]) = 1 /\ sent[t][1] = Current(t)
  BY <1>3 DEF Current
<1>6. /\ Current(Pat) = FirstTable(c, Pat) /\ Current(Pat).pid = Pat
      /\ \A p \in Programs : Current(p).pid = PmtPid(Sections(FirstTable(c, Pat)), p)
  <2>1. Current(Pat) = FirstTable(c, Pat)
    BY <1>3, TablesAre DEF Current
  <2>2. ASSUME NEW p \in Programs
        PROVE  Current(p) = FirstTable(f[p], PmtPid(Sections(FirstTable(c, Pat)), p))
    BY <1>3, TablesAre DEF Current
  <2>3. QED BY <2>1, <2>2 DEF FirstTable
<1>7. ASSUME NEW t \in Tables PROVE ReceiverInv(t)
  <2> DEFINE r == Receiver(t)
             b == Current(t)
             B == sent[t]
  <2>1. b \in BroadcastType /\ B \in SentType /\ r \in FollowedType
    BY <1>1, CurrentTyped, ReceiversTyped DEF TrackerTypes
  <2>2. /\ r.table = Sections(b) /\ r.history = Historic(Sections(b)) /\ r.sets = NoSets
        /\ r.pmtPid = b.pid
    <3>1. CASE t = Pat
      BY <1>4, <1>6, <3>1 DEF Receiver
    <3>2. CASE t # Pat
      BY <1>4, <3>2, TablesAre DEF Receiver
    <3>3. QED BY <3>1, <3>2
  <2>3. Len(B) = 1 /\ B[1] = b
    BY <1>5
  <2> HIDE DEF r, b, B
  <2>4. TableInv(B, {1}, {}, r)
    BY <2>1, <2>2, <2>3, FirstTaken
  <2>5. QED BY <1>2, <2>4 DEF ReceiverInv, r, B
<1>8. SentAsListed
  <2>1. \A k \in DOMAIN sent[Pat] : sent[Pat][k].pid = Pat
    BY <1>1, <1>5, <1>6, TablesAre, CurrentTyped
  <2>2. QED BY <1>6, <2>1 DEF SentAsListed
<1>9. QED BY <1>1, <1>2, <1>7, <1>8 DEF OrderlyInv

\* Every step keeps the invariant, and changes a table only to the one that is broadcast.
LEMMA NextKeepsOrderlyInv ==
  ASSUME OrderlyInv, TrackNext
  PROVE  /\ OrderlyInv'
         /\ \/ OnlyToCurrent /\ UNCHANGED sent
            \/ \A t \in Tables : Applied(t)' = Applied(t)
<1>1. CASE ChangePat
  BY <1>1, NewPatStep DEF ChangePat, Applied
<1>2. ASSUME NEW p \in Programs, ChangePmt(p)
      PROVE  OrderlyInv' /\ \A t \in Tables : Applied(t)' = Applied(t)
  BY <1>2, NewPmtStep DEF ChangePmt, Applied
<1>3. ASSUME NEW t \in Tables, NEW s \in Sections(Current(t)), CurrentArrives(t, s)
      PROVE  OrderlyInv' /\ OnlyToCurrent /\ UNCHANGED sent
  <2>1. CASE t = Pat
    BY <1>3, <2>1, CurrentPatStep DEF CurrentArrives
  <2>2. CASE t # Pat
    BY <1>3, <2>2, TablesAre, CurrentPmtStep DEF CurrentArrives
  <2>3. QED BY <2>1, <2>2
<1>4. ASSUME NEW t \in Tables, NEW k \in Late(t), NEW s \in Sections(sent[t][k]),
             LateArrives(t, k, s)
      PROVE  OrderlyInv' /\ OnlyToCurrent /\ UNCHANGED sent
  <2>1. CASE t = Pat
    BY <1>4, <2>1, LatePatStep DEF LateArrives
  <2>2. CASE t # Pat
    BY <1>4, <2>2, TablesAre, LatePmtStep DEF LateArrives
  <2>3. QED BY <2>1, <2>2
<1>5. ASSUME NEW t \in Tables, UnusableArrives(t)
      PROVE  OrderlyInv' /\ OnlyToCurrent /\ UNCHANGED sent
  BY <1>5, UnusableStep DEF UnusableArrives
<1>6. QED BY <1>1, <1>2, <1>3, <1>4, <1>5 DEF TrackNext

\* The invariant of an orderly sender holds throughout.
THEOREM OrderlyInvHolds == Orderly /\ TrackSpec => []OrderlyInv
<1>1. Orderly /\ TrackInit => OrderlyInv
  BY InitEstablishesOrderlyInv
<1>2. OrderlyInv /\ [TrackNext]_trackVars => OrderlyInv'
  <2> SUFFICES ASSUME OrderlyInv, [TrackNext]_trackVars PROVE OrderlyInv'
    OBVIOUS
  <2>1. CASE TrackNext
    BY <2>1, NextKeepsOrderlyInv
  <2>2. CASE UNCHANGED trackVars
    <3>1. \A t \in Tables : ReceiverInv(t)'
      BY <2>2 DEF OrderlyInv, ReceiverInv, Receiver, trackVars
    <3>2. SentAsListed'
      BY <2>2 DEF OrderlyInv, SentAsListed, Current, trackVars
    <3>3. TrackerInv'
      BY <2>2 DEF OrderlyInv, TrackerInv, TrackerTypes, Listens, trackVars
    <3>4. QED BY <2>2, <3>1, <3>2, <3>3 DEF OrderlyInv, trackVars
  <2>3. QED BY <2>1, <2>2
<1>3. QED BY <1>1, <1>2, PTL DEF TrackSpec

\* When the sender and the channel are orderly, a table of which every section has
\* arrived since it was broadcast is in use.
THEOREM WhatWasHeardIsApplied == Orderly /\ TrackSpec => []HeardIsApplied
<1>1. OrderlyInv => HeardIsApplied
  <2> SUFFICES ASSUME OrderlyInv, NEW t \in Tables, t = Pat \/ ~followed[t].removed,
                      heard[t] = {s.number : s \in Sections(Current(t))}
               PROVE  Applied(t) = Sections(Current(t))
    BY DEF HeardIsApplied
  <2> DEFINE r == Receiver(t)
             B == sent[t]
             b == Current(t)
             H == heard[t]
  <2>1. ~r.removed /\ b = B[Len(B)]
    BY DEF Receiver, Current
  <2>2. b \in BroadcastType
    BY CurrentTyped DEF OrderlyInv, TrackerInv
  <2>3. Gathers(B, H, r) /\ Unfinished(r.sets)
    BY <2>1 DEF OrderlyInv, ReceiverInv, TableInv, Live
  <2>4. H = {s.number : s \in Sections(b)} /\ Numbered(b, H) = Sections(b) /\ H # {}
    BY <2>2, SectionsSay DEF Numbered
  <2> HIDE DEF r, B, b, H
  <2>5. r.table = Sections(b)
    BY <2>1, <2>2, <2>3, <2>4, UnfinishedLacks DEF Gathers, Collected
  <2>6. QED BY <2>5, AppliedIs DEF r, b
<1>2. QED BY <1>1, OrderlyInvHolds, PTL

\* When the sender and the channel are orderly, a table that comes into use is a
\* later one than each it was before.
THEOREM TablesNeverRollBack == Orderly /\ TrackSpec => NeverRollsBack
<1> DEFINE Forward == \A t \in Tables :
                        Applied(t)' # Applied(t) =>
                          \E k \in InUse(t)' : \A old \in InUse(t) : old < k
<1>1. OrderlyInv /\ [TrackNext]_trackVars => [Forward]_trackVars
  <2> SUFFICES ASSUME OrderlyInv, TrackNext, NEW t \in Tables, Applied(t)' # Applied(t)
               PROVE  \E k \in InUse(t)' : \A old \in InUse(t) : old < k
    OBVIOUS
  <2>1. Applied(t)' = Sections(Current(t)) /\ UNCHANGED sent
    BY NextKeepsOrderlyInv DEF OnlyToCurrent
  <2>2. Len(sent[t]) \in Nat /\ DOMAIN sent[t] = 1 .. Len(sent[t]) /\ Len(sent[t]) \in DOMAIN sent[t]
    BY CurrentTyped DEF OrderlyInv, TrackerInv
  <2>3. Len(sent[t]) \in InUse(t)'
    BY <2>1, <2>2 DEF InUse, Current
  <2>4. ASSUME NEW old \in InUse(t) PROVE old < Len(sent[t])
    BY <2>1, <2>2 DEF InUse, Current
  <2>5. QED BY <2>3, <2>4
<1>2. NeverRollsBack <=> [][Forward]_trackVars
  BY DEF NeverRollsBack
<1> HIDE DEF Forward
<1>3. QED BY <1>1, <1>2, OrderlyInvHolds, PTL DEF TrackSpec

-------------------------------------------------------------------------------
(* PsiLayout: the log of sections.                                           *)

\* What a log is made of.
LoggedRun == [pid : Pids, table : Tables, section : SectionType, pos : Nat, last : Nat,
              count : Nat, epoch : Nat]
StartType == [pid : Pids, table : Tables, section : SectionType, pos : Nat \ {0}]
LogType   == [runs : Seq(LoggedRun), epoch : [Pids -> Nat], latest : [Pids -> Nat]]

\* A run in which the section that starts at e may have been counted.
Covers(r, e) == Header(r) = Header(e) /\ r.pos <= e.pos /\ e.pos <= r.last

\* The sections that a run covers.
CoveredBy(r, S) == {i \in DOMAIN S : Covers(r, S[i])}

\* A run tells of its sections whether they were intact, and what an intact one was.
SameSection(r, e) ==
  r.section.intact = e.section.intact /\ (e.section.intact => r.section = e.section)

\* The latest run of a PID is one of its runs.
LatestOK(l) ==
  \A pid \in Pids : l.latest[pid] # 0 =>
    l.latest[pid] \in DOMAIN l.runs /\ l.runs[l.latest[pid]].pid = pid

\* A run ends where one of its sections starts, and was opened in an epoch of its PID.
RunsOK(l, S) ==
  \A k \in DOMAIN l.runs :
    /\ l.runs[k].pos <= l.runs[k].last
    /\ l.runs[k].epoch <= l.epoch[l.runs[k].pid]
    /\ \E i \in DOMAIN S : Header(S[i]) = Header(l.runs[k]) /\ S[i].pos = l.runs[k].last

\* Runs with one header follow one another.
RunsApart(l) ==
  \A j, k \in DOMAIN l.runs :
    j < k /\ Header(l.runs[j]) = Header(l.runs[k]) => l.runs[j].last < l.runs[k].pos

\* What comes after an invalid run on its PID closes it, and an invalid section closes
\* the valid runs.
RunsShut(l) ==
  \A j, k \in DOMAIN l.runs :
    j < k /\ l.runs[j].pid = l.runs[k].pid =>
      IF l.runs[j].section.intact
        THEN ~l.runs[k].section.intact => l.runs[j].epoch < l.runs[k].epoch
      ELSE l.latest[l.runs[j].pid] # j

\* Each section is in a run that says what it was, and counted there.
SectionsPlaced(l, S) ==
  \A i \in DOMAIN S : \E k \in DOMAIN l.runs :
    Covers(l.runs[k], S[i]) /\ SameSection(l.runs[k], S[i])

\* A run counts the sections that it covers.
CopiesCounted(l, S) ==
  \A k \in DOMAIN l.runs : l.runs[k].count = Cardinality(CoveredBy(l.runs[k], S))

\* The log of the sections that started up to a packet.
LogInv(l, S, n) ==
  /\ l \in LogType /\ S \in Seq(StartType) /\ n \in Nat
  /\ \A i \in DOMAIN S : S[i].pos <= n
  /\ LatestOK(l) /\ RunsOK(l, S) /\ RunsApart(l) /\ RunsShut(l)
  /\ SectionsPlaced(l, S) /\ CopiesCounted(l, S)

\* What a log and the sections that started are made of.
LEMMA LogParts ==
  ASSUME NEW l, NEW S, NEW n, LogInv(l, S, n)
  PROVE  /\ l.runs \in Seq(LoggedRun) /\ l.epoch \in [Pids -> Nat] /\ l.latest \in [Pids -> Nat]
         /\ Len(l.runs) \in Nat /\ DOMAIN l.runs = 1 .. Len(l.runs)
         /\ \A k \in DOMAIN l.runs :
              /\ l.runs[k] \in LoggedRun
              /\ l.runs[k].pos \in Nat /\ l.runs[k].last \in Nat /\ l.runs[k].epoch \in Nat
              /\ l.runs[k].count \in Nat /\ l.runs[k].pid \in Pids
              /\ l.epoch[l.runs[k].pid] \in Nat
         /\ Len(S) \in Nat /\ DOMAIN S = 1 .. Len(S)
         /\ \A i \in DOMAIN S : S[i] \in StartType /\ S[i].pos \in Nat /\ S[i].pos <= n
         /\ n \in Nat
<1>1. /\ l.runs \in Seq(LoggedRun) /\ l.epoch \in [Pids -> Nat] /\ l.latest \in [Pids -> Nat]
      /\ S \in Seq(StartType) /\ n \in Nat /\ \A i \in DOMAIN S : S[i].pos <= n
  BY DEF LogInv, LogType
<1>2. /\ Len(l.runs) \in Nat /\ DOMAIN l.runs = 1 .. Len(l.runs)
      /\ \A k \in DOMAIN l.runs : l.runs[k] \in LoggedRun
  <2> HIDE DEF LoggedRun
  <2> QED BY <1>1
<1>3. Len(S) \in Nat /\ DOMAIN S = 1 .. Len(S) /\ \A i \in DOMAIN S : S[i] \in StartType
  <2> HIDE DEF StartType
  <2> QED BY <1>1
<1>4. \A k \in DOMAIN l.runs :
        /\ l.runs[k].pos \in Nat /\ l.runs[k].last \in Nat /\ l.runs[k].epoch \in Nat
        /\ l.runs[k].count \in Nat /\ l.runs[k].pid \in Pids
  BY <1>2 DEF LoggedRun
<1>5. \A i \in DOMAIN S : S[i].pos \in Nat
  BY <1>3 DEF StartType
<1>6. \A k \in DOMAIN l.runs : l.epoch[l.runs[k].pid] \in Nat
  BY <1>1, <1>4
<1>7. QED BY <1>1, <1>2, <1>3, <1>4, <1>5, <1>6

\* Where a section may start after those of S, of which the last are in packet n.
StartsAfter(S, n, e) ==
  /\ e \in StartType
  /\ \/ e.pos = n + 1
     \/ e.pos = n /\ \A i \in DOMAIN S : S[i].pos = n => Header(S[i]) # Header(e)

\* Every run with its header is over before it.
LEMMA RunsBehind ==
  ASSUME NEW l, NEW S, NEW n, LogInv(l, S, n), NEW e, StartsAfter(S, n, e)
  PROVE  \A k \in DOMAIN l.runs : Header(l.runs[k]) = Header(e) => l.runs[k].last < e.pos
<1> SUFFICES ASSUME NEW k \in DOMAIN l.runs, Header(l.runs[k]) = Header(e)
             PROVE  l.runs[k].last < e.pos
  OBVIOUS
<1>1. PICK i \in DOMAIN S : Header(S[i]) = Header(l.runs[k]) /\ S[i].pos = l.runs[k].last
  BY DEF LogInv, RunsOK
<1>2. S[i].pos \in Nat /\ S[i].pos <= n /\ n \in Nat
  BY LogParts
<1>3. QED BY <1>1, <1>2 DEF StartsAfter

\* Closing the valid runs of a PID.
LEMMA ClosedKeeps ==
  ASSUME NEW l, NEW S, NEW n, LogInv(l, S, n), NEW pid \in Pids
  PROVE  /\ LogInv(Closed(l, pid), S, n)
         /\ Closed(l, pid).runs = l.runs /\ Closed(l, pid).latest = l.latest
         /\ \A k \in DOMAIN l.runs : l.runs[k].pid = pid => l.runs[k].epoch < Closed(l, pid).epoch[pid]
<1> DEFINE c == Closed(l, pid)
<1>1. l \in LogType /\ l.epoch \in [Pids -> Nat]
  BY DEF LogInv, LogType
<1>2. /\ c.runs = l.runs /\ c.latest = l.latest
      /\ c.epoch = [l.epoch EXCEPT ![pid] = @ + 1]
      /\ c = [runs |-> l.runs, epoch |-> c.epoch, latest |-> l.latest]
  <2> DEFINE f == [l.epoch EXCEPT ![pid] = l.epoch[pid] + 1]
  <2>1. c = [l EXCEPT !.epoch = f]
    BY DEF Closed
  <2> HIDE DEF c, f
  <2>2. c.runs = l.runs /\ c.latest = l.latest /\ c.epoch = f
        /\ c = [runs |-> l.runs, epoch |-> f, latest |-> l.latest]
    BY <1>1, <2>1 DEF LogType
  <2>3. QED BY <2>2 DEF f
<1>3. c.epoch \in [Pids -> Nat] /\ \A q \in Pids : c.epoch[q] = IF q = pid THEN l.epoch[q] + 1 ELSE l.epoch[q]
  BY <1>1, <1>2
<1>4. c \in LogType
  BY <1>1, <1>2, <1>3 DEF LogType
<1>5. \A k \in DOMAIN l.runs : /\ l.runs[k].epoch <= c.epoch[l.runs[k].pid]
                               /\ l.runs[k].pid = pid => l.runs[k].epoch < c.epoch[pid]
  <2>1. ASSUME NEW k \in DOMAIN l.runs
        PROVE  /\ l.runs[k].epoch <= c.epoch[l.runs[k].pid]
               /\ l.runs[k].pid = pid => l.runs[k].epoch < c.epoch[pid]
    <3> HIDE DEF c
    <3>1. l.runs[k].epoch \in Nat /\ l.runs[k].pid \in Pids /\ l.epoch[l.runs[k].pid] \in Nat
      BY LogParts
    <3>2. l.runs[k].epoch <= l.epoch[l.runs[k].pid]
      BY DEF LogInv, RunsOK
    <3>3. QED BY <1>3, <3>1, <3>2
  <2>2. QED BY <2>1
<1> HIDE DEF c
<1>6. LogInv(c, S, n)
  BY <1>2, <1>4, <1>5 DEF LogInv, LatestOK, RunsOK, RunsApart, RunsShut, SectionsPlaced, CopiesCounted
<1>7. QED BY <1>2, <1>5, <1>6 DEF c

\* No run of a PID is its latest.
LEMMA InterruptedKeeps ==
  ASSUME NEW l, NEW S, NEW n, LogInv(l, S, n), NEW pid \in Pids
  PROVE  LogInv(Interrupted(l, pid), S, n)
<1> DEFINE c == Interrupted(l, pid)
<1>1. l \in LogType /\ l.latest \in [Pids -> Nat]
  BY DEF LogInv, LogType
<1>2. /\ c.runs = l.runs /\ c.epoch = l.epoch
      /\ c.latest = [l.latest EXCEPT ![pid] = 0]
      /\ c = [runs |-> l.runs, epoch |-> l.epoch, latest |-> c.latest]
  <2> DEFINE f == [l.latest EXCEPT ![pid] = 0]
  <2>1. c = [l EXCEPT !.latest = f]
    BY DEF Interrupted
  <2> HIDE DEF c, f
  <2>2. c.runs = l.runs /\ c.epoch = l.epoch /\ c.latest = f
        /\ c = [runs |-> l.runs, epoch |-> l.epoch, latest |-> f]
    BY <1>1, <2>1 DEF LogType
  <2>3. QED BY <2>2 DEF f
<1>3. /\ c.latest \in [Pids -> Nat]
      /\ \A q \in Pids : c.latest[q] = IF q = pid THEN 0 ELSE l.latest[q]
  BY <1>1, <1>2
<1>4. c \in LogType
  BY <1>1, <1>2, <1>3 DEF LogType
<1> HIDE DEF c
<1>5. LatestOK(c)
  BY <1>2, <1>3 DEF LogInv, LatestOK
<1>6. RunsShut(c)
  BY <1>2, <1>3, LogParts DEF LogInv, RunsShut
<1>7. LogInv(c, S, n)
  BY <1>2, <1>4, <1>5, <1>6 DEF LogInv, RunsOK, RunsApart, SectionsPlaced, CopiesCounted
<1>8. QED BY <1>7 DEF c

\* A run that a section extends is the last one with its header, and says what it is.
LEMMA ExtendsIs ==
  ASSUME NEW l, NEW S, NEW n, LogInv(l, S, n), NEW e \in StartType, NEW i \in ExtendsRun(l, e)
  PROVE  /\ i \in DOMAIN l.runs /\ Header(l.runs[i]) = Header(e) /\ l.runs[i].pid = e.pid
         /\ SameSection(l.runs[i], e)
         /\ \A k \in DOMAIN l.runs : i < k => Header(l.runs[k]) # Header(e)
         /\ ~e.section.intact => l.latest[e.pid] = i
<1>0. e.pid \in Pids
  BY DEF StartType
<1>1. CASE e.section.intact
  <2>1. /\ i \in OfKey(l, e) /\ \A j \in OfKey(l, e) : j <= i
        /\ l.runs[i].epoch = l.epoch[e.pid] /\ l.runs[i].section = e.section
    BY <1>1 DEF ExtendsRun
  <2>2. i \in DOMAIN l.runs /\ l.runs[i].section.intact /\ Key(l.runs[i]) = Key(e)
    BY <2>1 DEF OfKey
  <2>3. l.runs[i].pid = e.pid /\ l.runs[i].table = e.table
    BY <2>2 DEF Key
  <2>4. Header(l.runs[i]) = Header(e)
    BY <2>1, <2>3 DEF Header
  <2>5. ASSUME NEW k \in DOMAIN l.runs, i < k, Header(l.runs[k]) = Header(e) PROVE FALSE
    <3>1. Key(l.runs[k]) = Key(e) /\ l.runs[k].pid = e.pid
      BY <2>5 DEF Header, Key
    <3>2. i \in Nat /\ k \in Nat
      BY <2>2, LogParts
    <3>3. ~l.runs[k].section.intact
      BY <2>1, <2>5, <3>1, <3>2 DEF OfKey
    <3>4. l.runs[i].epoch < l.runs[k].epoch
      BY <2>2, <2>3, <2>5, <3>1, <3>3 DEF LogInv, RunsShut
    <3>5. l.runs[k].epoch <= l.epoch[e.pid]
      BY <3>1 DEF LogInv, RunsOK
    <3>6. l.runs[i].epoch \in Nat /\ l.runs[k].epoch \in Nat /\ l.epoch[e.pid] \in Nat
      BY <2>2, <2>3, LogParts
    <3>7. QED BY <2>1, <3>4, <3>5, <3>6
  <2>6. QED BY <1>1, <2>1, <2>2, <2>3, <2>4, <2>5 DEF SameSection
<1>2. CASE ~e.section.intact
  <2>1. i = l.latest[e.pid] /\ i # 0 /\ ~l.runs[i].section.intact /\ Header(l.runs[i]) = Header(e)
    BY <1>2 DEF ExtendsRun
  <2>2. i \in DOMAIN l.runs /\ l.runs[i].pid = e.pid
    BY <1>0, <2>1 DEF LogInv, LatestOK
  <2>3. ASSUME NEW k \in DOMAIN l.runs, i < k, Header(l.runs[k]) = Header(e) PROVE FALSE
    <3>1. l.runs[k].pid = e.pid
      BY <2>3 DEF Header
    <3>2. QED BY <2>1, <2>2, <2>3, <3>1 DEF LogInv, RunsShut
  <2>4. l.runs[i].section.intact = e.section.intact
    <3>1. l.runs[i].section \in SectionType /\ e.section \in SectionType
      BY <2>2, LogParts DEF LoggedRun, StartType
    <3>2. l.runs[i].section.intact \in BOOLEAN /\ e.section.intact \in BOOLEAN
      BY <3>1 DEF SectionType
    <3>3. QED BY <1>2, <2>1, <3>2
  <2>5. QED BY <1>2, <2>1, <2>2, <2>3, <2>4 DEF SameSection
<1>3. QED BY <1>1, <1>2

\* One more section among those of a run.
LEMMA CoveredAppend ==
  ASSUME NEW S \in Seq(StartType), NEW e \in StartType, NEW r, NEW q,
         \A i \in DOMAIN S : Covers(q, S[i]) <=> Covers(r, S[i])
  PROVE  /\ Append(S, e) \in Seq(StartType)
         /\ DOMAIN Append(S, e) = DOMAIN S \cup {Len(S) + 1}
         /\ Append(S, e)[Len(S) + 1] = e
         /\ \A i \in DOMAIN S : Append(S, e)[i] = S[i]
         /\ CoveredBy(q, Append(S, e)) =
              IF Covers(q, e) THEN CoveredBy(r, S) \cup {Len(S) + 1} ELSE CoveredBy(r, S)
         /\ Cardinality(CoveredBy(r, S)) \in Nat
         /\ Cardinality(CoveredBy(q, Append(S, e))) =
              IF Covers(q, e) THEN Cardinality(CoveredBy(r, S)) + 1 ELSE Cardinality(CoveredBy(r, S))
<1> HIDE DEF StartType
<1>1. /\ Append(S, e) \in Seq(StartType) /\ Len(S) \in Nat /\ DOMAIN S = 1 .. Len(S)
      /\ DOMAIN Append(S, e) = DOMAIN S \cup {Len(S) + 1}
      /\ Append(S, e)[Len(S) + 1] = e
      /\ \A i \in DOMAIN S : Append(S, e)[i] = S[i]
  OBVIOUS
<1>2. CoveredBy(q, Append(S, e)) =
        IF Covers(q, e) THEN CoveredBy(r, S) \cup {Len(S) + 1} ELSE CoveredBy(r, S)
  <2> DEFINE T == Append(S, e)
  <2>1. \A i \in DOMAIN S : Covers(q, T[i]) <=> Covers(r, S[i])
    BY <1>1
  <2>2. DOMAIN T = DOMAIN S \cup {Len(S) + 1} /\ T[Len(S) + 1] = e
    BY <1>1
  <2> HIDE DEF T
  <2>3. CoveredBy(q, T) = IF Covers(q, e) THEN CoveredBy(r, S) \cup {Len(S) + 1} ELSE CoveredBy(r, S)
    BY <2>1, <2>2 DEF CoveredBy
  <2>4. QED BY <2>3 DEF T
<1>3. IsFiniteSet(CoveredBy(r, S)) /\ Len(S) + 1 \notin CoveredBy(r, S)
  <2>1. CoveredBy(r, S) \subseteq 1 .. Len(S) /\ IsFiniteSet(1 .. Len(S))
    BY <1>1, FS_Interval DEF CoveredBy
  <2>2. Len(S) + 1 \notin 1 .. Len(S)
    BY <1>1
  <2>3. QED BY <2>1, <2>2, FS_Subset
<1>4. /\ Cardinality(CoveredBy(r, S)) \in Nat
      /\ Cardinality(CoveredBy(r, S) \cup {Len(S) + 1}) = Cardinality(CoveredBy(r, S)) + 1
  BY <1>3, FS_CardinalityType, FS_AddElement
<1>5. QED BY <1>1, <1>2, <1>4

\* A run with one more section.
LEMMA LongerTyped ==
  ASSUME NEW r \in LoggedRun, NEW e, e.pos \in Nat
  PROVE  LET q == Longer(r, e) IN
         /\ q \in LoggedRun /\ q.pid = r.pid /\ q.section = r.section /\ q.pos = r.pos
         /\ q.last = e.pos /\ q.count = r.count + 1 /\ q.epoch = r.epoch /\ q.table = r.table
<1>1. /\ Longer(r, e) = [[r EXCEPT !.last = e.pos] EXCEPT !.count = r.count + 1]
      /\ r.count + 1 \in Nat
  BY DEF Longer, LoggedRun
<1>2. \A x \in LoggedRun, k \in Nat : [x EXCEPT !.last = k] \in LoggedRun
  BY DEF LoggedRun
<1>3. \A x \in LoggedRun, k \in Nat : [x EXCEPT !.count = k] \in LoggedRun
  BY DEF LoggedRun
<1>4. Longer(r, e) \in LoggedRun
  <2> DEFINE x == [r EXCEPT !.last = e.pos]
  <2>1. x \in LoggedRun
    BY <1>2
  <2>2. Longer(r, e) = [x EXCEPT !.count = r.count + 1]
    BY <1>1
  <2> HIDE DEF LoggedRun, x
  <2>3. QED BY <1>1, <1>3, <2>1, <2>2
<1>5. QED BY <1>4 DEF Longer, LoggedRun

\* A section that extends a run.
LEMMA ExtendedKeeps ==
  ASSUME NEW l, NEW S, NEW n, LogInv(l, S, n), NEW e, StartsAfter(S, n, e),
         NEW i \in ExtendsRun(l, e)
  PROVE  LogInv(Extended(l, i, e), Append(S, e), e.pos)
<1> DEFINE c == Extended(l, i, e)
           r == l.runs[i]
           q == Longer(r, e)
           runs == [l.runs EXCEPT ![i] = q]
           latest == [l.latest EXCEPT ![e.pid] = i]
           T == Append(S, e)
<1>1. /\ e \in StartType /\ e.pos \in Nat /\ e.pid \in Pids /\ n <= e.pos
  BY LogParts DEF StartsAfter, StartType
<1>2. /\ i \in DOMAIN l.runs /\ Header(r) = Header(e) /\ r.pid = e.pid /\ SameSection(r, e)
      /\ \A k \in DOMAIN l.runs : i < k => Header(l.runs[k]) # Header(e)
      /\ ~e.section.intact => l.latest[e.pid] = i
  BY <1>1, ExtendsIs
<1>3. r.last < e.pos
  BY <1>2, RunsBehind
<1>4. /\ l.runs \in Seq(LoggedRun) /\ l.latest \in [Pids -> Nat] /\ DOMAIN l.runs = 1 .. Len(l.runs)
      /\ Len(l.runs) \in Nat /\ r \in LoggedRun /\ r.last \in Nat /\ r.pos \in Nat /\ r.count \in Nat
      /\ S \in Seq(StartType)
  BY <1>2, LogParts DEF LogInv
<1>5. /\ q \in LoggedRun /\ q.pid = r.pid /\ q.section = r.section /\ q.pos = r.pos
      /\ q.last = e.pos /\ q.count = r.count + 1 /\ q.epoch = r.epoch /\ q.table = r.table
  <2> HIDE DEF r, LoggedRun
  <2> QED BY <1>1, <1>4, LongerTyped
<1>6. Header(q) = Header(r)
  BY <1>5 DEF Header
<1>7. c.runs = runs /\ c.latest = latest /\ c.epoch = l.epoch /\ c \in LogType
      /\ c = [runs |-> runs, epoch |-> l.epoch, latest |-> latest]
  <2>1. c = [l EXCEPT !.runs = runs, !.latest = latest]
    BY DEF Extended
  <2>2. l \in LogType
    BY DEF LogInv
  <2>3. runs \in Seq(LoggedRun) /\ latest \in [Pids -> Nat]
    <3> HIDE DEF q, LoggedRun, r
    <3>1. runs \in Seq(LoggedRun)
      BY <1>2, <1>4, <1>5, ExceptSeq
    <3>2. i \in Nat
      BY <1>2, <1>4
    <3>3. QED BY <1>4, <3>1, <3>2
  <2> HIDE DEF c, runs, latest
  <2>4. c = [runs |-> runs, epoch |-> l.epoch, latest |-> latest]
    BY <2>1, <2>2 DEF LogType
  <2>5. QED BY <2>2, <2>3, <2>4 DEF LogType
<1>8. /\ DOMAIN runs = DOMAIN l.runs
      /\ \A k \in DOMAIN l.runs : runs[k] = IF k = i THEN q ELSE l.runs[k]
  BY <1>4
<1>9. \A p \in Pids : latest[p] = IF p = e.pid THEN i ELSE l.latest[p]
  BY <1>4
<1> HIDE DEF c, r, q, runs, latest
<1>10. /\ T \in Seq(StartType) /\ DOMAIN T = DOMAIN S \cup {Len(S) + 1}
       /\ T[Len(S) + 1] = e /\ \A j \in DOMAIN S : T[j] = S[j]
  BY <1>1, <1>4, CoveredAppend
<1> HIDE DEF T
<1>11. Covers(q, e) /\ \A j \in DOMAIN S : Covers(q, S[j]) <=> Covers(r, S[j])
  <2>1. r.pos <= r.last
    BY <1>2 DEF LogInv, RunsOK, r
  <2>2. Covers(q, e)
    BY <1>1, <1>2, <1>3, <1>4, <1>5, <1>6, <2>1 DEF Covers
  <2>3. ASSUME NEW j \in DOMAIN S, Covers(r, S[j]) PROVE Covers(q, S[j])
    <3>1. S[j].pos \in Nat
      BY LogParts
    <3>2. QED BY <1>1, <1>3, <1>4, <1>5, <1>6, <2>3, <3>1 DEF Covers
  <2>4. ASSUME NEW j \in DOMAIN S, Covers(q, S[j]), ~Covers(r, S[j]) PROVE FALSE
    <3>1. S[j].pos \in Nat /\ Header(S[j]) = Header(r) /\ r.last < S[j].pos
      BY <1>4, <1>5, <1>6, <2>4, LogParts DEF Covers
    <3>2. PICK k \in DOMAIN l.runs : Covers(l.runs[k], S[j])
      BY DEF LogInv, SectionsPlaced
    <3>3. /\ Header(l.runs[k]) = Header(r) /\ l.runs[k].last >= S[j].pos
          /\ l.runs[k].last \in Nat /\ k \in Nat /\ i \in Nat
      BY <1>2, <1>4, <3>1, <3>2, LogParts DEF Covers
    <3>4. k # i
      BY <1>4, <3>1, <3>3 DEF r
    <3>5. ~(i < k)
      BY <1>2, <3>3
    <3>6. l.runs[k].last < r.pos
      BY <1>2, <3>3, <3>4, <3>5 DEF LogInv, RunsApart, r
    <3>7. QED BY <1>4, <2>1, <3>1, <3>3, <3>6
  <2>5. QED BY <2>2, <2>3, <2>4
<1>12. \A k \in DOMAIN l.runs : k # i => ~Covers(l.runs[k], e)
  <2>1. ASSUME NEW k \in DOMAIN l.runs, k # i, Covers(l.runs[k], e) PROVE FALSE
    <3>1. Header(l.runs[k]) = Header(e) /\ e.pos <= l.runs[k].last /\ l.runs[k].last \in Nat
      BY <2>1, LogParts DEF Covers
    <3>2. QED BY <1>1, <3>1, RunsBehind
  <2>2. QED BY <2>1
<1>13. LatestOK(c)
  <2>1. \A k \in DOMAIN l.runs : runs[k].pid = l.runs[k].pid
    BY <1>5, <1>8 DEF r
  <2>2. l.runs[i].pid = e.pid
    BY <1>2 DEF r
  <2>3. ASSUME NEW p \in Pids, latest[p] # 0 PROVE latest[p] \in DOMAIN runs /\ runs[latest[p]].pid = p
    <3>1. CASE p = e.pid
      BY <1>2, <1>8, <1>9, <2>1, <2>2, <3>1
    <3>2. CASE p # e.pid
      BY <1>8, <1>9, <2>1, <2>3, <3>2 DEF LogInv, LatestOK
    <3>3. QED BY <3>1, <3>2
  <2>4. QED BY <1>7, <2>3 DEF LatestOK
<1>14. RunsOK(c, T)
  <2>1. ASSUME NEW k \in DOMAIN l.runs
        PROVE  /\ runs[k].pos <= runs[k].last
               /\ runs[k].epoch <= l.epoch[runs[k].pid]
               /\ \E j \in DOMAIN T : Header(T[j]) = Header(runs[k]) /\ T[j].pos = runs[k].last
    <3>1. CASE k = i
      <4>1. runs[k] = q /\ r.pos <= r.last /\ r.epoch <= l.epoch[r.pid]
        BY <1>8, <3>1 DEF LogInv, RunsOK, r
      <4>2. QED BY <1>1, <1>2, <1>3, <1>4, <1>5, <1>6, <1>10, <4>1
    <3>2. CASE k # i
      <4>1. /\ runs[k] = l.runs[k] /\ l.runs[k].pos <= l.runs[k].last
            /\ l.runs[k].epoch <= l.epoch[l.runs[k].pid]
            /\ \E j \in DOMAIN S : Header(S[j]) = Header(l.runs[k]) /\ S[j].pos = l.runs[k].last
        BY <1>8, <3>2 DEF LogInv, RunsOK
      <4>2. QED BY <1>10, <4>1
    <3>3. QED BY <3>1, <3>2
  <2>2. QED BY <1>7, <1>8, <2>1 DEF RunsOK
<1>15. RunsApart(c)
  <2>1. ASSUME NEW j \in DOMAIN l.runs, NEW k \in DOMAIN l.runs, j < k, Header(runs[j]) = Header(runs[k])
        PROVE  runs[j].last < runs[k].pos
    <3>1. Header(runs[j]) = Header(l.runs[j]) /\ Header(runs[k]) = Header(l.runs[k])
      BY <1>6, <1>8 DEF r
    <3>2. j # i
      BY <1>2, <2>1, <3>1 DEF r
    <3>3. runs[k].pos = l.runs[k].pos /\ runs[j] = l.runs[j]
      BY <1>5, <1>8, <3>2 DEF r
    <3>4. QED BY <2>1, <3>1, <3>3 DEF LogInv, RunsApart
  <2>2. QED BY <1>7, <1>8, <2>1 DEF RunsApart
<1>16. RunsShut(c)
  <2>1. ASSUME NEW j \in DOMAIN l.runs, NEW k \in DOMAIN l.runs, j < k, runs[j].pid = runs[k].pid
        PROVE  IF runs[j].section.intact THEN ~runs[k].section.intact => runs[j].epoch < runs[k].epoch
               ELSE latest[runs[j].pid] # j
    <3>1. \A m \in DOMAIN l.runs : /\ runs[m].pid = l.runs[m].pid /\ runs[m].epoch = l.runs[m].epoch
                                   /\ runs[m].section = l.runs[m].section
      BY <1>5, <1>8 DEF r
    <3>2. IF l.runs[j].section.intact
            THEN ~l.runs[k].section.intact => l.runs[j].epoch < l.runs[k].epoch
          ELSE l.latest[l.runs[j].pid] # j
      BY <2>1, <3>1 DEF LogInv, RunsShut
    <3>3. CASE l.runs[j].section.intact
      BY <3>1, <3>2, <3>3
    <3>4. CASE ~l.runs[j].section.intact
      <4>1. l.runs[j].pid \in Pids
        BY LogParts
      <4>2. CASE l.runs[j].pid = e.pid /\ i = j
        <5>1. ~e.section.intact
          BY <1>2, <3>4, <4>2 DEF SameSection, r
        <5>2. QED BY <1>2, <3>2, <3>4, <4>2, <5>1
      <4>3. CASE ~(l.runs[j].pid = e.pid /\ i = j)
        BY <1>9, <3>1, <3>2, <3>4, <4>1, <4>3
      <4>4. QED BY <4>2, <4>3
    <3>5. QED BY <3>3, <3>4
  <2>2. QED BY <1>7, <1>8, <2>1 DEF RunsShut
<1>17. SectionsPlaced(c, T)
  <2>1. ASSUME NEW j \in DOMAIN S
        PROVE  \E k \in DOMAIN l.runs : Covers(runs[k], S[j]) /\ SameSection(runs[k], S[j])
    <3>1. PICK k \in DOMAIN l.runs : Covers(l.runs[k], S[j]) /\ SameSection(l.runs[k], S[j])
      BY DEF LogInv, SectionsPlaced
    <3>2. Covers(runs[k], S[j])
      BY <1>8, <1>11, <3>1 DEF r
    <3>3. runs[k].section = l.runs[k].section
      BY <1>5, <1>8 DEF r
    <3>4. QED BY <3>1, <3>2, <3>3 DEF SameSection
  <2>2. Covers(runs[i], e) /\ SameSection(runs[i], e)
    BY <1>2, <1>5, <1>8, <1>11 DEF SameSection
  <2>3. QED BY <1>2, <1>7, <1>8, <1>10, <2>1, <2>2 DEF SectionsPlaced
<1>18. CopiesCounted(c, T)
  <2>1. ASSUME NEW k \in DOMAIN l.runs PROVE runs[k].count = Cardinality(CoveredBy(runs[k], T))
    <3>1. l.runs[k].count = Cardinality(CoveredBy(l.runs[k], S))
      BY DEF LogInv, CopiesCounted
    <3>2. CASE k = i
      <4>1. Cardinality(CoveredBy(q, T)) = Cardinality(CoveredBy(r, S)) + 1
        BY <1>1, <1>4, <1>11, CoveredAppend DEF T
      <4>2. QED BY <1>5, <1>8, <3>1, <3>2, <4>1 DEF r
    <3>3. CASE k # i
      <4>1. ~Covers(l.runs[k], e)
        BY <1>12, <3>3
      <4>2. Cardinality(CoveredBy(l.runs[k], T)) = Cardinality(CoveredBy(l.runs[k], S))
        BY <1>1, <1>4, <4>1, CoveredAppend DEF T
      <4>3. QED BY <1>8, <3>1, <3>3, <4>2
    <3>4. QED BY <3>2, <3>3
  <2>2. QED BY <1>7, <1>8, <2>1 DEF CopiesCounted
<1>19. \A j \in DOMAIN T : T[j].pos <= e.pos
  <2>1. \A j \in DOMAIN S : S[j].pos <= e.pos
    BY <1>1, LogParts
  <2>2. QED BY <1>1, <1>10, <2>1
<1>20. LogInv(c, T, e.pos)
  BY <1>1, <1>7, <1>10, <1>13, <1>14, <1>15, <1>16, <1>17, <1>18, <1>19 DEF LogInv
<1>21. QED BY <1>20 DEF c, T

\* A section that opens a run.
LEMMA NewRunKeeps ==
  ASSUME NEW l, NEW S, NEW n, LogInv(l, S, n), NEW e, StartsAfter(S, n, e),
         ~e.section.intact =>
           \A k \in DOMAIN l.runs : l.runs[k].pid = e.pid => l.runs[k].epoch < l.epoch[e.pid]
  PROVE  LogInv(NewRun(l, e), Append(S, e), e.pos)
<1> DEFINE c == NewRun(l, e)
           q == RunOf(e, l.epoch[e.pid])
           m == Len(l.runs) + 1
           runs == Append(l.runs, q)
           latest == [l.latest EXCEPT ![e.pid] = m]
           T == Append(S, e)
<1>1. /\ e \in StartType /\ e.pos \in Nat /\ e.pid \in Pids /\ n <= e.pos
      /\ e.table \in Tables /\ e.section \in SectionType
  BY LogParts DEF StartsAfter, StartType
<1>2. /\ l.runs \in Seq(LoggedRun) /\ l.latest \in [Pids -> Nat] /\ l.epoch \in [Pids -> Nat]
      /\ DOMAIN l.runs = 1 .. Len(l.runs) /\ Len(l.runs) \in Nat /\ S \in Seq(StartType)
      /\ l \in LogType
  BY LogParts DEF LogInv
<1>3. /\ q \in LoggedRun /\ q.pid = e.pid /\ q.section = e.section /\ q.pos = e.pos /\ q.last = e.pos
      /\ q.count = 1 /\ q.epoch = l.epoch[e.pid] /\ q.table = e.table
  BY <1>1, <1>2 DEF RunOf, LoggedRun
<1>4. Header(q) = Header(e)
  BY <1>3 DEF Header
<1>5. c.runs = runs /\ c.latest = latest /\ c.epoch = l.epoch /\ c \in LogType
  <2>1. c = [l EXCEPT !.runs = runs, !.latest = latest]
    BY DEF NewRun
  <2>2. runs \in Seq(LoggedRun) /\ latest \in [Pids -> Nat]
    <3> HIDE DEF q, LoggedRun
    <3> QED BY <1>1, <1>2, <1>3
  <2> HIDE DEF c, runs, latest
  <2>3. c = [runs |-> runs, epoch |-> l.epoch, latest |-> latest]
    BY <1>2, <2>1 DEF LogType
  <2>4. QED BY <1>2, <2>2, <2>3 DEF LogType
<1>6. /\ DOMAIN runs = DOMAIN l.runs \cup {m} /\ runs[m] = q /\ m \in Nat
      /\ \A k \in DOMAIN l.runs : runs[k] = l.runs[k] /\ k < m /\ k \in Nat
  <2> HIDE DEF q, LoggedRun
  <2> QED BY <1>2, <1>3
<1>7. \A p \in Pids : latest[p] = IF p = e.pid THEN m ELSE l.latest[p]
  BY <1>2
<1> HIDE DEF c, q, runs, latest, m
<1>8. /\ T \in Seq(StartType) /\ DOMAIN T = DOMAIN S \cup {Len(S) + 1}
      /\ T[Len(S) + 1] = e /\ \A j \in DOMAIN S : T[j] = S[j]
  BY <1>1, <1>2, CoveredAppend
<1> HIDE DEF T
<1>9. Covers(q, e) /\ \A j \in DOMAIN S : ~Covers(q, S[j])
  <2>1. Covers(q, e)
    BY <1>1, <1>3, <1>4 DEF Covers
  <2>2. ASSUME NEW j \in DOMAIN S, Covers(q, S[j]) PROVE FALSE
    <3>1. S[j].pos \in Nat /\ S[j].pos <= n /\ n \in Nat
      BY LogParts
    <3>2. Header(S[j]) = Header(e) /\ S[j].pos = e.pos
      BY <1>1, <1>3, <1>4, <2>2, <3>1 DEF Covers
    <3>3. QED BY <3>1, <3>2 DEF StartsAfter
  <2>3. QED BY <2>1, <2>2
<1>10. \A k \in DOMAIN l.runs : Header(l.runs[k]) = Header(e) => l.runs[k].last < e.pos
  BY RunsBehind
<1>11. \A k \in DOMAIN l.runs : ~Covers(l.runs[k], e)
  BY <1>1, <1>10, LogParts DEF Covers
<1>12. LatestOK(c)
  <2>1. ASSUME NEW p \in Pids, latest[p] # 0 PROVE latest[p] \in DOMAIN runs /\ runs[latest[p]].pid = p
    <3>1. CASE p = e.pid
      BY <1>3, <1>6, <1>7, <3>1
    <3>2. CASE p # e.pid
      BY <1>6, <1>7, <2>1, <3>2 DEF LogInv, LatestOK
    <3>3. QED BY <3>1, <3>2
  <2>2. QED BY <1>5, <2>1 DEF LatestOK
<1>13. RunsOK(c, T)
  <2>1. ASSUME NEW k \in DOMAIN l.runs
        PROVE  /\ runs[k].pos <= runs[k].last
               /\ runs[k].epoch <= l.epoch[runs[k].pid]
               /\ \E j \in DOMAIN T : Header(T[j]) = Header(runs[k]) /\ T[j].pos = runs[k].last
    <3>1. /\ runs[k] = l.runs[k] /\ l.runs[k].pos <= l.runs[k].last
          /\ l.runs[k].epoch <= l.epoch[l.runs[k].pid]
          /\ \E j \in DOMAIN S : Header(S[j]) = Header(l.runs[k]) /\ S[j].pos = l.runs[k].last
      BY <1>6 DEF LogInv, RunsOK
    <3>2. QED BY <1>8, <3>1
  <2>2. /\ runs[m].pos <= runs[m].last
        /\ runs[m].epoch <= l.epoch[runs[m].pid]
        /\ \E j \in DOMAIN T : Header(T[j]) = Header(runs[m]) /\ T[j].pos = runs[m].last
    BY <1>1, <1>2, <1>3, <1>4, <1>6, <1>8
  <2>3. QED BY <1>5, <1>6, <2>1, <2>2 DEF RunsOK
<1>14. RunsApart(c)
  <2>1. ASSUME NEW j \in DOMAIN runs, NEW k \in DOMAIN runs, j < k, Header(runs[j]) = Header(runs[k])
        PROVE  runs[j].last < runs[k].pos
    <3>1. j \in DOMAIN l.runs
      BY <1>6, <2>1
    <3>2. CASE k = m
      BY <1>3, <1>4, <1>6, <1>10, <2>1, <3>1, <3>2
    <3>3. CASE k \in DOMAIN l.runs
      BY <1>6, <2>1, <3>1, <3>3 DEF LogInv, RunsApart
    <3>4. QED BY <1>6, <3>2, <3>3
  <2>2. QED BY <1>5, <2>1 DEF RunsApart
<1>15. RunsShut(c)
  <2>1. ASSUME NEW j \in DOMAIN runs, NEW k \in DOMAIN runs, j < k, runs[j].pid = runs[k].pid
        PROVE  IF runs[j].section.intact THEN ~runs[k].section.intact => runs[j].epoch < runs[k].epoch
               ELSE latest[runs[j].pid] # j
    <3>1. j \in DOMAIN l.runs /\ runs[j] = l.runs[j] /\ l.runs[j].pid \in Pids
      BY <1>6, <2>1, LogParts
    <3>2. CASE k = m
      BY <1>3, <1>6, <1>7, <2>1, <3>1, <3>2
    <3>3. CASE k \in DOMAIN l.runs
      <4>1. IF l.runs[j].section.intact
              THEN ~l.runs[k].section.intact => l.runs[j].epoch < l.runs[k].epoch
            ELSE l.latest[l.runs[j].pid] # j
        BY <1>6, <2>1, <3>1, <3>3 DEF LogInv, RunsShut
      <4>2. QED BY <1>6, <1>7, <3>1, <3>3, <4>1
    <3>4. QED BY <1>6, <3>2, <3>3
  <2>2. QED BY <1>5, <2>1 DEF RunsShut
<1>16. SectionsPlaced(c, T)
  <2>1. ASSUME NEW j \in DOMAIN S
        PROVE  \E k \in DOMAIN runs : Covers(runs[k], S[j]) /\ SameSection(runs[k], S[j])
    <3>1. PICK k \in DOMAIN l.runs : Covers(l.runs[k], S[j]) /\ SameSection(l.runs[k], S[j])
      BY DEF LogInv, SectionsPlaced
    <3>2. QED BY <1>6, <3>1
  <2>2. Covers(runs[m], e) /\ SameSection(runs[m], e)
    BY <1>3, <1>6, <1>9 DEF SameSection
  <2>3. QED BY <1>5, <1>6, <1>8, <2>1, <2>2 DEF SectionsPlaced
<1>17. CopiesCounted(c, T)
  <2>1. ASSUME NEW k \in DOMAIN l.runs PROVE runs[k].count = Cardinality(CoveredBy(runs[k], T))
    <3>1. l.runs[k].count = Cardinality(CoveredBy(l.runs[k], S))
      BY DEF LogInv, CopiesCounted
    <3>2. Cardinality(CoveredBy(l.runs[k], T)) = Cardinality(CoveredBy(l.runs[k], S))
      BY <1>1, <1>2, <1>11, CoveredAppend DEF T
    <3>3. QED BY <1>6, <3>1, <3>2
  <2>2. runs[m].count = Cardinality(CoveredBy(runs[m], T))
    <3>1. CoveredBy(q, S) = {}
      BY <1>9 DEF CoveredBy
    <3>2. Cardinality(CoveredBy(q, T)) = Cardinality(CoveredBy(q, S)) + 1
      BY <1>1, <1>2, <1>9, CoveredAppend DEF T
    <3>3. QED BY <1>3, <1>6, <3>1, <3>2, FS_EmptySet
  <2>3. QED BY <1>5, <1>6, <2>1, <2>2 DEF CopiesCounted
<1>18. \A j \in DOMAIN T : T[j].pos <= e.pos
  <2>1. \A j \in DOMAIN S : S[j].pos <= e.pos
    BY <1>1, LogParts
  <2>2. QED BY <1>1, <1>8, <2>1
<1>19. LogInv(c, T, e.pos)
  BY <1>1, <1>5, <1>8, <1>12, <1>13, <1>14, <1>15, <1>16, <1>17, <1>18 DEF LogInv
<1>20. QED BY <1>19 DEF c, T

\* A section that arrives, in the run that it extends or in a new one.
LEMMA AddKeeps ==
  ASSUME NEW l, NEW S, NEW n, LogInv(l, S, n), NEW e, StartsAfter(S, n, e)
  PROVE  LogInv(AddSection(l, e), Append(S, e), e.pos)
<1> DEFINE d == IF e.section.intact THEN l ELSE Closed(l, e.pid)
<1>1. e \in StartType /\ e.pid \in Pids
  BY DEF StartsAfter, StartType
<1>2. /\ LogInv(d, S, n)
      /\ ~e.section.intact =>
           \A k \in DOMAIN d.runs : d.runs[k].pid = e.pid => d.runs[k].epoch < d.epoch[e.pid]
  BY <1>1, ClosedKeeps
<1>3. AddSection(l, e) = IF ExtendsRun(d, e) # {}
                           THEN Extended(d, CHOOSE i \in ExtendsRun(d, e) : TRUE, e)
                         ELSE NewRun(d, e)
  BY Zenon DEF AddSection
<1> HIDE DEF d
<1>4. CASE ExtendsRun(d, e) # {}
  <2>1. PICK i \in ExtendsRun(d, e) : AddSection(l, e) = Extended(d, i, e)
    BY <1>3, <1>4
  <2>2. QED BY <1>2, <2>1, ExtendedKeeps
<1>5. CASE ExtendsRun(d, e) = {}
  BY <1>2, <1>3, <1>5, NewRunKeeps
<1>6. QED BY <1>4, <1>5

-------------------------------------------------------------------------------
(* PsiLayout: the sections the range starts with.                            *)

\* The PIDs of a PAT are among those of the sections.
LEMMA PidListed ==
  ASSUME NEW b \in BroadcastType, b.contents \in PatTables, NEW p \in Listed(Sections(b))
  PROVE  PmtPid(Sections(b), p) \in Pids
<1> DEFINE table == Sections(b)
           listing == {s \in table : \E e \in s.content : e.program = p}
           head == CHOOSE s \in listing : \A o \in listing : s.number <= o.number
           entry == CHOOSE e \in head.content : e.program = p
<1>1. \A s \in table : s.number \in Nat /\ \E i \in DOMAIN b.contents : s.content = b.contents[i]
  <2>1. \A s \in table : s.number \in Nat
    BY SectionsSay
  <2>2. \A s \in table : \E i \in DOMAIN b.contents : s.content = b.contents[i]
    BY DEF Sections
  <2>3. QED BY <2>1, <2>2
<1>2. listing # {}
  BY DEF Listed
<1> HIDE DEF table
<1>3. \E s \in listing : \A o \in listing : s.number <= o.number
  <2> DEFINE N == {s.number : s \in listing}
  <2>1. N \in SUBSET Nat /\ N # {}
    BY <1>1, <1>2
  <2>2. PICK m \in N : \A k \in N : m <= k
    <3> HIDE DEF N
    <3> QED BY <2>1, LeastNatural
  <2>3. PICK s \in listing : s.number = m
    BY <2>2
  <2>4. \A o \in listing : s.number <= o.number
    BY <2>2, <2>3
  <2>5. QED BY <2>3, <2>4
<1>4. head \in table /\ \E e \in head.content : e.program = p
  <2>1. head \in listing
    BY <1>3
  <2>2. QED BY <2>1
<1>5. PmtPid(table, p) = entry.pid
  BY Zenon DEF PmtPid
<1> HIDE DEF head
<1>6. entry \in head.content
  BY <1>4
<1>7. PICK i \in DOMAIN b.contents : head.content = b.contents[i]
  BY <1>1, <1>4
<1> HIDE DEF entry
<1>8. entry.pid \in UNION {{e.pid : e \in b.contents[j]} : j \in DOMAIN b.contents}
  BY <1>6, <1>7
<1>9. QED BY <1>5, <1>8 DEF Pids, table

\* Every broadcast is on one of the PIDs.
PidsSent == \A t \in Tables : \A k \in DOMAIN sent[t] : sent[t][k].pid \in Pids

\* The first tables are sent on the PIDs of the layout.
LEMMA InitSendsOnPids ==
  ASSUME TrackInit
  PROVE  PidsSent
<1>1. PICK c \in PatTables, f \in [Programs -> UNION {PmtTables[p] : p \in Programs}] :
        /\ Listed(Sections(FirstTable(c, Pat))) = Programs
        /\ sent = [t \in Tables |-> <<IF t = Pat THEN FirstTable(c, Pat)
                     ELSE FirstTable(f[t], PmtPid(Sections(FirstTable(c, Pat)), t))>>]
  BY DEF TrackInit
<1>2. FirstTable(c, Pat) \in BroadcastType /\ FirstTable(c, Pat).contents = c
  <2>1. 0 \in Versions
    BY TrackerAssumption DEF Versions
  <2>2. c \in ContentsType /\ Pat \in PidType
    BY ContentsTyped DEF Pat, PidType
  <2>3. QED BY <2>1, <2>2 DEF FirstTable, BroadcastType
<1>3. Pat \in Pids
  BY DEF Pids
<1>4. ASSUME NEW p \in Programs PROVE PmtPid(Sections(FirstTable(c, Pat)), p) \in Pids
  BY <1>1, <1>2, PidListed
<1>5. ASSUME NEW t \in Tables, NEW k \in DOMAIN sent[t] PROVE sent[t][k].pid \in Pids
  <2>1. CASE t = Pat
    BY <1>1, <1>3, <1>5, <2>1 DEF FirstTable
  <2>2. CASE t # Pat
    <3>1. t \in Programs
      BY <2>2, TablesAre
    <3>2. sent[t] = <<FirstTable(f[t], PmtPid(Sections(FirstTable(c, Pat)), t))>>
      BY <1>1, <2>2
    <3>3. QED BY <1>4, <1>5, <3>1, <3>2 DEF FirstTable
  <2>3. QED BY <2>1, <2>2
<1>6. QED BY <1>5 DEF PidsSent

\* One more broadcast, on one of the PIDs.
LEMMA SendsOn ==
  ASSUME NEW B \in SentType, \A k \in DOMAIN B : B[k].pid \in Pids,
         NEW b \in BroadcastType, b.pid \in Pids
  PROVE  \A k \in DOMAIN Append(B, b) : Append(B, b)[k].pid \in Pids
<1> HIDE DEF SentType, BroadcastType
<1> QED BY AppendIs

\* So is every table that is broadcast afterwards.
LEMMA NextSendsOnPids ==
  ASSUME TrackerTypes, PidsSent, ChangePat \/ \E p \in Programs : ChangePmt(p)
  PROVE  PidsSent'
<1>1. CASE ChangePat
  <2>1. PICK c \in PatTables : \E pmts : PatChanges(PatOf(c), pmts)
    BY <1>1, ChangePatIs
  <2>2. PICK pmts : PatChanges(PatOf(c), pmts)
    BY <2>1
  <2> DEFINE b == PatOf(c)
  <2>3. b.contents = c /\ b.pid = Pat /\ Pat \in Pids
    BY DEF PatOf, Pids
  <2> HIDE DEF b
  <2>4. /\ b \in BroadcastType
        /\ \A p \in Moves(b) : MovedTo(b, p, pmts[p]) \in BroadcastType
    BY <2>2, ChangePatTyped DEF b
  <2>5. sent' = [t \in Tables |-> IF t = Pat THEN Append(sent[t], b)
                                  ELSE IF t \in Moves(b) THEN Append(sent[t], MovedTo(b, t, pmts[t]))
                                  ELSE sent[t]]
    BY <2>2 DEF PatChanges, b
  <2>6. \A p \in Moves(b) : MovedTo(b, p, pmts[p]).pid \in Pids
    BY <2>3, <2>4, PidListed DEF Moves, MovedTo
  <2>7. ASSUME NEW t \in Tables PROVE \A k \in DOMAIN sent'[t] : sent'[t][k].pid \in Pids
    <3>1. sent[t] \in SentType /\ \A k \in DOMAIN sent[t] : sent[t][k].pid \in Pids
      BY DEF TrackerTypes, PidsSent
    <3>2. CASE t = Pat
      <4>1. sent'[t] = Append(sent[t], b)
        BY <2>5, <3>2
      <4>2. QED BY <2>3, <2>4, <3>1, <4>1, SendsOn
    <3>3. CASE t # Pat /\ t \in Moves(b)
      <4>1. sent'[t] = Append(sent[t], MovedTo(b, t, pmts[t]))
        BY <2>5, <3>3
      <4>2. QED BY <2>4, <2>6, <3>1, <3>3, <4>1, SendsOn
    <3>4. CASE t # Pat /\ t \notin Moves(b)
      BY <2>5, <3>1, <3>4
    <3>5. QED BY <3>2, <3>3, <3>4
  <2>8. QED BY <2>7 DEF PidsSent
<1>2. ASSUME NEW p \in Programs, ChangePmt(p) PROVE PidsSent'
  <2>1. PICK c \in PmtTables[p] :
          sent' = [sent EXCEPT ![p] = Append(@, [version |-> NextVersion(p), contents |-> c,
                                                 pid |-> Current(p).pid])]
    BY <1>2 DEF ChangePmt
  <2> DEFINE b == [version |-> NextVersion(p), contents |-> c, pid |-> Current(p).pid]
  <2>2. p \in Tables /\ Current(p).pid \in PidType /\ Current(p).pid \in Pids
    BY TablesAre, CurrentTyped DEF BroadcastType, PidsSent, Current
  <2>3. b \in BroadcastType /\ b.pid \in Pids
    BY <2>2, ContentsTyped, NextVersionTyped DEF BroadcastType
  <2>4. sent[p] \in SentType /\ \A k \in DOMAIN sent[p] : sent[p][k].pid \in Pids
    BY <2>2 DEF TrackerTypes, PidsSent
  <2>5. sent' = [sent EXCEPT ![p] = Append(sent[p], b)] /\ sent \in [Tables -> SentType]
    BY <2>1 DEF TrackerTypes
  <2> HIDE DEF b, SentType
  <2>6. \A k \in DOMAIN Append(sent[p], b) : Append(sent[p], b)[k].pid \in Pids
    BY <2>3, <2>4, SendsOn
  <2>7. QED BY <2>2, <2>5, <2>6 DEF PidsSent
<1>3. QED BY <1>1, <1>2

\* The greatest of a set that has one.
LEMMA MaxIs ==
  ASSUME NEW s \in SUBSET Nat, NEW m \in s, \A x \in s : x <= m
  PROVE  Max(s) = m
<1>1. \A x \in s : (\A y \in s : x >= y) => x = m
  OBVIOUS
<1>2. \A y \in s : m >= y
  OBVIOUS
<1>3. QED BY <1>1, <1>2 DEF Max

\* The logs that the fold over a sequence is made of.
FoldsLog(h, S, D) ==
  h = [s \in SUBSET D |-> IF s = {} THEN NoLog ELSE AddSection(h[s \ {Max(s)}], S[Max(s)])]

\* The log of the first n sections, for each n.
LEMMA LogFolds ==
  ASSUME NEW S, NEW N \in Nat
  PROVE  \E h : FoldsLog(h, S, 1 .. N)
<1> DEFINE Q == {n \in Nat : \E h : FoldsLog(h, S, 1 .. n)}
<1>1. 0 \in Q
  <2> DEFINE h == [s \in SUBSET (1 .. 0) |-> NoLog]
  <2>1. \A s \in SUBSET (1 .. 0) : s = {}
    OBVIOUS
  <2>2. h = [s \in SUBSET (1 .. 0) |-> IF s = {} THEN NoLog ELSE AddSection(h[s \ {Max(s)}], S[Max(s)])]
    BY <2>1
  <2> HIDE DEF h
  <2>3. FoldsLog(h, S, 1 .. 0)
    BY <2>2 DEF FoldsLog
  <2>4. QED BY <2>3
<1>2. ASSUME NEW n \in Nat, n \in Q PROVE n + 1 \in Q
  <2>1. PICK h : FoldsLog(h, S, 1 .. n)
    BY <1>2
  <2> DEFINE g == [s \in SUBSET (1 .. n + 1) |->
                     IF n + 1 \in s THEN AddSection(h[s \ {n + 1}], S[n + 1]) ELSE h[s]]
             k == [s \in SUBSET (1 .. n + 1) |->
                     IF s = {} THEN NoLog ELSE AddSection(g[s \ {Max(s)}], S[Max(s)])]
  <2>2. \A s \in SUBSET (1 .. n) : g[s] = h[s] /\ s \in SUBSET (1 .. n + 1)
    OBVIOUS
  <2>3. ASSUME NEW s \in SUBSET (1 .. n + 1) PROVE g[s] = k[s]
    <3>1. CASE n + 1 \in s
      <4>1. Max(s) = n + 1
        <5>1. s \in SUBSET Nat /\ \A x \in s : x <= n + 1
          OBVIOUS
        <5>2. QED BY <3>1, <5>1, MaxIs
      <4>2. s \ {n + 1} \in SUBSET (1 .. n)
        OBVIOUS
      <4>3. g[s] = AddSection(h[s \ {n + 1}], S[n + 1])
        BY <3>1
      <4>4. k[s] = AddSection(g[s \ {Max(s)}], S[Max(s)])
        BY <3>1
      <4> HIDE DEF g, k
      <4>5. QED BY <2>2, <4>1, <4>2, <4>3, <4>4
    <3>2. CASE n + 1 \notin s
      <4>1. s \in SUBSET (1 .. n) /\ s \ {Max(s)} \in SUBSET (1 .. n)
        <5>1. \A x \in s : x \in 1 .. n + 1 /\ x # n + 1
          BY <3>2
        <5>2. \A x \in s : x \in 1 .. n
          BY <5>1
        <5>3. QED BY <5>2
      <4>2. h[s] = IF s = {} THEN NoLog ELSE AddSection(h[s \ {Max(s)}], S[Max(s)])
        BY <2>1, <4>1 DEF FoldsLog
      <4>3. k[s] = IF s = {} THEN NoLog ELSE AddSection(g[s \ {Max(s)}], S[Max(s)])
        OBVIOUS
      <4> HIDE DEF g, k
      <4>4. g[s] = h[s] /\ g[s \ {Max(s)}] = h[s \ {Max(s)}]
        BY <2>2, <4>1
      <4>5. QED BY <4>2, <4>3, <4>4
    <3>3. QED BY <3>1, <3>2
  <2>4. g = k
    <3>1. DOMAIN g = SUBSET (1 .. n + 1) /\ DOMAIN k = SUBSET (1 .. n + 1)
      OBVIOUS
    <3>2. g = [s \in DOMAIN g |-> g[s]] /\ k = [s \in DOMAIN k |-> k[s]]
      OBVIOUS
    <3> HIDE DEF g, k
    <3>3. QED BY <2>3, <3>1, <3>2
  <2> HIDE DEF g
  <2>5. FoldsLog(g, S, 1 .. n + 1)
    BY <2>4 DEF FoldsLog
  <2>6. QED BY <2>5
<1>3. \A n \in Nat : n \in Q
  <2> HIDE DEF Q
  <2> QED BY <1>1, <1>2, SetInduction
<1>4. QED BY <1>3

\* A log is what one with a section less was, and that section.
LEMMA LogFolded ==
  ASSUME NEW S, NEW N \in Nat, DOMAIN S = 1 .. N
  PROVE  \E h : /\ FoldLeft(AddSection, NoLog, S) = h[N]
                /\ h[0] = NoLog /\ \A n \in 1 .. N : h[n] = AddSection(h[n - 1], S[n])
<1> DEFINE g == CHOOSE h : FoldsLog(h, S, DOMAIN S)
           f == [n \in 0 .. N |-> g[1 .. n]]
<1>1. FoldLeft(AddSection, NoLog, S) = g[DOMAIN S]
  BY DEF FoldLeft, MapThenFoldSet, FoldsLog
<1>2. FoldsLog(g, S, 1 .. N)
  BY LogFolds
<1> HIDE DEF g
<1>3. g[1 .. 0] = NoLog
  <2>1. 1 .. 0 = {}
    OBVIOUS
  <2>2. QED BY <1>2, <2>1 DEF FoldsLog
<1>4. ASSUME NEW n \in 1 .. N PROVE g[1 .. n] = AddSection(g[1 .. n - 1], S[n])
  <2>1. 1 .. n \in SUBSET (1 .. N) /\ 1 .. n # {} /\ (1 .. n) \ {n} = 1 .. n - 1
    <3>1. n \in Nat /\ n <= N /\ n \in 1 .. n
      OBVIOUS
    <3>2. \A i \in 1 .. n : i \in 1 .. N /\ (i # n => i \in 1 .. n - 1)
      BY <3>1
    <3>3. \A i \in 1 .. n - 1 : i \in 1 .. n /\ i # n
      BY <3>1
    <3>4. QED BY <3>1, <3>2, <3>3
  <2>2. Max(1 .. n) = n
    <3>1. 1 .. n \in SUBSET Nat /\ n \in 1 .. n /\ \A x \in 1 .. n : x <= n
      OBVIOUS
    <3>2. QED BY <3>1, MaxIs
  <2>3. g[1 .. n] = AddSection(g[(1 .. n) \ {Max(1 .. n)}], S[Max(1 .. n)])
    BY <1>2, <2>1 DEF FoldsLog
  <2>4. QED BY <2>1, <2>2, <2>3
<1>5. /\ f[0] = g[1 .. 0] /\ f[N] = g[1 .. N]
      /\ \A n \in 1 .. N : f[n] = g[1 .. n] /\ f[n - 1] = g[1 .. n - 1]
  OBVIOUS
<1> HIDE DEF f
<1>6. QED BY <1>1, <1>3, <1>4, <1>5

\* The sections the range starts with, one in each packet.
LEMMA FirstSectionsTyped ==
  ASSUME TrackerTypes, PidsSent
  PROVE  /\ FirstSections \in Seq(StartType)
         /\ \A n \in DOMAIN FirstSections : FirstSections[n].pos = n
<1> DEFINE Listing == [of : Tables, section : SectionType]
           ofTable(t) == [i \in DOMAIN Current(t).contents |->
                            [of |-> t, section |-> CHOOSE s \in Sections(Current(t)) : s.number = i - 1]]
           order == <<Pat>> \o ProgramOrder
           N == Len(order)
           f == [k \in 1 .. N |-> ofTable(order[k])]
           listed == FlattenSeq([k \in 1 .. N |-> ofTable(order[k])])
<1>1. N \in Nat /\ \A k \in 1 .. N : order[k] \in Tables
  <2>1. ProgramOrder \in Seq(Tables)
    BY TrackerAssumption, TablesAre DEF Programs, Range
  <2>2. <<Pat>> \in Seq(Tables)
    BY TablesAre
  <2>3. order \in Seq(Tables)
    BY <2>1, <2>2
  <2> HIDE DEF order
  <2>4. QED BY <2>3
<1>2. ASSUME NEW t \in Tables PROVE ofTable(t) \in Seq(Listing)
  <2> DEFINE b == Current(t)
  <2>1. b \in BroadcastType
    BY CurrentTyped
  <2> HIDE DEF b
  <2>2. /\ Len(b.contents) \in Nat /\ DOMAIN b.contents = 1 .. Len(b.contents)
        /\ Sections(b) \subseteq SectionType
    BY <2>1, LengthTyped, SectionsTyped DEF TableType
  <2>3. ASSUME NEW i \in 1 .. Len(b.contents)
        PROVE  (CHOOSE s \in Sections(b) : s.number = i - 1) \in SectionType
    <3>1. SectionAt(b, i) \in Sections(b) /\ SectionAt(b, i).number = i - 1
      BY <2>2 DEF Sections, SectionAt
    <3>2. QED BY <2>2, <3>1
  <2> DEFINE c == [i \in DOMAIN b.contents |->
                     [of |-> t, section |-> CHOOSE s \in Sections(b) : s.number = i - 1]]
  <2>4. c \in [1 .. Len(b.contents) -> Listing]
    BY <2>2, <2>3
  <2> HIDE DEF c, Listing
  <2>5. c \in Seq(Listing)
    BY <2>2, <2>4
  <2>6. QED BY <2>5 DEF b, c
<1> HIDE DEF order, ofTable, Listing, N
<1>3. f \in [1 .. N -> Seq(Listing)] /\ N \in 0 .. N
  BY <1>1, <1>2
<1>4. [k \in 1 .. N |-> f[k]] = [k \in 1 .. N |-> ofTable(order[k])]
  OBVIOUS
<1> HIDE DEF f
<1>5. listed \in Seq(Listing)
  BY <1>1, <1>3, <1>4, FlattenStep
<1>6. FirstSections = [n \in DOMAIN listed |->
                         Start(Current(listed[n].of).pid, listed[n].of, listed[n].section, n)]
  BY Zenon DEF FirstSections, ofTable, order, N
<1> HIDE DEF listed
<1>7. /\ Len(listed) \in Nat /\ DOMAIN listed = 1 .. Len(listed)
      /\ \A n \in DOMAIN listed : listed[n] \in Listing
  BY <1>5
<1>8. ASSUME NEW n \in DOMAIN listed
      PROVE  Start(Current(listed[n].of).pid, listed[n].of, listed[n].section, n) \in StartType
  <2>1. listed[n].of \in Tables /\ listed[n].section \in SectionType /\ n \in Nat \ {0}
    BY <1>7 DEF Listing
  <2>2. Current(listed[n].of).pid \in Pids
    BY <2>1, CurrentTyped DEF PidsSent, Current
  <2>3. QED BY <2>1, <2>2 DEF Start, StartType
<1>9. FirstSections \in Seq(StartType)
  <2> HIDE DEF StartType
  <2> QED BY <1>6, <1>7, <1>8
<1>10. \A n \in DOMAIN FirstSections : FirstSections[n].pos = n
  BY <1>6 DEF Start
<1>11. QED BY <1>9, <1>10

\* The log of a range that starts.
LEMMA InitEstablishesLogInv ==
  ASSUME LayoutInit
  PROVE  LogInv(log, starts, at)
<1>1. /\ starts = FirstSections /\ at = Len(starts) /\ log = FoldLeft(AddSection, NoLog, starts)
      /\ TrackerTypes /\ PidsSent
  BY InitTyped, InitSendsOnPids DEF LayoutInit
<1> DEFINE N == Len(starts)
<1>2. starts \in Seq(StartType) /\ \A n \in DOMAIN starts : starts[n].pos = n
  BY <1>1, FirstSectionsTyped
<1>3. N \in Nat /\ DOMAIN starts = 1 .. N /\ \A n \in 1 .. N : starts[n] \in StartType
  <2> HIDE DEF StartType
  <2> QED BY <1>2
<1>4. PICK h : /\ FoldLeft(AddSection, NoLog, starts) = h[N]
               /\ h[0] = NoLog /\ \A n \in 1 .. N : h[n] = AddSection(h[n - 1], starts[n])
  BY <1>3, LogFolded
<1> DEFINE before(n) == [i \in 1 .. n |-> starts[i]]
           Q == {n \in Nat : n <= N => LogInv(h[n], before(n), n)}
<1>5. 0 \in Q
  <2>1. before(0) = <<>> /\ DOMAIN NoLog.runs = {} /\ NoLog.latest = [pid \in Pids |-> 0]
    BY DEF NoLog
  <2>2. NoLog \in LogType
    <3>1. NoLog.runs \in Seq(LoggedRun)
      <4> HIDE DEF LoggedRun
      <4> QED BY DEF NoLog
    <3>2. QED BY <3>1 DEF NoLog, LogType
  <2>3. <<>> \in Seq(StartType) /\ DOMAIN <<>> = {}
    OBVIOUS
  <2>4. LogInv(NoLog, <<>>, 0)
    <3>1. LatestOK(NoLog)
      BY <2>1 DEF LatestOK
    <3>2. QED BY <2>1, <2>2, <2>3, <3>1
            DEF LogInv, RunsOK, RunsApart, RunsShut, SectionsPlaced, CopiesCounted
  <2>5. QED BY <1>4, <2>1, <2>4
<1>6. ASSUME NEW n \in Nat, n \in Q PROVE n + 1 \in Q
  <2> SUFFICES ASSUME n + 1 <= N PROVE LogInv(h[n + 1], before(n + 1), n + 1)
    OBVIOUS
  <2>1. LogInv(h[n], before(n), n) /\ n + 1 \in 1 .. N /\ (n + 1) - 1 = n
    BY <1>3, <1>6
  <2> DEFINE e == starts[n + 1]
  <2>2. e \in StartType /\ e.pos = n + 1
    BY <1>2, <1>3, <2>1
  <2>3. h[n + 1] = AddSection(h[n], e)
    BY <1>4, <2>1
  <2>4. before(n + 1) = Append(before(n), e)
    <3>1. before(n) \in Seq(StartType) /\ Len(before(n)) = n
      <4> HIDE DEF StartType
      <4> QED BY <1>3, <2>1
    <3>2. \A i \in 1 .. n + 1 : before(n + 1)[i] = Append(before(n), e)[i]
      OBVIOUS
    <3>3. QED BY <3>1, <3>2
  <2> HIDE DEF before, e
  <2>5. StartsAfter(before(n), n, e)
    BY <2>2 DEF StartsAfter
  <2>6. LogInv(AddSection(h[n], e), Append(before(n), e), e.pos)
    BY <2>1, <2>5, AddKeeps
  <2>7. QED BY <2>2, <2>3, <2>4, <2>6
<1>7. N \in Q
  <2> HIDE DEF Q, N
  <2>1. \A n \in Nat : n \in Q
    BY <1>5, <1>6, SetInduction
  <2>2. QED BY <1>3, <2>1
<1>8. before(N) = starts
  <2> HIDE DEF StartType
  <2> QED BY <1>2, <1>3
<1>9. LogInv(h[N], before(N), N)
  BY <1>3, <1>7
<1> HIDE DEF before
<1>10. QED BY <1>1, <1>4, <1>8, <1>9

-------------------------------------------------------------------------------
(* PsiLayout: its steps.                                                     *)

\* A section that is read and logged.
SectionLogged(t, pid, s) ==
  /\ Received(t, pid, s) /\ UNCHANGED sent /\ NoteApplied
  /\ OnlyToCurrent
  /\ Logged(t, pid, s)

\* The tracker's step, and what the recorder sees of it.
LEMMA LayoutSteps ==
  ASSUME OrderlyInv, PidsSent, LayoutNext
  PROVE  /\ OrderlyInv'
         /\ \/ (ChangePat \/ \E p \in Programs : ChangePmt(p)) /\ UNCHANGED layoutVars
            \/ \E t \in Tables, pid \in Pids \cap PidType, s \in SectionType : SectionLogged(t, pid, s)
            \/ \E pid \in Pids : NothingLogged(pid)
<1>0. TrackerTypes
  BY DEF OrderlyInv, TrackerInv
<1>1. CASE (ChangePat \/ \E p \in Programs : ChangePmt(p)) /\ UNCHANGED layoutVars
  <2>1. TrackNext
    BY <1>1 DEF TrackNext
  <2>2. QED BY <1>1, <2>1, NextKeepsOrderlyInv
<1>2. ASSUME NEW t \in Tables, NEW s \in Sections(Current(t)),
             CurrentArrives(t, s), Logged(t, Current(t).pid, s)
      PROVE  OrderlyInv' /\ \E pid \in Pids \cap PidType, x \in SectionType : SectionLogged(t, pid, x)
  <2>1. OrderlyInv' /\ OnlyToCurrent
    BY <1>2, TablesAre, CurrentPatStep, CurrentPmtStep
  <2>2. Current(t) \in BroadcastType /\ Current(t).pid \in Pids /\ Current(t).pid \in PidType
    BY <1>0, CurrentTyped DEF PidsSent, Current, BroadcastType
  <2>3. s \in SectionType
    BY <2>2, SectionsTyped DEF TableType
  <2>4. SectionLogged(t, Current(t).pid, s)
    BY <1>2, <2>1 DEF SectionLogged, CurrentArrives
  <2>5. QED BY <2>1, <2>2, <2>3, <2>4
<1>3. ASSUME NEW t \in Tables, NEW s \in SectionType, ~Usable(s), UnusableLogged(t, s)
      PROVE  OrderlyInv' /\ \E pid \in Pids \cap PidType, x \in SectionType : SectionLogged(t, pid, x)
  <2>1. /\ Received(t, Current(t).pid, s) /\ UNCHANGED sent /\ UNCHANGED heard /\ NoteApplied
        /\ Logged(t, Current(t).pid, s)
    BY <1>3 DEF UnusableLogged
  <2>2. OrderlyInv' /\ OnlyToCurrent
    BY <1>3, <2>1, UnusableReceived
  <2>3. Current(t).pid \in Pids /\ Current(t).pid \in PidType
    BY <1>0, CurrentTyped DEF PidsSent, Current, BroadcastType
  <2>4. SectionLogged(t, Current(t).pid, s)
    BY <2>1, <2>2 DEF SectionLogged
  <2>5. QED BY <2>2, <2>3, <2>4
<1>4. ASSUME NEW t \in Tables, NEW k \in Late(t), NEW s \in Sections(sent[t][k]),
             LateArrives(t, k, s), Logged(t, sent[t][k].pid, s)
      PROVE  OrderlyInv' /\ \E pid \in Pids \cap PidType, x \in SectionType : SectionLogged(t, pid, x)
  <2>1. OrderlyInv' /\ OnlyToCurrent
    BY <1>4, TablesAre, LatePatStep, LatePmtStep
  <2>2. k \in DOMAIN sent[t]
    BY <1>0, CurrentTyped DEF Late
  <2>3. sent[t][k] \in BroadcastType /\ sent[t][k].pid \in Pids /\ sent[t][k].pid \in PidType
    BY <1>0, <2>2, CurrentTyped DEF PidsSent, BroadcastType
  <2>4. s \in SectionType
    BY <2>3, SectionsTyped DEF TableType
  <2>5. SectionLogged(t, sent[t][k].pid, s)
    BY <1>4, <2>1 DEF SectionLogged, LateArrives
  <2>6. QED BY <2>1, <2>3, <2>4, <2>5
<1>5. ASSUME NEW pid \in Pids, NothingLogged(pid) PROVE OrderlyInv'
  <2>1. UNCHANGED trackVars
    BY <1>5 DEF NothingLogged
  <2>2. \A t \in Tables : ReceiverInv(t)'
    BY <2>1 DEF OrderlyInv, ReceiverInv, Receiver, trackVars
  <2>3. SentAsListed'
    BY <2>1 DEF OrderlyInv, SentAsListed, Current, trackVars
  <2>4. TrackerInv'
    BY <2>1 DEF OrderlyInv, TrackerInv, TrackerTypes, Listens, trackVars
  <2>5. QED BY <2>1, <2>2, <2>3, <2>4 DEF OrderlyInv, trackVars
<1>6. ASSUME NEW t \in Tables, NEW s \in Sections(Current(t))
      PROVE  LET ahead == [s EXCEPT !.current = FALSE]
                 damaged == [s EXCEPT !.intact = FALSE]
             IN ahead \in SectionType /\ ~Usable(ahead) /\ damaged \in SectionType /\ ~Usable(damaged)
  <2>1. s \in SectionType
    BY <1>0, CurrentTyped, SectionsTyped DEF TableType
  <2>2. QED BY <2>1 DEF SectionType, Usable
<1>7. ASSUME NEW t \in Tables, NEW s \in Sections(Current(t)),
             \/ UnusableLogged(t, [s EXCEPT !.current = FALSE])
             \/ UnusableLogged(t, [s EXCEPT !.intact = FALSE])
      PROVE  OrderlyInv' /\ \E pid \in Pids \cap PidType, x \in SectionType : SectionLogged(t, pid, x)
  BY <1>3, <1>6, <1>7
<1>8. QED BY <1>1, <1>2, <1>4, <1>5, <1>7 DEF LayoutNext

\* The log after a section, and where it started.
LEMMA LoggedKeepsLogInv ==
  ASSUME LogInv(log, starts, at), NEW t \in Tables, NEW pid \in Pids, NEW s \in SectionType,
         Logged(t, pid, s)
  PROVE  LogInv(log, starts, at)' /\ at' \in Nat \ {0} /\ at <= at' /\ Recorded(t, pid, at')
<1>1. PICK place \in {at, at + 1} :
        LET e == Start(pid, t, s, place) IN
        /\ MayStart(pid, t, s, place) /\ at' = place /\ log' = AddSection(log, e)
        /\ starts' = Append(starts, e) /\ Recorded(t, pid, place)
  BY DEF Logged
<1> DEFINE e == Start(pid, t, s, place)
<1>2. e.pos = place /\ e.pid = pid /\ e.table = t /\ e.section = s
  BY DEF Start
<1>3. at \in Nat /\ \A i \in DOMAIN starts : starts[i].pos \in Nat \ {0}
  BY LogParts DEF StartType
<1>4. /\ place \in Nat \ {0}
      /\ \/ place = at + 1
         \/ place = at /\ \A i \in DOMAIN starts : starts[i].pos = at => Header(starts[i]) # Header(e)
  <2>1. CASE place = at + 1
    BY <1>3, <2>1
  <2>2. CASE place # at + 1
    <3>1. /\ place = at
          /\ \E i \in DOMAIN starts : starts[i].pos = at
          /\ \A i \in DOMAIN starts : starts[i].pos = at => Header(starts[i]) # Header(e)
      BY <1>1, <2>2 DEF MayStart
    <3>2. QED BY <1>3, <3>1
  <2>3. QED BY <2>1, <2>2
<1>5. e = [pid |-> pid, table |-> t, section |-> s, pos |-> place]
  BY DEF Start
<1>6. e \in StartType
  <2> HIDE DEF e
  <2> QED BY <1>4, <1>5 DEF StartType
<1>7. at' = place /\ log' = AddSection(log, e) /\ starts' = Append(starts, e) /\ Recorded(t, pid, place)
  BY <1>1
<1> HIDE DEF e
<1>8. StartsAfter(starts, at, e)
  BY <1>2, <1>4, <1>6 DEF StartsAfter
<1>9. LogInv(AddSection(log, e), Append(starts, e), e.pos)
  BY <1>8, AddKeeps
<1>10. LogInv(log', starts', at')
  BY <1>2, <1>7, <1>9
<1>11. at <= at'
  BY <1>3, <1>4, <1>7
<1>12. Recorded(t, pid, at')
  BY <1>7
<1>13. QED BY <1>4, <1>7, <1>10, <1>11, <1>12

\* And after a packet without one.
LEMMA NothingKeepsLogInv ==
  ASSUME LogInv(log, starts, at), NEW pid \in Pids, NothingLogged(pid)
  PROVE  LogInv(log, starts, at)'
<1>1. /\ at' = at + 1 /\ starts' = starts
      /\ log' = Interrupted(Closed(log, pid), pid) \/ log' = Interrupted(log, pid)
  BY DEF NothingLogged
<1>2. LogInv(log', starts, at)
  BY <1>1, ClosedKeeps, InterruptedKeeps
<1>3. at \in Nat /\ \A i \in DOMAIN starts : starts[i].pos \in Nat /\ starts[i].pos <= at
  BY LogParts
<1>4. LogInv(log', starts, at + 1)
  BY <1>2, <1>3 DEF LogInv
<1>5. QED BY <1>1, <1>4

\* A section changes no other table, and without changing its own, the programs keep
\* what is told of them.
LEMMA OnlyItsTable ==
  ASSUME OrderlyInv, NEW t \in Tables, NEW pid \in PidType, NEW s \in SectionType,
         Received(t, pid, s), OnlyToCurrent
  PROVE  \A o \in Tables : o # t => Applied(o)' = Applied(o)
<1>0. TrackerTypes
  BY DEF OrderlyInv, TrackerInv
<1>1. CASE t = Pat
  <2>1. ObservePat(s)
    BY <1>1 DEF Received
  <2>2. Receiver(Pat)'.table \in {pat.table, Sections(Current(Pat))}
    BY TablesAre, AppliedIs DEF OnlyToCurrent, Applied
  <2>3. \A p \in Programs : followed'[p].table = followed[p].table
    BY <2>1, <2>2, PatLeaves
  <2>4. QED BY <1>1, <2>3, TablesAre DEF Applied
<1>2. CASE t # Pat
  <2>1. t \in Programs /\ ObservePmt(t, pid, s)
    BY <1>2, TablesAre DEF Received
  <2>2. pat' = pat /\ \A q \in Programs : q # t => followed'[q] = followed[q]
    BY <1>0, <2>1, PmtStep
  <2>3. QED BY <2>2, TablesAre DEF Applied
<1>3. QED BY <1>1, <1>2

\* What was sent remains.
SentRemains ==
  \A t \in Tables : \A k \in DOMAIN sent[t] : k \in DOMAIN sent'[t] /\ sent'[t][k] = sent[t][k]

\* The sender only appends to what was sent.
LEMMA SenderAppends ==
  ASSUME TrackerTypes, ChangePat \/ \E p \in Programs : ChangePmt(p)
  PROVE  SentRemains
<1>0. ASSUME NEW B \in SentType, NEW b, NEW k \in DOMAIN B
      PROVE  k \in DOMAIN Append(B, b) /\ Append(B, b)[k] = B[k]
  <2> HIDE DEF BroadcastType
  <2> QED BY <1>0 DEF SentType
<1>1. CASE ChangePat
  <2>1. PICK c \in PatTables : \E pmts : PatChanges(PatOf(c), pmts)
    BY <1>1, ChangePatIs
  <2>2. PICK pmts : PatChanges(PatOf(c), pmts)
    BY <2>1
  <2> DEFINE b == PatOf(c)
  <2>3. sent' = [t \in Tables |-> IF t = Pat THEN Append(sent[t], b)
                                  ELSE IF t \in Moves(b) THEN Append(sent[t], MovedTo(b, t, pmts[t]))
                                  ELSE sent[t]]
    BY <2>2 DEF PatChanges
  <2> HIDE DEF b
  <2>4. \A t \in Tables : sent[t] \in SentType /\ (sent'[t] = sent[t] \/ \E x : sent'[t] = Append(sent[t], x))
    BY <2>3 DEF TrackerTypes
  <2>5. QED BY <1>0, <2>4 DEF SentRemains
<1>2. ASSUME NEW p \in Programs, ChangePmt(p) PROVE SentRemains
  <2>1. PICK c : sent' = [sent EXCEPT ![p] = Append(@, c)]
    BY <1>2 DEF ChangePmt
  <2>2. sent \in [Tables -> SentType]
    BY DEF TrackerTypes
  <2>3. \A t \in Tables : sent[t] \in SentType /\ (sent'[t] = sent[t] \/ sent'[t] = Append(sent[t], c))
    <3> HIDE DEF SentType
    <3> QED BY <2>1, <2>2
  <2>4. QED BY <1>0, <2>3 DEF SentRemains
<1>3. QED BY <1>1, <1>2

\* Changes, in the order of the packets that completed them.
TransitionType == [of : Tables, pid : Pids, table : TableType, pos : Nat \ {0}]

\* They are of packets that were read.
TransitionsInv ==
  /\ transitions \in Seq(TransitionType)
  /\ \A i \in DOMAIN transitions : transitions[i].pos <= at
  /\ \A i, j \in DOMAIN transitions : i < j => transitions[i].pos <= transitions[j].pos

\* The tables that the report has of t are those that were applied.
UsesInv ==
  \A t \in Tables :
    /\ applied[t] \subseteq DOMAIN sent[t]
    /\ {a.table : a \in Uses(t)} = {Sections(sent[t][k]) : k \in applied[t]}
    /\ Applied(t) \in {a.table : a \in Uses(t)}

\* What a change is recorded as.
LEMMA RecordedIs ==
  ASSUME transitions \in Seq(TransitionType), NEW t \in Tables, NEW pid \in Pids,
         NEW place \in Nat \ {0}, Recorded(t, pid, place), Applied(t)' \in TableType
  PROVE  LET tr == [of |-> t, pid |-> pid, table |-> Applied(t)', pos |-> place]
             N  == Len(transitions)
         IN /\ N \in Nat /\ DOMAIN transitions = 1 .. N
            /\ transitions' \in Seq(TransitionType)
            /\ \/ Applied(t)' = Applied(t) /\ transitions' = transitions
               \/ /\ Applied(t)' # Applied(t)
                  /\ Len(transitions') = N + 1 /\ DOMAIN transitions' = 1 .. N + 1
                  /\ transitions'[N + 1] = tr
                  /\ \A i \in 1 .. N : transitions'[i] = transitions[i]
<1> DEFINE table == Applied(t)'
           tr == [of |-> t, pid |-> pid, table |-> table, pos |-> place]
<1>1. transitions' = IF table = Applied(t) THEN transitions ELSE Append(transitions, tr)
  BY DEF Recorded
<1> HIDE DEF table
<1>2. tr \in TransitionType
  BY DEF TransitionType, table
<1> HIDE DEF TransitionType, tr
<1>3. CASE table = Applied(t)
  BY <1>1, <1>3 DEF table
<1>4. CASE table # Applied(t)
  <2>1. transitions' = Append(transitions, tr)
    BY <1>1, <1>4
  <2>2. /\ Append(transitions, tr) \in Seq(TransitionType)
        /\ Len(Append(transitions, tr)) = Len(transitions) + 1
        /\ Append(transitions, tr)[Len(transitions) + 1] = tr
        /\ \A i \in 1 .. Len(transitions) : Append(transitions, tr)[i] = transitions[i]
        /\ Len(transitions) \in Nat /\ DOMAIN transitions = 1 .. Len(transitions)
        /\ DOMAIN Append(transitions, tr) = 1 .. Len(transitions) + 1
    BY <1>2
  <2>3. QED BY <1>4, <2>1, <2>2 DEF table, tr
<1>5. QED BY <1>3, <1>4, SMTT(40)

\* A section that is applied is recorded as a change after the others.
LEMMA TransitionsKept ==
  ASSUME TransitionsInv, NEW t \in Tables, NEW pid \in Pids, at \in Nat, at' \in Nat \ {0}, at <= at',
         Recorded(t, pid, at'), Applied(t)' \in TableType
  PROVE  TransitionsInv'
<1> DEFINE N == Len(transitions)
<1>1. /\ N \in Nat /\ DOMAIN transitions = 1 .. N /\ transitions' \in Seq(TransitionType)
      /\ \/ transitions' = transitions
         \/ /\ DOMAIN transitions' = 1 .. N + 1
            /\ transitions'[N + 1].pos = at'
            /\ \A i \in 1 .. N : transitions'[i] = transitions[i]
  <2> DEFINE tr == [of |-> t, pid |-> pid, table |-> Applied(t)', pos |-> at']
  <2>1. tr.pos = at' /\ transitions \in Seq(TransitionType)
    BY DEF TransitionsInv
  <2> HIDE DEF TransitionType
  <2>2. /\ N \in Nat /\ DOMAIN transitions = 1 .. N /\ transitions' \in Seq(TransitionType)
        /\ \/ transitions' = transitions
           \/ /\ DOMAIN transitions' = 1 .. N + 1 /\ transitions'[N + 1] = tr
              /\ \A i \in 1 .. N : transitions'[i] = transitions[i]
    BY <2>1, RecordedIs
  <2> HIDE DEF tr
  <2>3. QED BY <2>1, <2>2
<1>2. \A i \in 1 .. N : transitions[i].pos \in Nat /\ transitions[i].pos <= at
  <2>1. \A i \in 1 .. N : transitions[i] \in TransitionType
    <3> HIDE DEF TransitionType
    <3> QED BY <1>1 DEF TransitionsInv
  <2>2. QED BY <1>1, <2>1 DEF TransitionsInv, TransitionType
<1>3. CASE transitions' = transitions
  <2>1. \A i \in DOMAIN transitions' : transitions'[i].pos <= at'
    BY <1>1, <1>2, <1>3
  <2> HIDE DEF TransitionType
  <2>2. QED BY <1>1, <1>3, <2>1 DEF TransitionsInv
<1>4. CASE /\ DOMAIN transitions' = 1 .. N + 1
           /\ transitions'[N + 1].pos = at'
           /\ \A i \in 1 .. N : transitions'[i] = transitions[i]
  <2>1. \A i \in DOMAIN transitions' : transitions'[i].pos <= at'
    BY <1>1, <1>2, <1>4
  <2>2. \A i, j \in DOMAIN transitions' : i < j => transitions'[i].pos <= transitions'[j].pos
    <3>1. ASSUME NEW i \in 1 .. N + 1, NEW j \in 1 .. N + 1, i < j
          PROVE  transitions'[i].pos <= transitions'[j].pos
      <4>1. i \in 1 .. N
        BY <1>1, <3>1
      <4>2. CASE j = N + 1
        BY <1>2, <1>4, <4>1, <4>2
      <4>3. CASE j # N + 1
        <5>1. j \in 1 .. N
          BY <1>1, <4>3
        <5>2. QED BY <1>1, <1>4, <3>1, <4>1, <5>1 DEF TransitionsInv
      <4>4. QED BY <4>2, <4>3
    <3>2. QED BY <1>4, <3>1
  <2> HIDE DEF TransitionType
  <2>3. QED BY <1>1, <2>1, <2>2 DEF TransitionsInv
<1>5. QED BY <1>1, <1>3, <1>4

\* What is reported of a table changes with it.
LEMMA UsesAfter ==
  ASSUME NEW t \in Tables, NEW pid \in Pids, NEW place \in Nat \ {0}, UNCHANGED first,
         transitions \in Seq(TransitionType), Recorded(t, pid, place), Applied(t)' \in TableType,
         NEW o \in Tables
  PROVE  {a.table : a \in Uses(o)'} =
           {a.table : a \in Uses(o)} \cup (IF o = t /\ Applied(t)' # Applied(t) THEN {Applied(t)'} ELSE {})
<1> DEFINE N == Len(transitions)
           tr == [of |-> t, pid |-> pid, table |-> Applied(t)', pos |-> place]
<1>1. /\ N \in Nat /\ DOMAIN transitions = 1 .. N
      /\ \/ Applied(t)' = Applied(t) /\ transitions' = transitions
         \/ /\ Applied(t)' # Applied(t)
            /\ DOMAIN transitions' = 1 .. N + 1 /\ transitions'[N + 1] = tr
            /\ \A i \in 1 .. N : transitions'[i] = transitions[i]
  <2> HIDE DEF TransitionType
  <2> QED BY RecordedIs
<1>2. tr.of = t /\ tr.table = Applied(t)'
  OBVIOUS
<1> DEFINE Of(T) == {i \in DOMAIN T : T[i].of = o}
<1>3. /\ Uses(o) = {first[o]} \cup {transitions[i] : i \in Of(transitions)}
      /\ Uses(o)' = {first[o]} \cup {transitions'[i] : i \in Of(transitions')}
  BY DEF Uses
<1> HIDE DEF tr
<1>4. CASE transitions' = transitions /\ Applied(t)' = Applied(t)
  BY <1>3, <1>4
<1>5. CASE /\ Applied(t)' # Applied(t)
           /\ DOMAIN transitions' = 1 .. N + 1 /\ transitions'[N + 1] = tr
           /\ \A i \in 1 .. N : transitions'[i] = transitions[i]
  <2>1. {transitions'[i] : i \in Of(transitions')} =
          {transitions[i] : i \in Of(transitions)} \cup (IF o = t THEN {tr} ELSE {})
    <3>1. Of(transitions') = Of(transitions) \cup (IF o = t THEN {N + 1} ELSE {})
      BY <1>1, <1>2, <1>5
    <3>2. \A i \in Of(transitions) : i \in 1 .. N
      BY <1>1
    <3> HIDE DEF Of
    <3>3. QED BY <1>5, <3>1, <3>2
  <2> HIDE DEF Of
  <2>2. Uses(o)' = Uses(o) \cup (IF o = t THEN {tr} ELSE {})
    BY <1>3, <2>1
  <2>3. QED BY <1>2, <1>5, <2>2
<1>6. QED BY <1>1, <1>4, <1>5

\* A section adds a table to those of the report just when it is applied.
LEMMA UsesKept ==
  ASSUME OrderlyInv, OrderlyInv', UsesInv, transitions \in Seq(TransitionType),
         NEW t \in Tables, NEW pid \in Pids \cap PidType, NEW s \in SectionType,
         SectionLogged(t, pid, s), at' \in Nat \ {0}, Recorded(t, pid, at')
  PROVE  UsesInv'
<1>0. /\ Received(t, pid, s) /\ UNCHANGED sent /\ NoteApplied /\ OnlyToCurrent /\ UNCHANGED first
      /\ TrackerTypes /\ TrackerTypes'
  BY DEF SectionLogged, Logged, OrderlyInv, TrackerInv
<1>1. Applied(t)' \in TableType
  BY <1>0, ReceiversTypedAfter, AppliedIs DEF FollowedType
<1>2. ASSUME NEW o \in Tables
      PROVE  /\ applied'[o] \subseteq DOMAIN sent'[o]
             /\ {a.table : a \in Uses(o)'} = {Sections(sent'[o][k]) : k \in applied'[o]}
             /\ Applied(o)' \in {a.table : a \in Uses(o)'}
  <2> DEFINE table == Applied(o)'
             U == {a.table : a \in Uses(o)}
             V == {a.table : a \in Uses(o)'}
             I == {k \in DOMAIN sent[o] : Sections(sent[o][k]) = table}
  <2>1. applied[o] \subseteq DOMAIN sent[o] /\ U = {Sections(sent[o][k]) : k \in applied[o]} /\ Applied(o) \in U
    BY DEF UsesInv
  <2>2. V = U \cup (IF o = t /\ Applied(t)' # Applied(t) THEN {Applied(t)'} ELSE {})
    BY <1>0, <1>1, UsesAfter
  <2>3. o # t => table = Applied(o)
    BY <1>0, OnlyItsTable
  <2>4. applied'[o] = applied[o] \cup I
    BY <1>0, Noted, AppliedIs DEF InTable
  <2>5. table = Applied(o) \/ I # {}
    <3>1. Len(sent[o]) \in DOMAIN sent[o]
      BY <1>0, CurrentTyped
    <3>2. table = Applied(o) \/ table = Sections(sent[o][Len(sent[o])])
      BY <1>0 DEF OnlyToCurrent, Current
    <3>3. QED BY <3>1, <3>2
  <2>6. V = U \cup {table}
    <3> HIDE DEF V, U
    <3> QED BY <2>1, <2>2, <2>3
  <2>7. {Sections(sent[o][k]) : k \in applied'[o]} = U \cup {table}
    <3>1. \A k \in I : Sections(sent[o][k]) = table
      OBVIOUS
    <3> HIDE DEF I, table
    <3>2. {Sections(sent[o][k]) : k \in applied'[o]} = U \cup {Sections(sent[o][k]) : k \in I}
      BY <2>1, <2>4
    <3>3. {Sections(sent[o][k]) : k \in I} \subseteq {table} /\ (I # {} => {Sections(sent[o][k]) : k \in I} = {table})
      BY <3>1
    <3>4. QED BY <2>1, <2>5, <3>2, <3>3
  <2>8. applied'[o] \subseteq DOMAIN sent[o]
    BY <2>1, <2>4
  <2>9. QED BY <1>0, <2>6, <2>7, <2>8
<1>3. QED BY <1>2 DEF UsesInv

\* What the receivers have before the scan.
LEMMA FirstInUse ==
  ASSUME LayoutInit
  PROVE  /\ TrackerTypes /\ transitions = <<>> /\ Listed(pat.table) = Programs
         /\ \A t \in Tables : /\ applied[t] = {1} /\ 1 \in DOMAIN sent[t]
                              /\ Applied(t) = Sections(sent[t][1])
                              /\ first[t].table = Applied(t) /\ first[t].pid = Current(t).pid
         /\ \A p \in Programs : ~followed[p].removed /\ followed[p].pmtPid = Current(p).pid
<1>1. TrackInit /\ TrackerTypes
  BY InitTyped DEF LayoutInit
<1>2. PICK c \in PatTables, f \in [Programs -> UNION {PmtTables[p] : p \in Programs}] :
        /\ Listed(Sections(FirstTable(c, Pat))) = Programs
        /\ sent = [t \in Tables |-> <<IF t = Pat THEN FirstTable(c, Pat)
                     ELSE FirstTable(f[t], PmtPid(Sections(FirstTable(c, Pat)), t))>>]
  BY <1>1 DEF TrackInit
<1>3. /\ pat = [table |-> Sections(Current(Pat)), history |-> Historic(Sections(Current(Pat))),
                sets |-> NoSets]
      /\ followed = [p \in Programs |->
                       [table |-> Sections(Current(p)), history |-> Historic(Sections(Current(p))),
                        sets |-> NoSets, pmtPid |-> Current(p).pid, moved |-> FALSE, removed |-> FALSE]]
      /\ applied = [t \in Tables |-> {1}]
  BY <1>1 DEF TrackInit
<1>4. \A t \in Tables : Current(t) = sent[t][1] /\ 1 \in DOMAIN sent[t]
  BY <1>2 DEF Current
<1>5. Current(Pat) = FirstTable(c, Pat)
  BY <1>2, TablesAre DEF Current
<1>6. Listed(pat.table) = Programs
  BY <1>2, <1>3, <1>5
<1>7. \A t \in Tables : Applied(t) = Sections(Current(t))
  BY <1>3, TablesAre DEF Applied
<1>8. /\ transitions = <<>>
      /\ first = [t \in Tables |->
                    [of |-> t, pid |-> Current(t).pid, table |-> Applied(t),
                     pos |-> Max({starts[i].pos : i \in {j \in DOMAIN starts : starts[j].table = t}})]]
  BY DEF LayoutInit
<1>9. \A t \in Tables : first[t].table = Applied(t) /\ first[t].pid = Current(t).pid
  BY <1>8
<1>10. \A p \in Programs : ~followed[p].removed /\ followed[p].pmtPid = Current(p).pid
  BY <1>3
<1>11. QED BY <1>1, <1>3, <1>4, <1>6, <1>7, <1>8, <1>9, <1>10

\* The report starts with the first tables.
LEMMA InitUses ==
  ASSUME LayoutInit
  PROVE  UsesInv /\ TransitionsInv
<1>1. /\ transitions = <<>>
      /\ \A t \in Tables : /\ applied[t] = {1} /\ 1 \in DOMAIN sent[t]
                           /\ Applied(t) = Sections(sent[t][1]) /\ first[t].table = Applied(t)
  BY FirstInUse
<1>2. \A t \in Tables : Uses(t) = {first[t]}
  BY <1>1 DEF Uses
<1>3. \A t \in Tables : {a.table : a \in Uses(t)} = {Applied(t)}
  BY <1>1, <1>2
<1>4. UsesInv
  <2>1. ASSUME NEW t \in Tables PROVE {Sections(sent[t][k]) : k \in applied[t]} = {Applied(t)}
    <3>1. applied[t] = {1} /\ Applied(t) = Sections(sent[t][1])
      BY <1>1
    <3>2. \A k \in {1} : Sections(sent[t][k]) = Sections(sent[t][1])
      OBVIOUS
    <3>3. QED BY <3>1, <3>2
  <2>2. \A t \in Tables : applied[t] \subseteq DOMAIN sent[t]
    BY <1>1
  <2>3. QED BY <1>3, <2>1, <2>2 DEF UsesInv
<1>5. transitions \in Seq(TransitionType) /\ DOMAIN transitions = {}
  <2> HIDE DEF TransitionType
  <2> QED BY <1>1
<1>6. QED BY <1>4, <1>5 DEF TransitionsInv

\* A change of what is sent leaves what was applied.
LEMMA SenderKeepsUses ==
  ASSUME TrackerTypes, UsesInv, ChangePat \/ \E p \in Programs : ChangePmt(p), UNCHANGED layoutVars
  PROVE  UsesInv'
<1>1. UNCHANGED <<pat, followed, applied, first, transitions>>
  BY DEF ChangePat, ChangePmt, layoutVars
<1>2. SentRemains
  BY SenderAppends
<1>3. ASSUME NEW t \in Tables
      PROVE  /\ applied'[t] \subseteq DOMAIN sent'[t]
             /\ {a.table : a \in Uses(t)'} = {Sections(sent'[t][k]) : k \in applied'[t]}
             /\ Applied(t)' \in {a.table : a \in Uses(t)'}
  <2>1. Uses(t)' = Uses(t) /\ Applied(t)' = Applied(t) /\ applied'[t] = applied[t]
    BY <1>1 DEF Uses, Applied
  <2>2. \A k \in applied[t] : k \in DOMAIN sent'[t] /\ sent'[t][k] = sent[t][k]
    BY <1>2 DEF SentRemains, UsesInv
  <2>3. {Sections(sent'[t][k]) : k \in applied[t]} = {Sections(sent[t][k]) : k \in applied[t]}
    BY <2>2
  <2>4. QED BY <2>1, <2>2, <2>3 DEF UsesInv
<1>4. QED BY <1>3 DEF UsesInv

-------------------------------------------------------------------------------
(* PsiLayout: the programs of the last layout.                               *)

\* A program of a layout.
IsProgram(x) == x = [pmtPid |-> x.pmtPid, table |-> x.table, pos |-> x.pos]

\* The programs after each change.
ProgramsFrom(g) ==
  g[0] = FirstPrograms /\ \A n \in DOMAIN transitions : g[n] = Changed(g[n - 1], transitions[n])

\* Programs with the tables and PIDs that the analysis uses of those of a PAT.
ProgramsAre(P, table, F) ==
  /\ DOMAIN P = Listed(table)
  /\ \A p \in Listed(table) :
       LET read == p \in Programs /\ ~F[p].removed IN
       /\ IsProgram(P[p])
       /\ P[p].table = IF read THEN F[p].table ELSE {}
       /\ read => P[p].pmtPid = F[p].pmtPid

\* The changes rebuild the programs that the analysis uses.
ProgramsInv ==
  \A g : ProgramsFrom(g) => ProgramsAre(g[Len(transitions)], pat.table, followed)

\* Before the first change they are those of the first PAT.
LEMMA InitPrograms ==
  ASSUME LayoutInit
  PROVE  ProgramsInv
<1>1. /\ transitions = <<>> /\ Listed(pat.table) = Programs
      /\ \A t \in Tables : first[t].table = Applied(t) /\ first[t].pid = Current(t).pid
      /\ \A p \in Programs : ~followed[p].removed /\ followed[p].pmtPid = Current(p).pid
  BY FirstInUse
<1>2. ASSUME NEW p \in Programs
      PROVE  /\ ~followed[p].removed /\ IsProgram(FirstPrograms[p])
             /\ FirstPrograms[p].table = followed[p].table /\ FirstPrograms[p].pmtPid = followed[p].pmtPid
  <2>1. FirstPrograms[p] = [pmtPid |-> first[p].pid, table |-> first[p].table, pos |-> first[p].pos]
    BY DEF FirstPrograms
  <2>2. Applied(p) = followed[p].table
    BY TablesAre DEF Applied
  <2>3. QED BY <1>1, <2>1, <2>2, TablesAre DEF IsProgram
<1>3. DOMAIN FirstPrograms = Programs
  BY DEF FirstPrograms
<1>4. ProgramsAre(FirstPrograms, pat.table, followed)
  BY <1>1, <1>2, <1>3 DEF ProgramsAre
<1>5. Len(transitions) = 0
  BY <1>1
<1>6. QED BY <1>4, <1>5 DEF ProgramsInv, ProgramsFrom

\* A change of the PAT.
LEMMA PatChanged ==
  ASSUME NEW P, NEW old, NEW F, ProgramsAre(P, old, F), Listens(F, old),
         NEW table, NEW G, \A p \in Programs : Follows(table, p, F[p], G[p]),
         NEW tr, tr.of = Pat, tr.table = table
  PROVE  ProgramsAre(Changed(P, tr), table, G)
<1> DEFINE Old(p) == IF p \in DOMAIN P THEN P[p] ELSE Unknown
           Q == [p \in Listed(table) |-> [Old(p) EXCEPT !.pmtPid = PmtPid(table, p)]]
           Read(H, p) == p \in Programs /\ ~H[p].removed
<1>1. Changed(P, tr) = Q
  BY DEF Changed, ApplyPatToLayout
<1>2. ASSUME NEW p \in Listed(table)
      PROVE  /\ IsProgram(Q[p]) /\ Q[p].pmtPid = PmtPid(table, p) /\ Q[p].table = Old(p).table
  <2>1. IsProgram(Old(p))
    BY DEF ProgramsAre, IsProgram, Unknown
  <2>2. Q[p] = [Old(p) EXCEPT !.pmtPid = PmtPid(table, p)]
    OBVIOUS
  <2> HIDE DEF Old, Q
  <2>3. QED BY <2>1, <2>2 DEF IsProgram
<1>3. ASSUME NEW p \in Listed(table)
      PROVE  /\ Old(p).table = IF Read(G, p) THEN G[p].table ELSE {}
             /\ Read(G, p) => G[p].pmtPid = PmtPid(table, p)
  <2>1. CASE p \notin Programs
    BY <2>1 DEF ProgramsAre, Unknown
  <2>2. CASE p \in Programs
    <3>1. Follows(table, p, F[p], G[p])
      BY <2>2
    <3>2. CASE F[p].removed
      <4>1. G[p] = F[p]
        BY <3>1, <3>2 DEF Follows
      <4>2. Old(p).table = {}
        BY <3>2 DEF ProgramsAre, Unknown
      <4>3. QED BY <3>2, <4>1, <4>2
    <3>3. CASE ~F[p].removed
      <4>1. ~G[p].removed /\ G[p].table = F[p].table /\ G[p].pmtPid = PmtPid(table, p)
        BY <3>1, <3>3 DEF Follows
      <4>2. p \in Listed(old)
        BY <2>2, <3>3 DEF Listens
      <4>3. Old(p).table = F[p].table
        BY <2>2, <3>3, <4>2 DEF ProgramsAre
      <4>4. QED BY <2>2, <4>1, <4>3
    <3>4. QED BY <3>2, <3>3
  <2>3. QED BY <2>1, <2>2
<1>4. DOMAIN Q = Listed(table)
  OBVIOUS
<1> HIDE DEF Q, Old
<1>5. ASSUME NEW p \in Listed(table)
      PROVE  /\ IsProgram(Q[p])
             /\ Q[p].table = IF Read(G, p) THEN G[p].table ELSE {}
             /\ Read(G, p) => Q[p].pmtPid = G[p].pmtPid
  BY <1>2, <1>3
<1>6. QED BY <1>1, <1>4, <1>5 DEF ProgramsAre

\* A change of the PMT of p.
LEMMA PmtChanged ==
  ASSUME NEW P, NEW table, NEW F, ProgramsAre(P, table, F), Listens(F, table),
         NEW p \in Programs, NEW G, \A q \in Programs : q # p => G[q] = F[q],
         ~F[p].removed, ~G[p].removed, G[p].pmtPid = F[p].pmtPid,
         NEW tr, tr.of = p, tr.table = G[p].table, tr.pid = F[p].pmtPid
  PROVE  ProgramsAre(Changed(P, tr), table, G)
<1> DEFINE new == [pmtPid |-> tr.pid, table |-> tr.table, pos |-> tr.pos]
           Q == [q \in DOMAIN P |-> IF q = tr.of THEN new ELSE P[q]]
<1>1. Changed(P, tr) = Q
  BY TablesAre DEF Changed
<1>2. /\ IsProgram(new) /\ new.table = G[p].table /\ new.pmtPid = G[p].pmtPid
  BY DEF IsProgram
<1> HIDE DEF new
<1>3. DOMAIN Q = Listed(table) /\ \A q \in Listed(table) : Q[q] = IF q = p THEN new ELSE P[q]
  BY DEF ProgramsAre
<1> HIDE DEF Q
<1>4. QED BY <1>1, <1>2, <1>3 DEF ProgramsAre

\* A section that is applied changes the rebuilt programs as it changes those in use.
LEMMA ProgramsKept ==
  ASSUME OrderlyInv, OrderlyInv', ProgramsInv, transitions \in Seq(TransitionType),
         NEW t \in Tables, NEW pid \in Pids \cap PidType, NEW s \in SectionType,
         SectionLogged(t, pid, s), at' \in Nat \ {0}, Recorded(t, pid, at')
  PROVE  ProgramsInv'
<1>0. /\ Received(t, pid, s) /\ OnlyToCurrent /\ UNCHANGED first
      /\ TrackerTypes /\ TrackerTypes' /\ Listens(followed, pat.table)
  BY DEF SectionLogged, Logged, OrderlyInv, TrackerInv
<1> SUFFICES ASSUME NEW g, ProgramsFrom(g)'
             PROVE  ProgramsAre(g[Len(transitions')], pat'.table, followed')
  BY DEF ProgramsInv
<1> DEFINE N == Len(transitions)
           tr == [of |-> t, pid |-> pid, table |-> Applied(t)', pos |-> at']
<1>1. Applied(t)' \in TableType
  BY <1>0, ReceiversTypedAfter, AppliedIs DEF FollowedType
<1>2. /\ N \in Nat /\ DOMAIN transitions = 1 .. N
      /\ \/ Applied(t)' = Applied(t) /\ transitions' = transitions
         \/ /\ Applied(t)' # Applied(t) /\ Len(transitions') = N + 1
            /\ DOMAIN transitions' = 1 .. N + 1 /\ transitions'[N + 1] = tr
            /\ \A i \in 1 .. N : transitions'[i] = transitions[i]
  <2> HIDE DEF TransitionType
  <2> QED BY <1>1, RecordedIs
<1>3. tr.of = t /\ tr.table = Applied(t)' /\ tr.pid = pid
  OBVIOUS
<1> HIDE DEF tr
<1>4. ProgramsFrom(g)
  <2>1. g[0] = FirstPrograms' /\ FirstPrograms' = FirstPrograms
    BY <1>0 DEF ProgramsFrom, FirstPrograms
  <2>2. ASSUME NEW n \in 1 .. N PROVE g[n] = Changed(g[n - 1], transitions[n])
    <3>1. n \in DOMAIN transitions' /\ transitions'[n] = transitions[n]
      BY <1>2
    <3>2. \A i \in DOMAIN transitions' : g[i] = Changed(g[i - 1], transitions'[i])
      BY DEF ProgramsFrom
    <3>3. QED BY <3>1, <3>2
  <2>3. QED BY <1>2, <2>1, <2>2 DEF ProgramsFrom
<1>5. ProgramsAre(g[N], pat.table, followed)
  BY <1>4 DEF ProgramsInv
<1>6. Applied(t)' # Applied(t) => g[Len(transitions')] = Changed(g[N], tr)
  <2> SUFFICES ASSUME Applied(t)' # Applied(t) PROVE g[N + 1] = Changed(g[N], tr)
    BY <1>2
  <2>1. \A i \in DOMAIN transitions' : g[i] = Changed(g[i - 1], transitions'[i])
    BY DEF ProgramsFrom
  <2>2. N + 1 \in DOMAIN transitions' /\ (N + 1) - 1 = N /\ transitions'[N + 1] = tr
    BY <1>2
  <2>3. QED BY <2>1, <2>2
<1>7. CASE t = Pat
  <2>1. ObservePat(s) /\ Applied(t) = pat.table /\ Applied(t)' = pat'.table
    BY <1>0, <1>7 DEF Received, Applied
  <2>2. CASE pat'.table = pat.table
    <3>1. Receiver(Pat)'.table \in {pat.table, Sections(Current(Pat))} /\ Receiver(Pat)'.table = pat.table
      BY <2>2 DEF Receiver
    <3>2. \A p \in Programs : followed'[p] = followed[p]
      BY <2>1, <3>1, PatLeaves
    <3>3. transitions' = transitions
      BY <1>2, <2>1, <2>2
    <3>4. QED BY <1>5, <2>2, <3>2, <3>3 DEF ProgramsAre
  <2>3. CASE pat'.table # pat.table
    <3>1. \A p \in Programs : Follows(pat'.table, p, followed[p], followed'[p])
      BY <1>0, <2>1, <2>3, PatStep
    <3>2. ProgramsAre(Changed(g[N], tr), pat'.table, followed')
      BY <1>0, <1>3, <1>5, <1>7, <2>1, <3>1, PatChanged
    <3>3. QED BY <1>6, <2>1, <2>3, <3>2
  <2>4. QED BY <2>2, <2>3
<1>8. CASE t # Pat
  <2>1. /\ t \in Programs /\ ObservePmt(t, pid, s)
        /\ Applied(t) = followed[t].table /\ Applied(t)' = followed'[t].table
    BY <1>0, <1>8, TablesAre DEF Received, Applied
  <2>2. /\ pat' = pat /\ Updates(followed[t], followed'[t])
        /\ \A q \in Programs : q # t => followed'[q] = followed[q]
    BY <1>0, <2>1, PmtStep
  <2>3. CASE followed'[t].table = followed[t].table
    <3>1. \A q \in Programs : /\ followed'[q].table = followed[q].table
                              /\ followed'[q].pmtPid = followed[q].pmtPid
                              /\ followed'[q].removed <=> followed[q].removed
      BY <2>2, <2>3 DEF Updates
    <3>2. transitions' = transitions
      BY <1>2, <2>1, <2>3
    <3>3. QED BY <1>5, <2>2, <3>1, <3>2 DEF ProgramsAre
  <2>4. CASE followed'[t].table # followed[t].table
    <3>1. Reads(t, pid)
      BY <1>0, <2>1, <2>4, PmtTaken
    <3>2. ~followed[t].removed /\ followed[t].pmtPid = pid
      BY <3>1 DEF Reads
    <3>3. ~followed'[t].removed /\ followed'[t].pmtPid = followed[t].pmtPid
      BY <2>2, <3>2 DEF Updates
    <3>4. ProgramsAre(Changed(g[N], tr), pat.table, followed')
      BY <1>0, <1>3, <1>5, <2>1, <2>2, <3>2, <3>3, PmtChanged
    <3>5. QED BY <1>6, <2>1, <2>2, <2>4, <3>4
  <2>5. QED BY <2>3, <2>4
<1>9. QED BY <1>7, <1>8

-------------------------------------------------------------------------------
(* PsiLayout: the entries of the log.                                        *)

\* The entry of a section is the one run that covers it, and its status tells of its use.
LEMMA EntriesAreFound ==
  ASSUME LogInv(log, starts, at), UsesInv
  PROVE  EntriesFound
<1>0. /\ DOMAIN log.runs = 1 .. Len(log.runs) /\ Len(log.runs) \in Nat
      /\ \A k \in DOMAIN log.runs : log.runs[k].pos \in Nat /\ log.runs[k].last \in Nat
      /\ \A i \in DOMAIN starts : starts[i].pos \in Nat
      /\ \A k \in DOMAIN log.runs : log.runs[k] \in LoggedRun
  BY LogParts
<1>1. ASSUME NEW e PROVE Matches(e) = {k \in DOMAIN log.runs : Covers(log.runs[k], e)}
  BY DEF Matches, Covers
<1>2. ASSUME NEW i \in DOMAIN starts
      PROVE  \E k \in DOMAIN log.runs :
               LET e == starts[i] r == log.runs[k] IN
               /\ Matches(e) = {k}
               /\ r.section.intact = e.section.intact
               /\ e.section.intact => r.section = e.section
  <2>1. PICK k \in DOMAIN log.runs : Covers(log.runs[k], starts[i]) /\ SameSection(log.runs[k], starts[i])
    BY DEF LogInv, SectionsPlaced
  <2>2. ASSUME NEW j \in DOMAIN log.runs, NEW m \in DOMAIN log.runs, j < m,
               Covers(log.runs[j], starts[i]), Covers(log.runs[m], starts[i])
        PROVE  FALSE
    <3>1. /\ Header(log.runs[j]) = Header(log.runs[m])
          /\ starts[i].pos <= log.runs[j].last /\ log.runs[m].pos <= starts[i].pos
      BY <2>2 DEF Covers
    <3>2. log.runs[j].last < log.runs[m].pos
      BY <2>2, <3>1 DEF LogInv, RunsApart
    <3>3. QED BY <1>0, <3>1, <3>2
  <2>3. \A j \in DOMAIN log.runs : Covers(log.runs[j], starts[i]) => j = k
    BY <1>0, <2>1, <2>2
  <2>4. Matches(starts[i]) = {k}
    BY <1>1, <2>1, <2>3
  <2>5. QED BY <2>1, <2>4 DEF SameSection
<1>3. ASSUME NEW k \in DOMAIN log.runs
      PROVE  log.runs[k].count = Cardinality({i \in DOMAIN starts : k \in Matches(starts[i])})
  <2>1. {i \in DOMAIN starts : k \in Matches(starts[i])} = CoveredBy(log.runs[k], starts)
    BY <1>1 DEF CoveredBy
  <2>2. QED BY <2>1 DEF LogInv, CopiesCounted
<1>4. ASSUME NEW k \in DOMAIN log.runs
      PROVE  LET r    == log.runs[k]
                 used == UNION {Sections(sent[r.table][j]) : j \in applied[r.table]}
             IN (Status(k) = "not_applied") <=> (r.section.intact /\ r.section \notin used)
  <2> DEFINE r == log.runs[k]
             t == r.table
             used == UNION {Sections(sent[t][j]) : j \in applied[t]}
  <2>1. t \in Tables
    BY <1>0 DEF LoggedRun
  <2>2. used = UNION {a.table : a \in Uses(t)}
    BY <2>1 DEF UsesInv
  <2>3. (\E a \in Uses(t) : r.section \in a.table) <=> r.section \in used
    BY <2>2
  <2>4. \A a \in Uses(t) : k \in Marked(a) => r.section \in a.table
    BY DEF Marked
  <2>5. Status(k) = IF \E a \in Uses(t) : k \in Marked(a) THEN "applied"
                    ELSE IF ~r.section.intact THEN "invalid"
                    ELSE IF \E a \in Uses(t) : r.section \in a.table THEN "retransmission"
                    ELSE "not_applied"
    BY DEF Status
  <2> HIDE DEF r, t, used
  <2>6. Status(k) = "not_applied" <=> r.section.intact /\ r.section \notin used
    <3>1. (\E a \in Uses(t) : k \in Marked(a)) => r.section \in used
      BY <2>3, <2>4
    <3>2. QED BY <2>3, <2>5, <3>1
  <2>7. QED BY <2>6 DEF r, t, used
<1>5. QED BY <1>2, <1>3, <1>4 DEF EntriesFound

-------------------------------------------------------------------------------
(* PsiLayout: the layouts.                                                   *)

\* What is collected before the first change.
Beginning == [layouts |-> <<>>, start |-> 1, indices |-> {}, programs |-> FirstPrograms]

\* What is collected before the first n changes are applied, for each n.
CollectsLayouts(f, N) ==
  f = [n \in 0 .. N |-> IF n = 0 THEN Beginning ELSE Applies(f[n - 1], n)]

\* There is such a function for any number of changes.
LEMMA LayoutsExist ==
  ASSUME NEW N \in Nat
  PROVE  \E f : CollectsLayouts(f, N)
<1> DEFINE Q == {n \in Nat : \E f : CollectsLayouts(f, n)}
<1>1. 0 \in Q
  <2> DEFINE f == [n \in 0 .. 0 |-> Beginning]
  <2>1. f = [n \in 0 .. 0 |-> IF n = 0 THEN Beginning ELSE Applies(f[n - 1], n)]
    OBVIOUS
  <2> HIDE DEF f
  <2>2. CollectsLayouts(f, 0)
    BY <2>1 DEF CollectsLayouts
  <2>3. QED BY <2>2
<1>2. ASSUME NEW n \in Nat, n \in Q PROVE n + 1 \in Q
  <2>1. PICK f : CollectsLayouts(f, n)
    BY <1>2
  <2> DEFINE g == [m \in 0 .. n + 1 |-> IF m = n + 1 THEN Applies(f[n], n + 1) ELSE f[m]]
             k == [m \in 0 .. n + 1 |-> IF m = 0 THEN Beginning ELSE Applies(g[m - 1], m)]
  <2>2. \A m \in 0 .. n : g[m] = f[m]
    OBVIOUS
  <2>3. ASSUME NEW m \in 0 .. n + 1 PROVE g[m] = k[m]
    <3>1. CASE m = n + 1
      <4>1. g[m] = Applies(f[n], m) /\ k[m] = Applies(g[m - 1], m) /\ m - 1 = n /\ n \in 0 .. n
        BY <3>1
      <4> HIDE DEF g, k
      <4>2. QED BY <2>2, <4>1
    <3>2. CASE m # n + 1
      <4>1. m \in 0 .. n
        BY <3>2
      <4>2. f[m] = IF m = 0 THEN Beginning ELSE Applies(f[m - 1], m)
        BY <2>1, <4>1 DEF CollectsLayouts
      <4>3. k[m] = IF m = 0 THEN Beginning ELSE Applies(g[m - 1], m)
        OBVIOUS
      <4>4. m # 0 => m - 1 \in 0 .. n
        BY <4>1
      <4> HIDE DEF g, k
      <4>5. QED BY <2>2, <4>1, <4>2, <4>3, <4>4
    <3>3. QED BY <3>1, <3>2
  <2>4. g = k
    <3>1. /\ DOMAIN g = 0 .. n + 1 /\ DOMAIN k = 0 .. n + 1
          /\ g = [m \in DOMAIN g |-> g[m]] /\ k = [m \in DOMAIN k |-> k[m]]
      OBVIOUS
    <3> HIDE DEF g, k
    <3>2. QED BY <2>3, <3>1
  <2> HIDE DEF g
  <2>5. CollectsLayouts(g, n + 1)
    BY <2>4 DEF CollectsLayouts
  <2>6. QED BY <2>5
<1>3. \A n \in Nat : n \in Q
  <2> HIDE DEF Q
  <2> QED BY <1>1, <1>2, SetInduction
<1>4. QED BY <1>3

\* The layouts are what the changes leave, one after another.
LEMMA LayoutsAre ==
  ASSUME transitions \in Seq(TransitionType)
  PROVE  \E f : /\ f[0] = Beginning
                /\ \A n \in DOMAIN transitions : f[n] = Applies(f[n - 1], n)
                /\ Layouts = Emitted(f[Len(transitions)], at + 1)
<1> DEFINE N == Len(transitions)
           begin == [layouts |-> <<>>, start |-> 1, indices |-> {}, programs |-> FirstPrograms]
           after[n \in 0 .. N] == IF n = 0 THEN begin ELSE Applies(after[n - 1], n)
<1>1. N \in Nat /\ DOMAIN transitions = 1 .. N
  <2> HIDE DEF TransitionType
  <2> QED OBVIOUS
<1>2. Layouts = Emitted(after[N], at + 1)
  BY DEF Layouts
<1>3. after = CHOOSE h : CollectsLayouts(h, N)
  BY DEF CollectsLayouts, Beginning
<1>4. CollectsLayouts(after, N)
  <2> HIDE DEF after, N
  <2> QED BY <1>1, <1>3, LayoutsExist
<1> HIDE DEF after, N
<1>5. after[0] = Beginning /\ \A n \in 1 .. N : after[n] = Applies(after[n - 1], n)
  BY <1>1, <1>4 DEF CollectsLayouts
<1>6. QED BY <1>1, <1>2, <1>5 DEF N

\* What is collected has four fields.
IsCollection(r) ==
  r = [layouts |-> r.layouts, start |-> r.start, indices |-> r.indices, programs |-> r.programs]

\* What a change makes of the layouts before it.
LEMMA AppliesIs ==
  ASSUME NEW r, IsCollection(r), NEW i
  PROVE  LET q    == Applies(r, i)
             next == transitions[i].pos + 1
         IN /\ IsCollection(q) /\ q.programs = Changed(r.programs, transitions[i])
            /\ IF Starts(i)
                 THEN q.layouts = Emitted(r, next) /\ q.start = next /\ q.indices = {i}
               ELSE q.layouts = r.layouts /\ q.start = r.start /\ q.indices = r.indices \cup {i}
<1> DEFINE next == transitions[i].pos + 1
           E == Emitted(r, next)
           s == IF ~Starts(i) THEN r ELSE [r EXCEPT !.layouts = E, !.start = next, !.indices = {}]
           more == s.indices \cup {i}
           programs == Changed(s.programs, transitions[i])
<1>1. Applies(r, i) = [s EXCEPT !.indices = more, !.programs = programs]
  BY DEF Applies
<1> HIDE DEF E, next
<1>2. /\ IsCollection(s) /\ s.programs = r.programs
      /\ IF Starts(i) THEN s.layouts = E /\ s.start = next /\ s.indices = {}
         ELSE s.layouts = r.layouts /\ s.start = r.start /\ s.indices = r.indices
  BY DEF IsCollection
<1> HIDE DEF s, more, programs
<1>3. LET q == Applies(r, i) IN
      /\ IsCollection(q) /\ q.programs = programs /\ q.layouts = s.layouts
      /\ q.start = s.start /\ q.indices = more
  BY <1>1, <1>2 DEF IsCollection
<1>4. QED BY <1>2, <1>3 DEF E, next, more, programs

\* The layouts before one that starts at a packet.
Chained(L, start) ==
  /\ Len(L) = 0 => start = 1
  /\ Len(L) # 0 => L[1].start = 1 /\ L[Len(L)].end = start
  /\ \A k \in 1 .. Len(L) - 1 : L[k].end = L[k + 1].start

\* All of them but possibly the last have packets.
HavePackets(L, last) == \A k \in 1 .. last : L[k].start < L[k].end

\* A layout, with programs among G.
LayoutType(G) == [start : Nat, end : Nat, indices : SUBSET Nat, programs : G]

\* One more layout.
LEMMA ChainedAppend ==
  ASSUME NEW G, NEW L \in Seq(LayoutType(G)), NEW x \in LayoutType(G), Chained(L, x.start),
         HavePackets(L, Len(L))
  PROVE  LET E == Append(L, x) IN
         /\ E \in Seq(LayoutType(G)) /\ Chained(E, x.end) /\ HavePackets(E, Len(L))
         /\ x.start < x.end => HavePackets(E, Len(E))
         /\ Len(E) = Len(L) + 1 /\ Len(L) \in Nat /\ E[Len(L) + 1] = x
         /\ \A k \in DOMAIN L : k \in DOMAIN E /\ E[k] = L[k]
         /\ Len(L) + 1 \in DOMAIN E
<1> HIDE DEF LayoutType
<1> DEFINE E == Append(L, x)
<1>1. /\ E \in Seq(LayoutType(G)) /\ Len(E) = Len(L) + 1 /\ Len(L) \in Nat
      /\ DOMAIN L = 1 .. Len(L) /\ DOMAIN E = 1 .. Len(L) + 1
      /\ \A k \in 1 .. Len(L) : E[k] = L[k]
      /\ E[Len(L) + 1] = x
  OBVIOUS
<1> HIDE DEF E
<1>2. E[1].start = 1 /\ Len(E) # 0
  <2>1. CASE Len(L) = 0
    <3>1. x.start = 1 /\ E[1] = x
      BY <1>1, <2>1 DEF Chained
    <3>2. QED BY <1>1, <3>1
  <2>2. CASE Len(L) # 0
    <3>1. L[1].start = 1 /\ E[1] = L[1]
      BY <1>1, <2>2 DEF Chained
    <3>2. QED BY <1>1, <3>1
  <2>3. QED BY <2>1, <2>2
<1>3. ASSUME NEW k \in 1 .. Len(L) PROVE E[k].end = E[k + 1].start
  <2>1. CASE k = Len(L)
    <3>1. L[k].end = x.start /\ E[k] = L[k] /\ E[k + 1] = x
      BY <1>1, <2>1 DEF Chained
    <3>2. QED BY <3>1
  <2>2. CASE k # Len(L)
    <3> DEFINE n == Len(L)
    <3>0. n \in Nat /\ k \in 1 .. n /\ k # n
      BY <1>1, <2>2
    <3> HIDE DEF n
    <3>1. k \in 1 .. n - 1 /\ k + 1 \in 1 .. n
      BY <3>0
    <3> USE DEF n
    <3>2. L[k].end = L[k + 1].start /\ E[k] = L[k] /\ E[k + 1] = L[k + 1]
      BY <1>1, <3>1 DEF Chained
    <3>3. QED BY <3>2, SMTT(40)
  <2>3. QED BY <2>1, <2>2
<1>4. /\ HavePackets(E, Len(L))
      /\ x.start < x.end => HavePackets(E, Len(E))
  <2>1. ASSUME NEW k \in 1 .. Len(L) PROVE E[k].start < E[k].end
    <3>1. E[k] = L[k]
      BY <1>1
    <3>2. L[k].start < L[k].end
      BY DEF HavePackets
    <3>3. QED BY <3>1, <3>2
  <2>2. ASSUME x.start < x.end, NEW k \in 1 .. Len(E) PROVE E[k].start < E[k].end
    <3>1. CASE k = Len(L) + 1
      BY <1>1, <2>2, <3>1
    <3>2. CASE k # Len(L) + 1
      <4>1. k \in 1 .. Len(L)
        BY <1>1, <3>2
      <4>2. QED BY <2>1, <4>1
    <3>3. QED BY <3>1, <3>2
  <2>3. QED BY <2>1, <2>2 DEF HavePackets
<1>5. E[Len(E)].end = x.end /\ Len(E) - 1 = Len(L)
  BY <1>1
<1>6. Chained(E, x.end)
  BY <1>2, <1>3, <1>4, <1>5 DEF Chained
<1>7. QED BY <1>1, <1>4, <1>6 DEF E

\* The layout that holds a change starts in the packet after it.
StartedBy(i, layout) == i \in layout.indices /\ layout.start = transitions[i].pos + 1

\* What is collected when the first n changes have been applied.
CollectedBy(r, n, G) ==
  /\ IsCollection(r) /\ r.layouts \in Seq(LayoutType(G)) /\ r.programs \in G
  /\ n = 0 => r.start = 1
  /\ n # 0 => r.start = transitions[n].pos + 1
  /\ r.indices \in SUBSET Nat
  /\ Chained(r.layouts, r.start) /\ HavePackets(r.layouts, Len(r.layouts))
  /\ \A i \in 1 .. n : (\E k \in DOMAIN r.layouts : StartedBy(i, r.layouts[k])) \/ StartedBy(i, r)

\* The layout that is closed when another one starts, or the range ends.
LEMMA EmittedIs ==
  ASSUME NEW G, NEW n \in Nat, NEW r, CollectedBy(r, n, G), NEW end \in Nat,
         r.start \in Nat
  PROVE  LET L == r.layouts
             E == Emitted(r, end)
         IN /\ E \in Seq(LayoutType(G)) /\ Chained(E, end)
            /\ HavePackets(E, Len(L)) /\ (r.start < end => HavePackets(E, Len(E)))
            /\ Len(E) = Len(L) + 1 /\ Len(L) \in Nat /\ E[Len(E)].programs = r.programs
            /\ \A i \in 1 .. n : \E k \in DOMAIN E : StartedBy(i, E[k])
<1> DEFINE x == [start |-> r.start, end |-> end, indices |-> r.indices, programs |-> r.programs]
           L == r.layouts
           E == Append(L, x)
<1>1. Emitted(r, end) = E
  BY DEF Emitted
<1>2. /\ x \in LayoutType(G) /\ x.start = r.start /\ x.end = end /\ x.indices = r.indices
      /\ x.programs = r.programs
  BY DEF CollectedBy, LayoutType
<1> HIDE DEF x
<1>3. L \in Seq(LayoutType(G)) /\ Chained(L, x.start) /\ HavePackets(L, Len(L))
  BY <1>2 DEF CollectedBy
<1>4. /\ E \in Seq(LayoutType(G)) /\ Chained(E, x.end) /\ HavePackets(E, Len(L))
      /\ (x.start < x.end => HavePackets(E, Len(E)))
      /\ Len(E) = Len(L) + 1 /\ Len(L) \in Nat /\ E[Len(L) + 1] = x
      /\ \A k \in DOMAIN L : k \in DOMAIN E /\ E[k] = L[k]
      /\ Len(L) + 1 \in DOMAIN E
  <2> HIDE DEF L
  <2> QED BY <1>2, <1>3, ChainedAppend
<1> HIDE DEF E
<1>5. ASSUME NEW i \in 1 .. n PROVE \E k \in DOMAIN E : StartedBy(i, E[k])
  <2>1. (\E k \in DOMAIN L : StartedBy(i, L[k])) \/ StartedBy(i, r)
    BY DEF CollectedBy
  <2> HIDE DEF L
  <2>2. CASE \E k \in DOMAIN L : StartedBy(i, L[k])
    BY <1>4, <2>2
  <2>3. CASE StartedBy(i, r)
    <3>1. StartedBy(i, x)
      BY <1>2, <2>3 DEF StartedBy
    <3>2. QED BY <1>4, <3>1
  <2>4. QED BY <2>1, <2>2, <2>3
<1>6. E[Len(E)].programs = r.programs
  BY <1>2, <1>4
<1>7. QED BY <1>1, <1>2, <1>4, <1>5, <1>6

\* One more change.
LEMMA CollectedNext ==
  ASSUME TransitionsInv, NEW G, NEW n \in Nat, n + 1 \in DOMAIN transitions,
         NEW r, CollectedBy(r, n, G), Applies(r, n + 1).programs \in G
  PROVE  CollectedBy(Applies(r, n + 1), n + 1, G)
<1> DEFINE i == n + 1
           q == Applies(r, i)
           next == transitions[i].pos + 1
<1>1. IsCollection(r) /\ r.layouts \in Seq(LayoutType(G)) /\ r.indices \in SUBSET Nat
  BY DEF CollectedBy
<1>2. /\ IsCollection(q) /\ q.programs \in G
      /\ IF Starts(i)
           THEN q.layouts = Emitted(r, next) /\ q.start = next /\ q.indices = {i}
         ELSE q.layouts = r.layouts /\ q.start = r.start /\ q.indices = r.indices \cup {i}
  BY <1>1, AppliesIs
<1>3. /\ i \in 1 .. Len(transitions) /\ n \in 0 .. Len(transitions) /\ i # 0 /\ i \in Nat
      /\ \A j \in 1 .. Len(transitions) : transitions[j].pos \in Nat \ {0}
  <2>1. transitions \in Seq(TransitionType)
    BY DEF TransitionsInv
  <2>2. /\ Len(transitions) \in Nat /\ DOMAIN transitions = 1 .. Len(transitions)
        /\ \A j \in 1 .. Len(transitions) : transitions[j] \in TransitionType
    <3> HIDE DEF TransitionType
    <3> QED BY <2>1
  <2>3. QED BY <2>2 DEF TransitionType
<1>4. next \in Nat
  BY <1>3
<1>5. CASE Starts(i)
  <2>1. r.start \in Nat /\ r.start < next
    <3>1. CASE n = 0
      <4>1. r.start = 1
        BY <3>1 DEF CollectedBy
      <4>2. transitions[i].pos \in Nat \ {0}
        BY <1>3
      <4>3. QED BY <4>1, <4>2
    <3>2. CASE n # 0
      <4>1. r.start = transitions[n].pos + 1
        BY <3>2 DEF CollectedBy
      <4>2. n \in 1 .. Len(transitions) /\ i # 1 /\ n < i /\ i - 1 = n
        BY <1>3, <3>2
      <4>3. transitions[i].pos # transitions[n].pos
        BY <1>5, <4>2 DEF Starts
      <4>4. transitions[n].pos <= transitions[i].pos
        <5> HIDE DEF i
        <5>1. DOMAIN transitions = 1 .. Len(transitions)
          BY DEF TransitionsInv
        <5>2. QED BY <1>3, <4>2, <5>1 DEF TransitionsInv
      <4>5. transitions[n].pos \in Nat /\ transitions[i].pos \in Nat
        BY <1>3, <4>2
      <4> HIDE DEF i
      <4>6. QED BY <4>1, <4>3, <4>4, <4>5
    <3>3. QED BY <3>1, <3>2
  <2> DEFINE E == q.layouts
  <2>2. /\ E \in Seq(LayoutType(G)) /\ Chained(E, next) /\ HavePackets(E, Len(E))
        /\ \A j \in 1 .. n : \E k \in DOMAIN E : StartedBy(j, E[k])
    <3> HIDE DEF next
    <3>1. E = Emitted(r, next)
      BY <1>2, <1>5
    <3> HIDE DEF E
    <3>2. QED BY <1>4, <2>1, <3>1, EmittedIs
  <2>3. q.start = next /\ q.indices = {i} /\ q.indices \in SUBSET Nat
    BY <1>2, <1>3, <1>5
  <2>4. StartedBy(i, q)
    BY <2>3 DEF StartedBy
  <2>5. ASSUME NEW j \in 1 .. i
        PROVE  (\E k \in DOMAIN E : StartedBy(j, E[k])) \/ StartedBy(j, q)
    <3>1. j = i \/ j \in 1 .. n
      OBVIOUS
    <3> HIDE DEF i, q, E
    <3>2. QED BY <2>2, <2>4, <3>1
  <2>6. CollectedBy(q, i, G)
    <3>1. i # 0 => q.start = transitions[i].pos + 1
      BY <2>3
    <3>2. Chained(E, q.start)
      BY <2>2, <2>3
    <3> HIDE DEF q, i, next
    <3>3. QED BY <1>2, <1>3, <2>2, <2>3, <2>5, <3>1, <3>2 DEF CollectedBy
  <2>7. QED BY <2>6
<1>6. CASE ~Starts(i)
  <2>1. /\ n # 0 /\ transitions[i].pos = transitions[n].pos
    <3>1. i # 1 /\ transitions[i].pos = transitions[i - 1].pos
      BY <1>6 DEF Starts
    <3>2. i - 1 = n /\ n # 0
      BY <3>1
    <3> HIDE DEF i
    <3>3. QED BY <3>1, <3>2
  <2>2. r.start = next
    <3>1. r.start = transitions[n].pos + 1
      BY <2>1 DEF CollectedBy
    <3>2. QED BY <2>1, <3>1
  <2>3. /\ q.layouts = r.layouts /\ q.start = next /\ q.indices \in SUBSET Nat
        /\ i \in q.indices /\ r.indices \subseteq q.indices
    BY <1>1, <1>2, <1>3, <1>6, <2>2
  <2>4. StartedBy(i, q)
    BY <2>3 DEF StartedBy
  <2>5. ASSUME NEW j \in 1 .. i
        PROVE  (\E k \in DOMAIN q.layouts : StartedBy(j, q.layouts[k])) \/ StartedBy(j, q)
    <3>1. CASE j = i
      BY <2>4, <3>1
    <3>2. CASE j # i
      <4>1. j \in 1 .. n
        BY <3>2
      <4>2. (\E k \in DOMAIN r.layouts : StartedBy(j, r.layouts[k])) \/ StartedBy(j, r)
        BY <4>1 DEF CollectedBy
      <4>3. StartedBy(j, r) => StartedBy(j, q)
        BY <2>2, <2>3 DEF StartedBy
      <4> HIDE DEF q, i
      <4>4. QED BY <2>3, <4>2, <4>3
    <3>3. QED BY <3>1, <3>2
  <2>6. CollectedBy(q, i, G)
    <3>1. /\ i # 0 => q.start = transitions[i].pos + 1
          /\ q.layouts \in Seq(LayoutType(G)) /\ Chained(q.layouts, q.start)
          /\ HavePackets(q.layouts, Len(q.layouts))
      <4>1. Chained(r.layouts, r.start) /\ HavePackets(r.layouts, Len(r.layouts))
        BY DEF CollectedBy
      <4>2. QED BY <1>1, <2>2, <2>3, <4>1
    <3> HIDE DEF q, i, next
    <3>2. QED BY <1>2, <1>3, <2>3, <2>5, <3>1 DEF CollectedBy
  <2>7. QED BY <2>6
<1>7. QED BY <1>5, <1>6

\* The last programs, and every change where it starts.
LEMMA LayoutsAgree ==
  ASSUME TransitionsInv, at \in Nat, ProgramsInv
  PROVE  LayoutsAsApplied
<1> DEFINE N == Len(transitions)
<1>1. /\ transitions \in Seq(TransitionType) /\ N \in Nat /\ DOMAIN transitions = 1 .. N
      /\ \A i \in 1 .. N : transitions[i].pos \in Nat \ {0} /\ transitions[i].pos <= at
  <2>1. transitions \in Seq(TransitionType)
    BY DEF TransitionsInv
  <2>2. N \in Nat /\ DOMAIN transitions = 1 .. N /\ \A i \in 1 .. N : transitions[i] \in TransitionType
    <3> HIDE DEF TransitionType
    <3> QED BY <2>1
  <2>3. QED BY <2>1, <2>2 DEF TransitionType, TransitionsInv
<1>2. PICK f : /\ f[0] = Beginning
               /\ \A n \in 1 .. N : f[n] = Applies(f[n - 1], n)
               /\ Layouts = Emitted(f[N], at + 1)
  BY <1>1, LayoutsAre
<1> DEFINE G == {f[n].programs : n \in 0 .. N}
           Q == {n \in Nat : n <= N => CollectedBy(f[n], n, G)}
<1>3. \A n \in 0 .. N : f[n].programs \in G
  OBVIOUS
<1> HIDE DEF G
<1>4. 0 \in Q
  <2>1. /\ f[0].layouts = <<>> /\ f[0].start = 1 /\ f[0].indices = {} /\ IsCollection(f[0])
    BY <1>2 DEF Beginning, IsCollection
  <2>2. <<>> \in Seq(LayoutType(G)) /\ Len(<<>>) = 0 /\ 0 \in 0 .. N
    BY <1>1
  <2>3. Chained(<<>>, 1) /\ HavePackets(<<>>, 0)
    BY <2>2 DEF Chained, HavePackets
  <2> HIDE DEF N
  <2>4. CollectedBy(f[0], 0, G)
    BY <1>3, <2>1, <2>2, <2>3 DEF CollectedBy
  <2>5. QED BY <2>4
<1>5. ASSUME NEW n \in Nat, n \in Q PROVE n + 1 \in Q
  <2> SUFFICES ASSUME n + 1 <= N PROVE CollectedBy(f[n + 1], n + 1, G)
    OBVIOUS
  <2>1. n + 1 \in 1 .. N /\ n + 1 \in 0 .. N /\ (n + 1) - 1 = n /\ CollectedBy(f[n], n, G)
    BY <1>1, <1>5
  <2>2. f[n + 1] = Applies(f[n], n + 1)
    BY <1>2, <2>1
  <2>3. Applies(f[n], n + 1).programs \in G
    BY <1>3, <2>1, <2>2
  <2>4. n + 1 \in DOMAIN transitions
    BY <1>1, <2>1
  <2> HIDE DEF Q, N
  <2>5. CollectedBy(Applies(f[n], n + 1), n + 1, G)
    BY <2>1, <2>3, <2>4, CollectedNext
  <2>6. QED BY <2>2, <2>5
<1>6. \A n \in 0 .. N : CollectedBy(f[n], n, G)
  <2> HIDE DEF Q
  <2>1. \A n \in Nat : n \in Q
    BY <1>4, <1>5, SetInduction
  <2>2. QED BY <1>1, <2>1 DEF Q
<1> DEFINE r == f[N]
           L == r.layouts
           E == Emitted(r, at + 1)
<1>7. CollectedBy(r, N, G)
  BY <1>1, <1>6
<1>8. r.start \in Nat
  <2>1. CASE N = 0
    BY <1>7, <2>1 DEF CollectedBy
  <2>2. CASE N # 0
    <3>1. r.start = transitions[N].pos + 1
      BY <1>7, <2>2 DEF CollectedBy
    <3>2. transitions[N].pos \in Nat
      BY <1>1, <2>2
    <3> HIDE DEF N, r
    <3>3. QED BY <3>1, <3>2
  <2>3. QED BY <2>1, <2>2
<1> HIDE DEF r
<1>9. /\ E \in Seq(LayoutType(G)) /\ Chained(E, at + 1) /\ HavePackets(E, Len(L))
      /\ Len(E) = Len(L) + 1 /\ Len(L) \in Nat /\ E[Len(E)].programs = r.programs
      /\ \A i \in 1 .. N : \E k \in DOMAIN E : StartedBy(i, E[k])
  <2>1. at + 1 \in Nat /\ N \in Nat
    BY <1>1
  <2> HIDE DEF N
  <2>2. QED BY <1>7, <1>8, <2>1, EmittedIs
<1>10. ProgramsAre(r.programs, pat.table, followed)
  <2> DEFINE g == [n \in 0 .. N |-> f[n].programs]
  <2>1. g[0] = FirstPrograms
    BY <1>1, <1>2 DEF Beginning
  <2>2. ASSUME NEW n \in 1 .. N PROVE g[n] = Changed(g[n - 1], transitions[n])
    <3>1. n \in 0 .. N /\ n - 1 \in 0 .. N /\ f[n] = Applies(f[n - 1], n)
      BY <1>1, <1>2
    <3>2. IsCollection(f[n - 1])
      BY <1>6, <3>1 DEF CollectedBy
    <3>3. f[n].programs = Changed(f[n - 1].programs, transitions[n])
      BY <3>1, <3>2, AppliesIs
    <3>4. QED BY <3>1, <3>3
  <2>3. g[N] = r.programs
    BY <1>1 DEF r
  <2> HIDE DEF g
  <2>4. ProgramsFrom(g)
    BY <1>1, <2>1, <2>2 DEF ProgramsFrom
  <2>5. QED BY <2>3, <2>4 DEF ProgramsInv
<1>11. E = Layouts
  BY <1>2 DEF r
<1> HIDE DEF E, L
<1>12. Len(E) # 0 /\ E[1].start = 1 /\ E[Len(E)].end = at + 1
  BY <1>9 DEF Chained
<1>13. ASSUME NEW k \in 1 .. Len(E) - 1 PROVE E[k].end = E[k + 1].start /\ E[k].start < E[k].end
  <2>1. k \in 1 .. Len(L)
    BY <1>9
  <2>2. QED BY <1>9, <2>1 DEF Chained, HavePackets
<1>14. \A i \in DOMAIN transitions : \E k \in DOMAIN E :
         i \in E[k].indices /\ E[k].start = transitions[i].pos + 1
  BY <1>1, <1>9 DEF StartedBy
<1>15. /\ DOMAIN E[Len(E)].programs = Listed(pat.table)
       /\ \A p \in Listed(pat.table) :
            /\ E[Len(E)].programs[p].table = IF Analyzed(p) THEN followed[p].table ELSE {}
            /\ Analyzed(p) => E[Len(E)].programs[p].pmtPid = followed[p].pmtPid
  BY <1>9, <1>10 DEF ProgramsAre, Analyzed
<1>16. QED BY <1>11, <1>12, <1>13, <1>14, <1>15 DEF LayoutsAsApplied

-------------------------------------------------------------------------------
(* PsiLayout: the report.                                                    *)

\* The log has each section that arrived in one run, and the changes rebuild the
\* tables, the programs and the PIDs that the analysis uses.
LayoutInv ==
  /\ OrderlyInv
  /\ PidsSent
  /\ LogInv(log, starts, at)
  /\ TransitionsInv
  /\ UsesInv
  /\ ProgramsInv

\* The programs are what the changes make of the first ones.
LEMMA ProgramsUnchanged ==
  ASSUME ProgramsInv, UNCHANGED <<transitions, first, pat, followed>>
  PROVE  ProgramsInv'
<1>1. FirstPrograms' = FirstPrograms
  BY DEF FirstPrograms
<1>2. ASSUME NEW g, ProgramsFrom(g)' PROVE ProgramsAre(g[Len(transitions)], pat.table, followed)'
  <2>1. ProgramsFrom(g)
    BY <1>1, <1>2 DEF ProgramsFrom
  <2>2. ProgramsAre(g[Len(transitions)], pat.table, followed)
    BY <2>1 DEF ProgramsInv
  <2>3. QED BY <2>2 DEF ProgramsAre
<1>3. QED BY <1>2 DEF ProgramsInv

\* A step that leaves the tracker and the changes alone.
LEMMA NothingChanges ==
  ASSUME LayoutInv, UNCHANGED <<transitions, first>>, UNCHANGED trackVars, at' \in Nat, at <= at'
  PROVE  PidsSent' /\ TransitionsInv' /\ UsesInv' /\ ProgramsInv'
<1>0. UNCHANGED sent /\ UNCHANGED pat /\ UNCHANGED followed /\ UNCHANGED applied
  BY DEF trackVars
<1>1. PidsSent'
  BY <1>0 DEF LayoutInv, PidsSent
<1>2. TransitionsInv'
  <2>1. \A i \in DOMAIN transitions : transitions[i].pos \in Nat
    <3>1. transitions \in Seq(TransitionType)
      BY DEF LayoutInv, TransitionsInv
    <3>2. \A i \in DOMAIN transitions : transitions[i] \in TransitionType
      <4> HIDE DEF TransitionType
      <4> QED BY <3>1
    <3>3. QED BY <3>2 DEF TransitionType
  <2>2. at \in Nat
    BY LogParts DEF LayoutInv
  <2>3. \A i \in DOMAIN transitions : transitions[i].pos <= at
    BY DEF LayoutInv, TransitionsInv
  <2>4. \A i \in DOMAIN transitions : transitions[i].pos <= at'
    BY <2>1, <2>2, <2>3
  <2> HIDE DEF TransitionType
  <2>5. QED BY <2>4 DEF LayoutInv, TransitionsInv
<1>3. UsesInv'
  <2>1. \A t \in Tables : Uses(t)' = Uses(t) /\ Applied(t)' = Applied(t)
    BY <1>0 DEF Uses, Applied
  <2>2. QED BY <1>0, <2>1, ZenonT(60) DEF LayoutInv, UsesInv
<1>4. ProgramsInv'
  BY <1>0, ProgramsUnchanged DEF LayoutInv
<1>5. QED BY <1>1, <1>2, <1>3, <1>4

\* The report is right from the start.
LEMMA InitEstablishesLayoutInv == Orderly /\ LayoutInit => LayoutInv
<1> SUFFICES ASSUME Orderly, LayoutInit PROVE LayoutInv
  OBVIOUS
<1>1. TrackInit
  BY DEF LayoutInit
<1>2. OrderlyInv
  BY <1>1, InitEstablishesOrderlyInv
<1>3. PidsSent
  BY <1>1, InitSendsOnPids
<1>4. LogInv(log, starts, at)
  BY InitEstablishesLogInv
<1>5. UsesInv /\ TransitionsInv
  BY InitUses
<1>6. ProgramsInv
  BY InitPrograms
<1>7. QED BY <1>2, <1>3, <1>4, <1>5, <1>6 DEF LayoutInv

\* Every step keeps it.
LEMMA NextKeepsLayoutInv ==
  ASSUME LayoutInv, [LayoutNext]_<<trackVars, layoutVars>>
  PROVE  LayoutInv'
<1>0. at \in Nat /\ TrackerTypes /\ transitions \in Seq(TransitionType)
  <2>1. at \in Nat
    BY LogParts DEF LayoutInv
  <2>2. QED BY <2>1 DEF LayoutInv, OrderlyInv, TrackerInv, TransitionsInv
<1>1. CASE UNCHANGED <<trackVars, layoutVars>>
  <2>1. /\ UNCHANGED trackVars /\ UNCHANGED <<transitions, first>> /\ UNCHANGED <<at, log, starts>>
    BY <1>1 DEF layoutVars
  <2>2. PidsSent' /\ TransitionsInv' /\ UsesInv' /\ ProgramsInv'
    BY <1>0, <2>1, NothingChanges
  <2>3. LogInv(log, starts, at)'
    BY <2>1 DEF LayoutInv
  <2>4. OrderlyInv'
    <3>1. \A t \in Tables : ReceiverInv(t)'
      BY <2>1 DEF LayoutInv, OrderlyInv, ReceiverInv, Receiver, trackVars
    <3>2. SentAsListed'
      BY <2>1 DEF LayoutInv, OrderlyInv, SentAsListed, Current, trackVars
    <3>3. TrackerInv'
      BY <2>1 DEF LayoutInv, OrderlyInv, TrackerInv, TrackerTypes, Listens, trackVars
    <3>4. QED BY <2>1, <3>1, <3>2, <3>3 DEF LayoutInv, OrderlyInv, trackVars
  <2>5. QED BY <2>2, <2>3, <2>4 DEF LayoutInv
<1>2. CASE LayoutNext
  <2>1. OrderlyInv'
    BY <1>2, LayoutSteps DEF LayoutInv
  <2>2. CASE (ChangePat \/ \E p \in Programs : ChangePmt(p)) /\ UNCHANGED layoutVars
    <3>0. UNCHANGED <<at, log, transitions, first, starts>> /\ UNCHANGED <<pat, followed>>
      BY <2>2 DEF layoutVars, ChangePat, ChangePmt
    <3>1. PidsSent'
      BY <1>0, <2>2, NextSendsOnPids DEF LayoutInv
    <3>2. LogInv(log, starts, at)'
      BY <3>0 DEF LayoutInv
    <3>3. TransitionsInv'
      BY <3>0 DEF LayoutInv, TransitionsInv
    <3>4. UsesInv'
      BY <1>0, <2>2, SenderKeepsUses DEF LayoutInv
    <3>5. ProgramsInv'
      BY <3>0, ProgramsUnchanged DEF LayoutInv
    <3>6. QED BY <2>1, <3>1, <3>2, <3>3, <3>4, <3>5 DEF LayoutInv
  <2>3. ASSUME NEW t \in Tables, NEW pid \in Pids \cap PidType, NEW s \in SectionType,
               SectionLogged(t, pid, s)
        PROVE  LayoutInv'
    <3>1. Logged(t, pid, s) /\ UNCHANGED sent
      BY <2>3 DEF SectionLogged
    <3>2. LogInv(log, starts, at)' /\ at' \in Nat \ {0} /\ at <= at' /\ Recorded(t, pid, at')
      BY <3>1, LoggedKeepsLogInv DEF LayoutInv
    <3>3. Applied(t)' \in TableType
      <4>1. Receiver(t)' \in FollowedType
        BY <2>1, ReceiversTypedAfter DEF OrderlyInv, TrackerInv
      <4>2. QED BY <4>1, AppliedIs DEF FollowedType
    <3>4. TransitionsInv'
      BY <1>0, <3>2, <3>3, TransitionsKept DEF LayoutInv
    <3>5. UsesInv'
      BY <1>0, <2>1, <2>3, <3>2, UsesKept DEF LayoutInv
    <3>6. ProgramsInv'
      BY <1>0, <2>1, <2>3, <3>2, ProgramsKept DEF LayoutInv
    <3>7. PidsSent'
      BY <3>1 DEF LayoutInv, PidsSent
    <3>8. QED BY <2>1, <3>2, <3>4, <3>5, <3>6, <3>7 DEF LayoutInv
  <2>4. ASSUME NEW pid \in Pids, NothingLogged(pid) PROVE LayoutInv'
    <3>1. LogInv(log, starts, at)'
      BY <2>4, NothingKeepsLogInv DEF LayoutInv
    <3>2. at' = at + 1 /\ UNCHANGED <<transitions, first>> /\ UNCHANGED trackVars
      BY <2>4 DEF NothingLogged
    <3>3. at' \in Nat /\ at <= at'
      BY <1>0, <3>2
    <3>4. PidsSent' /\ TransitionsInv' /\ UsesInv' /\ ProgramsInv'
      BY <3>2, <3>3, NothingChanges
    <3>5. QED BY <2>1, <3>1, <3>4 DEF LayoutInv
  <2>5. QED BY <1>2, <2>2, <2>3, <2>4, LayoutSteps DEF LayoutInv
<1>3. QED BY <1>1, <1>2

\* In an orderly transmission the log and the changes are always as LayoutInv says.
THEOREM LayoutInvHolds == Orderly /\ LayoutSpec => []LayoutInv
<1>1. Orderly /\ LayoutInit => LayoutInv
  BY InitEstablishesLayoutInv
<1>2. LayoutInv /\ [LayoutNext]_<<trackVars, layoutVars>> => LayoutInv'
  BY NextKeepsLayoutInv
<1>3. QED BY <1>1, <1>2, PTL DEF LayoutSpec

\* In an orderly transmission the layout report is what the analysis applied: each
\* section that arrived is found in one entry that tells its status, and the layouts
\* follow the changes up to the tables in use.
THEOREM LayoutReportsWhatWasApplied == Orderly /\ LayoutSpec => []ReportsWhatWasApplied
<1>1. LayoutInv => ReportsWhatWasApplied
  <2> SUFFICES ASSUME LayoutInv PROVE ReportsWhatWasApplied
    OBVIOUS
  <2>1. at \in Nat
    BY LogParts DEF LayoutInv
  <2>2. EntriesFound
    BY EntriesAreFound DEF LayoutInv
  <2>3. LayoutsAsApplied
    BY <2>1, LayoutsAgree DEF LayoutInv
  <2>4. QED BY <2>2, <2>3 DEF ReportsWhatWasApplied
<1>2. QED BY <1>1, LayoutInvHolds, PTL
===============================================================================
