------------------------- MODULE Judgements_proofs -------------------------
(***************************************************************************)
(* Proofs about reviewing and scoring, for any number of clients, section  *)
(* keys, requirements, requests, edits and failures: what scores was       *)
(* reviewed, and what was overridden is in the audit log.                  *)
(*                                                                         *)
(* And about the judgements, for questions of any size: the hits of any    *)
(* search, the thresholds recommended for any library, the qualification   *)
(* of any profile, the gate and the analysis of any tender, the ensemble   *)
(* of any reviewers and the team for any bid.                              *)
(***************************************************************************)
EXTENDS BidReview, Judgements, FiniteSetTheorems, SequenceTheorems, WellFoundedInduction, TLAPS

-----------------------------------------------------------------------------
\* A nonempty set of positions of a sequence has a last one, which Max finds.
LEMMA MaxOfPositions ==
    ASSUME NEW n \in Nat, NEW A, A \subseteq 1..n, A # {}
    PROVE  Max(A) \in A /\ \A i \in A : i <= Max(A)
<1> DEFINE Above(i) == {j \in 1..n : j > i}
           T == {Above(i) : i \in A}
<1>1. T \subseteq FiniteSubsetsOf(1..n) /\ T # {}
  <2>1. IsFiniteSet(1..n)
    BY FS_Interval
  <2>2. \A i \in A : Above(i) \subseteq 1..n /\ IsFiniteSet(Above(i))
    BY <2>1, FS_Subset
  <2>. QED
    BY <2>2 DEF FiniteSubsetsOf
<1>2. PICK x \in T : \A y \in T : ~(<<y, x>> \in StrictSubsetOrdering(1..n))
  <2>. HIDE DEF T
  <2>. QED
    BY <1>1, FS_StrictSubsetOrderingWellFounded, WFMin
<1>3. PICK m \in A : x = Above(m)
  BY <1>2
<1>4. ASSUME NEW i \in A, ~(m >= i) PROVE FALSE
  <2>1. i \in Above(m) /\ i \notin Above(i) /\ Above(i) \subseteq Above(m)
    BY <1>4
  <2>2. <<Above(i), Above(m)>> \in StrictSubsetOrdering(1..n)
    BY <2>1 DEF StrictSubsetOrdering
  <2>. QED
    BY <1>2, <1>3, <2>2
<1>. QED
  BY <1>3, <1>4 DEF Max

\* The section has a row and, unless it was rewritten, codes are all it lists.
Asked(k, codes) ==
    /\ RowsOf(k) # {}
    /\ k \notin rewritten => \A r \in RowsOf(k) : rows[r].codes \subseteq codes

\* A row of the section lists the code.
Listed(k, code) == \E r \in RowsOf(k) : code \in rows[r].codes

\* What items score, the last review of its section did not leave out or speak against.
Reviewed(items, upto) ==
    /\ upto \in Nat /\ upto <= Len(reports)
    /\ \A code \in DOMAIN items :
         items[code].status = "PASS" /\ items[code].owner \notin rewritten =>
             \/ Cleared(items[code].owner, code, upto)
             \/ LastFailed(items[code].owner, upto)

\* What the rows of sections and of requirements have in common.
RowsInv ==
    /\ rows \in [Keys \X Versions -> [codes : SUBSET Codes, stale : BOOLEAN] \cup {NoRow}]
    /\ known \subseteq Codes
    /\ \A r \in Present : rows[r].codes \subseteq known
    /\ \A k \in Keys \ rewritten : \A r, s \in RowsOf(k) : r = s

\* A review that did not fail was shown what its section lists.
ReportsInv ==
    /\ \E S : reports \in Seq(S)
    /\ \A i \in 1..Len(reports) : \A k \in Keys : reports[i].key = k =>
         /\ RowsOf(k) # {}
         /\ \A shown : ~reports[i].error /\ reports[i].shown = shown => Asked(k, shown)

\* What a request under way has read.
JobInv(c) ==
    /\ job[c].at = "reviewing" => \A codes : \A k \in Keys :
         job[c].key = k /\ job[c].codes = codes => Asked(k, codes)
    /\ job[c].at \in {"sections", "reports"} => job[c].codes \subseteq Codes
    /\ job[c].at = "reports" => \A code, k :
         code \in job[c].codes /\ job[c].owner[code] = k =>
             /\ k \in Keys \cup {NoSection}
             /\ k # NoSection /\ k \notin rewritten => Listed(k, code)
    /\ job[c].at = "save" => \A items, upto :
         job[c].items = items /\ job[c].upto = upto => Reviewed(items, upto)

\* The inductive invariant of reviewing and scoring.
RInv ==
    /\ RowsInv /\ ReportsInv
    /\ job = [c \in Clients |-> job[c]]
    /\ \A c \in Clients : JobInv(c)
    /\ \A s \in scores : Reviewed(s.items, s.upto)

\* Reports are only ever added, at the end.
ReportsGrow == reports' = reports \/ \E x : reports' = Append(reports, x)

\* The bid stays, or a section is saved, or an addendum flags sections.
BidStep ==
    \/ UNCHANGED bid
    \/ \E k \in Keys, v \in Versions, codes \in SUBSET Codes : SaveSection(k, v, codes)
    \/ \E chapters \in SUBSET Keys : ImportAddendum(chapters)

-----------------------------------------------------------------------------
\* Saving a section adds its row and no other, and lists its codes.
LEMMA SavedRows ==
    ASSUME RowsInv, NEW k \in Keys, NEW v \in Versions, NEW codes \in SUBSET Codes,
           SaveSection(k, v, codes)
    PROVE  /\ Present' = Present \cup {<<k, v>>}
           /\ rows'[<<k, v>>].codes = codes
           /\ \A r \in Keys \X Versions : r # <<k, v>> => rows'[r] = rows[r]
           /\ rows' \in [Keys \X Versions -> [codes : SUBSET Codes, stale : BOOLEAN] \cup {NoRow}]
<1> DEFINE row == [codes |-> codes, stale |-> FALSE]
<1>1. row \in [codes : SUBSET Codes, stale : BOOLEAN] /\ row.codes = codes
  OBVIOUS
<1>4. row # NoRow
  BY <1>1, ReviewAssumption
<1>2. rows' = [rows EXCEPT ![<<k, v>>] = row] /\ <<k, v>> \in Keys \X Versions
  BY DEF SaveSection
<1>. HIDE DEF row
<1>. QED
  BY <1>1, <1>2, <1>4 DEF RowsInv, Present

\* Flagging sections changes no code that a row lists, and no row comes or goes.
LEMMA FlaggedRows ==
    ASSUME RowsInv, NEW chapters \in SUBSET Keys, ImportAddendum(chapters)
    PROVE  /\ Present' = Present
           /\ \A r \in Present : rows'[r].codes = rows[r].codes
           /\ rows' \in [Keys \X Versions -> [codes : SUBSET Codes, stale : BOOLEAN] \cup {NoRow}]
<1> DEFINE newest == Max({r[2] : r \in Present})
           Flag(r) == r \in Present /\ r[2] = newest /\ r[1] \in chapters
<1>1. rows' = [r \in Keys \X Versions |-> IF Flag(r) THEN [rows[r] EXCEPT !.stale = TRUE] ELSE rows[r]]
  BY DEF ImportAddendum, mark_generated_chapters_stale
<1>. HIDE DEF Flag
<1>2. ASSUME NEW r \in Present
      PROVE  /\ rows[r] \in [codes : SUBSET Codes, stale : BOOLEAN]
             /\ [rows[r] EXCEPT !.stale = TRUE] \in [codes : SUBSET Codes, stale : BOOLEAN]
             /\ [rows[r] EXCEPT !.stale = TRUE] # NoRow
             /\ [rows[r] EXCEPT !.stale = TRUE].codes = rows[r].codes
  <2>1. rows[r] \in [codes : SUBSET Codes, stale : BOOLEAN]
    BY DEF Present, RowsInv
  <2>2. [rows[r] EXCEPT !.stale = TRUE] \in [codes : SUBSET Codes, stale : BOOLEAN]
    BY <2>1
  <2>. QED
    BY <2>1, <2>2, ReviewAssumption
<1>3. \A r \in Keys \X Versions : Flag(r) => r \in Present
  BY DEF Flag
<1>4. \A r \in Keys \X Versions : r \in Present <=> rows[r] # NoRow
  BY DEF Present
<1>5. \A r \in Keys \X Versions : rows[r] \in [codes : SUBSET Codes, stale : BOOLEAN] \cup {NoRow}
  BY DEF RowsInv
<1>6. \A r \in Keys \X Versions :
        /\ rows'[r] \in [codes : SUBSET Codes, stale : BOOLEAN] \cup {NoRow}
        /\ rows'[r] # NoRow <=> rows[r] # NoRow
        /\ r \in Present => rows'[r].codes = rows[r].codes
  <2>. SUFFICES ASSUME NEW r \in Keys \X Versions
                PROVE  /\ rows'[r] \in [codes : SUBSET Codes, stale : BOOLEAN] \cup {NoRow}
                       /\ rows'[r] # NoRow <=> rows[r] # NoRow
                       /\ r \in Present => rows'[r].codes = rows[r].codes
    OBVIOUS
  <2>1. CASE Flag(r)
    <3>1. rows'[r] = [rows[r] EXCEPT !.stale = TRUE] /\ r \in Present
      BY <1>1, <1>3, <2>1
    <3>. QED
      BY <1>2, <1>4, <3>1
  <2>2. CASE ~Flag(r)
    BY <1>1, <1>5, <2>2
  <2>. QED
    BY <2>1, <2>2
<1>7. Present' = Present
  BY <1>6 DEF Present
<1>8. rows' \in [Keys \X Versions -> [codes : SUBSET Codes, stale : BOOLEAN] \cup {NoRow}]
  BY <1>1, <1>6
<1>. QED
  BY <1>6, <1>7, <1>8 DEF Present

\* A section that has a row keeps it and, unless it is rewritten, what it lists.
LEMMA SectionsStay ==
    ASSUME RowsInv, BidStep, NEW k \in Keys, RowsOf(k) # {}
    PROVE  /\ RowsOf(k)' # {} /\ rewritten \subseteq rewritten'
           /\ k \notin rewritten' =>
                RowsOf(k)' = RowsOf(k) /\ \A r \in RowsOf(k) : rows'[r].codes = rows[r].codes
<1>1. CASE UNCHANGED bid
  BY <1>1 DEF bid, RowsOf, Present
<1>2. ASSUME NEW q \in Keys, NEW v \in Versions, NEW codes \in SUBSET Codes, SaveSection(q, v, codes)
      PROVE  /\ RowsOf(k)' # {} /\ rewritten \subseteq rewritten'
             /\ k \notin rewritten' =>
                  RowsOf(k)' = RowsOf(k) /\ \A r \in RowsOf(k) : rows'[r].codes = rows[r].codes
  <2>1. Present' = Present \cup {<<q, v>>} /\ \A r \in Keys \X Versions : r # <<q, v>> => rows'[r] = rows[r]
    BY <1>2, SavedRows
  <2>2. rewritten' = rewritten \cup {r[1] : r \in RowsOf(q)}
    BY <1>2 DEF SaveSection
  <2>3. RowsOf(k) \subseteq RowsOf(k)'
    BY <2>1 DEF RowsOf
  <2>4. q = k => k \in rewritten'
    BY <2>2 DEF RowsOf
  <2>5. q # k => RowsOf(k)' = RowsOf(k) /\ \A r \in RowsOf(k) : rows'[r].codes = rows[r].codes
    <3>. SUFFICES ASSUME q # k
                  PROVE  RowsOf(k)' = RowsOf(k) /\ \A r \in RowsOf(k) : rows'[r].codes = rows[r].codes
      OBVIOUS
    <3>1. RowsOf(k)' = RowsOf(k)
      BY <2>1 DEF RowsOf
    <3>2. \A r \in RowsOf(k) : r \in Keys \X Versions /\ r # <<q, v>>
      BY DEF RowsOf, Present
    <3>. QED
      BY <2>1, <3>1, <3>2
  <2>. QED
    BY <2>2, <2>3, <2>4, <2>5
<1>3. ASSUME NEW chapters \in SUBSET Keys, ImportAddendum(chapters)
      PROVE  /\ RowsOf(k)' # {} /\ rewritten \subseteq rewritten'
             /\ RowsOf(k)' = RowsOf(k) /\ \A r \in RowsOf(k) : rows'[r].codes = rows[r].codes
  <2>1. Present' = Present /\ \A r \in Present : rows'[r].codes = rows[r].codes
    BY <1>3, FlaggedRows
  <2>2. rewritten' = rewritten
    BY <1>3 DEF ImportAddendum
  <2>. QED
    BY <2>1, <2>2 DEF RowsOf
<1>. QED
  BY <1>1, <1>2, <1>3 DEF BidStep

\* What was asked for a section stays all that it lists, and what it lists stays.
LEMMA AskedStays ==
    ASSUME RowsInv, BidStep, NEW k \in Keys, NEW codes, Asked(k, codes)
    PROVE  Asked(k, codes)'
BY SectionsStay DEF Asked

LEMMA ListedStays ==
    ASSUME RowsInv, BidStep, NEW k \in Keys, NEW code, Listed(k, code), k \notin rewritten'
    PROVE  Listed(k, code)'
<1>1. RowsOf(k) # {}
  BY DEF Listed
<1>. QED
  BY <1>1, SectionsStay DEF Listed

LEMMA RewrittenStays ==
    ASSUME BidStep PROVE rewritten \subseteq rewritten'
BY DEF BidStep, bid, SaveSection, ImportAddendum

\* The rows keep what they have in common.
LEMMA RowsStay ==
    ASSUME RowsInv, BidStep PROVE RowsInv'
<1>1. CASE UNCHANGED bid
  BY <1>1 DEF bid, RowsInv, RowsOf, Present
<1>2. ASSUME NEW q \in Keys, NEW v \in Versions, NEW codes \in SUBSET Codes, SaveSection(q, v, codes)
      PROVE  RowsInv'
  <2>1. /\ Present' = Present \cup {<<q, v>>} /\ rows'[<<q, v>>].codes = codes
        /\ \A r \in Keys \X Versions : r # <<q, v>> => rows'[r] = rows[r]
        /\ rows' \in [Keys \X Versions -> [codes : SUBSET Codes, stale : BOOLEAN] \cup {NoRow}]
    BY <1>2, SavedRows
  <2>2. known' = known \cup codes /\ rewritten' = rewritten \cup {r[1] : r \in RowsOf(q)}
    BY <1>2 DEF SaveSection, Inserted
  <2>3. \A r \in Present' : rows'[r].codes \subseteq known'
    <3>. SUFFICES ASSUME NEW r \in Present' PROVE rows'[r].codes \subseteq known'
      OBVIOUS
    <3>1. CASE r = <<q, v>>
      BY <2>1, <2>2, <3>1
    <3>2. CASE r # <<q, v>>
      <4>1. r \in Present /\ r \in Keys \X Versions
        BY <2>1, <3>2 DEF Present
      <4>. QED
        BY <2>1, <2>2, <3>2, <4>1 DEF RowsInv
    <3>. QED
      BY <3>1, <3>2
  <2>4. ASSUME NEW k \in Keys \ rewritten', NEW r \in RowsOf(k)', NEW s \in RowsOf(k)'
        PROVE  r = s
    <3>1. CASE k = q
      <4>1. RowsOf(q) = {}
        BY <2>2, <2>4, <3>1 DEF RowsOf
      <4>. QED
        BY <2>1, <3>1, <4>1 DEF RowsOf
    <3>2. CASE k # q
      <4>1. RowsOf(k)' = RowsOf(k)
        BY <2>1, <3>2 DEF RowsOf
      <4>. QED
        BY <2>2, <4>1 DEF RowsInv
    <3>. QED
      BY <3>1, <3>2
  <2>. QED
    BY <2>1, <2>2, <2>3, <2>4 DEF RowsInv
<1>3. ASSUME NEW chapters \in SUBSET Keys, ImportAddendum(chapters) PROVE RowsInv'
  <2>1. /\ Present' = Present /\ \A r \in Present : rows'[r].codes = rows[r].codes
        /\ rows' \in [Keys \X Versions -> [codes : SUBSET Codes, stale : BOOLEAN] \cup {NoRow}]
    BY <1>3, FlaggedRows
  <2>2. known' = known /\ rewritten' = rewritten
    BY <1>3 DEF ImportAddendum
  <2>3. \A k : RowsOf(k)' = RowsOf(k)
    BY <2>1 DEF RowsOf
  <2>. QED
    BY <2>1, <2>2, <2>3 DEF RowsInv
<1>. QED
  BY <1>1, <1>2, <1>3 DEF BidStep

-----------------------------------------------------------------------------
\* What a scoring found reviewed stays so: later reports are behind it.
LEMMA ReviewedStays ==
    ASSUME NEW S, reports \in Seq(S), ReportsGrow, rewritten \subseteq rewritten',
           NEW items, NEW upto, Reviewed(items, upto)
    PROVE  Reviewed(items, upto)'
<1>1. CASE reports' = reports
  BY <1>1 DEF Reviewed, Cleared, LastFailed, Accuses, Reported
<1>2. CASE reports' # reports
  <2>1. PICK x : reports' = Append(reports, x)
    BY <1>2 DEF ReportsGrow
  <2>2. /\ Len(reports) \in Nat /\ Len(reports') = Len(reports) + 1
        /\ \A i \in 1..Len(reports) : reports'[i] = reports[i]
    BY <2>1
  <2>3. upto \in Nat /\ upto <= Len(reports)
    BY DEF Reviewed
  <2>4. \A key : Reported(key, upto)' = Reported(key, upto)
    BY <2>2, <2>3 DEF Reported
  <2>5. ASSUME NEW key, Reported(key, upto) # {}
        PROVE  reports'[Max(Reported(key, upto)')] = reports[Max(Reported(key, upto))]
    <3>1. Reported(key, upto) \subseteq 1..upto
      BY DEF Reported
    <3>2. Max(Reported(key, upto)) \in 1..Len(reports)
      BY <2>2, <2>3, <2>5, <3>1, MaxOfPositions
    <3>. QED
      BY <2>2, <2>4, <3>2
  <2>6. \A key, code : Cleared(key, code, upto) => Cleared(key, code, upto)'
    BY <2>4, <2>5 DEF Cleared, Accuses
  <2>7. \A key : LastFailed(key, upto) => LastFailed(key, upto)'
    BY <2>4, <2>5 DEF LastFailed
  <2>8. upto <= Len(reports')
    BY <2>2, <2>3
  <2>9. \A code \in DOMAIN items :
          items[code].status = "PASS" /\ items[code].owner \notin rewritten' =>
             \/ Cleared(items[code].owner, code, upto)'
             \/ LastFailed(items[code].owner, upto)'
    BY <2>6, <2>7 DEF Reviewed
  <2>. QED
    BY <2>3, <2>8, <2>9 DEF Reviewed
<1>. QED
  BY <1>1, <1>2

\* A new report of a review that was shown what its section lists keeps the
\* reports' invariant.
LEMMA ReportAdded ==
    ASSUME RowsInv, ReportsInv, UNCHANGED bid, NEW x, reports' = Append(reports, x),
           x.key \in Keys => RowsOf(x.key) # {} /\ (~x.error => Asked(x.key, x.shown))
    PROVE  ReportsInv'
<1>1. PICK S : reports \in Seq(S)
  BY DEF ReportsInv
<1>2. /\ Len(reports) \in Nat /\ Len(reports') = Len(reports) + 1
      /\ \A i \in 1..Len(reports) : reports'[i] = reports[i]
      /\ reports'[Len(reports')] = x
  BY <1>1
<1>3. \E R : reports' \in Seq(R)
  <2>1. reports' \in Seq(S \cup {x})
    BY <1>1
  <2>. QED
    BY <2>1
<1>4. \A k : RowsOf(k)' = RowsOf(k) /\ \A codes : Asked(k, codes)' <=> Asked(k, codes)
  BY DEF bid, Asked, RowsOf, Present
<1>5. ASSUME NEW i \in 1..Len(reports'), NEW k \in Keys, reports'[i].key = k
      PROVE  /\ RowsOf(k)' # {}
             /\ \A shown : ~reports'[i].error /\ reports'[i].shown = shown => Asked(k, shown)'
  <2>1. CASE i \in 1..Len(reports)
    BY <1>2, <1>4, <1>5, <2>1 DEF ReportsInv
  <2>2. CASE i = Len(reports')
    BY <1>2, <1>4, <1>5, <2>2
  <2>. QED
    BY <1>2, <2>1, <2>2
<1>. QED
  BY <1>3, <1>5 DEF ReportsInv

\* The reports that are there keep their invariant whatever the bid does.
LEMMA ReportsStay ==
    ASSUME RowsInv, ReportsInv, BidStep, reports' = reports
    PROVE  ReportsInv'
<1>1. \A k \in Keys : RowsOf(k) # {} => RowsOf(k)' # {}
  BY SectionsStay
<1>2. \A k \in Keys : \A codes : Asked(k, codes) => Asked(k, codes)'
  BY AskedStays
<1>. QED
  BY <1>1, <1>2 DEF ReportsInv

\* A request that does not move keeps what it read.
LEMMA JobStays ==
    ASSUME RowsInv, ReportsInv, BidStep, ReportsGrow, NEW c \in Clients, job'[c] = job[c], JobInv(c)
    PROVE  JobInv(c)'
<1>1. PICK S : reports \in Seq(S)
  BY DEF ReportsInv
<1>2. rewritten \subseteq rewritten'
  BY RewrittenStays
<1>3. \A codes : \A k \in Keys : Asked(k, codes) => Asked(k, codes)'
  BY AskedStays
<1>4. \A items, upto : Reviewed(items, upto) => Reviewed(items, upto)'
  BY <1>1, <1>2, ReviewedStays
<1>5. ASSUME NEW k \in Keys, NEW code, k \notin rewritten', Listed(k, code)
      PROVE  k \notin rewritten /\ Listed(k, code)'
  BY <1>2, <1>5, ListedStays
<1>. QED
  BY <1>2, <1>3, <1>4, <1>5 DEF JobInv

\* A request that moves keeps the invariant when the place it moves to does.
LEMMA MovesKeep ==
    ASSUME RInv, UNCHANGED bid, ReportsGrow, ReportsInv',
           NEW c \in Clients, NEW next, Goto(c, next), JobInv(c)',
           \A s \in scores' : s \in scores \/ Reviewed(s.items, s.upto)'
    PROVE  RInv'
<1>1. PICK S : reports \in Seq(S)
  BY DEF RInv, ReportsInv
<1>2. BidStep /\ rewritten \subseteq rewritten'
  BY DEF BidStep, bid
<1>3. RowsInv'
  BY <1>2, RowsStay DEF RInv
<1>4. \A s \in scores' : Reviewed(s.items, s.upto)'
  BY <1>1, <1>2, ReviewedStays DEF RInv
<1>5. ASSUME NEW q \in Clients PROVE JobInv(q)'
  <2>1. CASE q # c
    <3>1. job'[q] = job[q]
      BY <2>1 DEF Goto, RInv
    <3>. QED
      BY <1>2, <3>1, JobStays DEF RInv
  <2>. QED
    BY <2>1
<1>6. job' = [x \in Clients |-> job'[x]]
  BY DEF Goto, RInv
<1>. QED
  BY <1>3, <1>4, <1>5, <1>6 DEF RInv

\* What a scoring reads of the reports is what the last of them say.
LEMMA ScoredReviewed ==
    ASSUME RInv, NEW c \in Clients, job[c].at = "reports"
    PROVE  Reviewed(Scored(job[c].owner, job[c].codes), Len(reports))
<1> DEFINE owner == job[c].owner
           codes == job[c].codes
           n == Len(reports)
<1>1. PICK S : reports \in Seq(S)
  BY DEF RInv, ReportsInv
<1>2. n \in Nat
  BY <1>1
<1>3. ASSUME NEW code \in codes, Scored(owner, codes)[code].status = "PASS", owner[code] \notin rewritten
      PROVE  Cleared(owner[code], code, n) \/ LastFailed(owner[code], n)
  <2> DEFINE k == owner[code]
             report == Latest(k)
             last == Max(Reported(k, n))
  <2>1. ScoreStatus(code, k, report) = "PASS"
    BY <1>3 DEF Scored
  <2>2. k # NoSection /\ report # NoReport
    <3>. HIDE DEF report, k
    <3>. QED
      BY <2>1 DEF ScoreStatus
  <2>3. ~Accuses(report, code)
    <3>. HIDE DEF report, k
    <3>1. report.status = "PASS" \/ ~(\E i \in report.issues : i.code \in {code, "PARSE_ERROR"})
      BY <2>1, <2>2 DEF ScoreStatus
    <3>. QED
      BY <3>1 DEF Accuses
  <2>4. Reported(k, n) # {} /\ report = reports[last]
    BY <2>2 DEF Latest
  <2>5. last \in 1..n /\ reports[last].key = k
    <3>1. Reported(k, n) \subseteq 1..n
      BY DEF Reported
    <3>2. last \in Reported(k, n)
      BY <1>2, <2>4, <3>1, MaxOfPositions
    <3>. QED
      BY <3>2 DEF Reported
  <2>6. k \in Keys /\ Listed(k, code)
    BY <1>3, <2>2 DEF RInv, JobInv
  <2>7. ~reports[last].error => Asked(k, reports[last].shown)
    BY <2>5, <2>6 DEF RInv, ReportsInv
  <2>8. ~reports[last].error => code \in reports[last].shown
    BY <1>3, <2>6, <2>7 DEF Listed, Asked
  <2>. HIDE DEF k
  <2>. QED
    BY <2>3, <2>4, <2>8 DEF Cleared, LastFailed, k
<1>4. /\ DOMAIN Scored(owner, codes) = codes
      /\ \A code \in codes : Scored(owner, codes)[code].owner = owner[code]
  BY DEF Scored
<1>. QED
  BY <1>2, <1>3, <1>4 DEF Reviewed

\* Nothing is written, scored or reported at first.
LEMMA InitRInv == Init => RInv
<1>. SUFFICES ASSUME Init PROVE RInv
  OBVIOUS
<1>1. reports \in Seq({}) /\ Len(reports) = 0
  BY DEF Init
<1>2. job = [c \in Clients |-> job[c]] /\ \A c \in Clients : job[c].at = "idle"
  BY DEF Init, Idle
<1>3. Present = {}
  BY DEF Init, Present
<1>4. RowsInv
  BY <1>3 DEF Init, RowsInv, RowsOf
<1>5. ReportsInv
  BY <1>1 DEF ReportsInv
<1>6. \A c \in Clients : JobInv(c)
  BY <1>2 DEF JobInv
<1>. QED
  BY <1>2, <1>4, <1>5, <1>6 DEF Init, RInv

\* The steps of a request that adds a report.
ReportStep(c) ==
    \/ \E k \in Keys, row \in Present : create_empty_report(c, k, row)
    \/ NothingRequired(c) \/ ReviewFails(c)
    \/ \E verdict \in Verdicts : ReviewAnswers(c, verdict)

\* The steps of a request that neither reports nor scores.
PlainStep(c) ==
    \/ Dies(c) \/ AnswerOverride(c) \/ record_audit_event(c)
    \/ \E f \in SUBSET {Finding("NEG-DEV", "deviation", "P0"), Finding("STAFF-SS-LOW", "social", "P1")} :
         Override(c, f)
    \/ \E stored \in BOOLEAN : AuditFails(c, stored)

LEMMA PlainSteps ==
    ASSUME NEW c \in Clients, PlainStep(c)
    PROVE  /\ scores' = scores /\ reports' = reports /\ UNCHANGED bid
           /\ \E next : Goto(c, next) /\ next.at \in {"idle", "audit", "audited"}
<1>1. CASE Dies(c) \/ AnswerOverride(c)
  BY <1>1 DEF Dies, AnswerOverride, Idle
<1>2. CASE record_audit_event(c) \/ \E stored \in BOOLEAN : AuditFails(c, stored)
  <2>1. \E ok \in BOOLEAN : Goto(c, [at |-> "audited", id |-> job[c].id, ok |-> ok])
    BY <1>2 DEF record_audit_event, AuditFails
  <2>2. scores' = scores /\ reports' = reports /\ UNCHANGED bid
    BY <1>2 DEF record_audit_event, AuditFails
  <2>. QED
    BY <2>1, <2>2
<1>3. CASE \E f \in SUBSET {Finding("NEG-DEV", "deviation", "P0"), Finding("STAFF-SS-LOW", "social", "P1")} :
              Override(c, f)
  BY <1>3 DEF Override
<1>. QED
  BY <1>1, <1>2, <1>3 DEF PlainStep

\* A report that is added holds what its review was asked of its section.
LEMMA ReportSteps ==
    ASSUME RInv, NEW c \in Clients, ReportStep(c)
    PROVE  /\ scores' = scores /\ UNCHANGED bid /\ Goto(c, Idle)
           /\ \E x : /\ reports' = Append(reports, x)
                     /\ x.key \in Keys => RowsOf(x.key) # {} /\ (~x.error => Asked(x.key, x.shown))
<1>1. CASE \E k \in Keys, row \in Present : create_empty_report(c, k, row)
  <2>1. PICK k \in Keys, row \in Present : create_empty_report(c, k, row)
    BY <1>1
  <2>2. PICK x : Save(c, x) /\ x.key = k /\ x.shown = {}
    <3>1. PICK status : Save(c, Report(k, {}, status, {}, FALSE, <<1, 1>>))
      BY <2>1 DEF create_empty_report
    <3>. QED
      BY <3>1 DEF Report
  <2>3. row \in RowsOf(k) /\ rows[row].codes \cap known = {}
    BY <2>1 DEF create_empty_report
  <2>4. rows[row].codes = {}
    BY <2>3 DEF RInv, RowsInv
  <2>5. k \notin rewritten => \A r \in RowsOf(k) : r = row
    BY <2>3 DEF RInv, RowsInv
  <2>6. Asked(k, {})
    BY <2>3, <2>4, <2>5 DEF Asked
  <2>. QED
    BY <2>2, <2>3, <2>6 DEF Save
<1>2. CASE NothingRequired(c)
  <2>1. Save(c, Report(Full, {}, "WARN", {}, FALSE, <<0, 1>>))
    BY <1>2 DEF NothingRequired
  <2>. QED
    BY <2>1, ReviewAssumption DEF Save, Report
<1>3. CASE ReviewFails(c) \/ \E verdict \in Verdicts : ReviewAnswers(c, verdict)
  <2>1. PICK x : Save(c, x) /\ x.key = job[c].key /\ x.shown = job[c].codes
    <3>1. PICK status, issues, error, coverage :
              Save(c, Report(job[c].key, job[c].codes, status, issues, error, coverage))
      BY <1>3 DEF ReviewFails, ReviewAnswers
    <3>. QED
      BY <3>1 DEF Report
  <2>2. job[c].at = "reviewing"
    BY <1>3 DEF ReviewFails, ReviewAnswers
  <2>3. job[c].key \in Keys => Asked(job[c].key, job[c].codes)
    BY <2>2 DEF RInv, JobInv
  <2>4. job[c].key \in Keys => RowsOf(job[c].key) # {}
    BY <2>3 DEF Asked
  <2>. QED
    BY <2>1, <2>3, <2>4 DEF Save
<1>. QED
  BY <1>1, <1>2, <1>3 DEF ReportStep

\* The invariant is inductive.
LEMMA NextRInv == RInv /\ [Next]_vars => RInv'
<1>. SUFFICES ASSUME RInv, [Next]_vars PROVE RInv'
  OBVIOUS
<1>1. PICK S : reports \in Seq(S)
  BY DEF RInv, ReportsInv
<1>2. CASE BidStep /\ UNCHANGED <<reports, scores, job>>
  <2>1. ReportsGrow /\ rewritten \subseteq rewritten'
    BY <1>2, RewrittenStays DEF ReportsGrow
  <2>2. RowsInv' /\ ReportsInv'
    BY <1>2, RowsStay, ReportsStay DEF RInv
  <2>3. \A c \in Clients : JobInv(c)'
    BY <1>2, <2>1, JobStays DEF RInv
  <2>4. \A s \in scores' : Reviewed(s.items, s.upto)'
    BY <1>1, <1>2, <2>1, ReviewedStays DEF RInv
  <2>5. job' = [x \in Clients |-> job'[x]]
    BY <1>2 DEF RInv
  <2>. QED
    BY <2>2, <2>3, <2>4, <2>5 DEF RInv
<1>3. ASSUME NEW c \in Clients, PlainStep(c) PROVE RInv'
  <2>1. PICK next : Goto(c, next) /\ next.at \in {"idle", "audit", "audited"}
    BY <1>3, PlainSteps
  <2>2. scores' = scores /\ reports' = reports /\ UNCHANGED bid
    BY <1>3, PlainSteps
  <2>3. job'[c] = next
    BY <2>1 DEF Goto, RInv
  <2>4. JobInv(c)'
    BY <2>1, <2>3 DEF JobInv
  <2>5. BidStep /\ ReportsGrow /\ ReportsInv'
    BY <2>2, ReportsStay DEF BidStep, ReportsGrow, RInv
  <2>. QED
    BY <2>1, <2>2, <2>4, <2>5, MovesKeep
<1>4. ASSUME NEW c \in Clients, ReportStep(c) PROVE RInv'
  <2>1. scores' = scores /\ UNCHANGED bid /\ Goto(c, Idle)
    BY <1>4, ReportSteps
  <2>2. PICK x : /\ reports' = Append(reports, x)
                 /\ x.key \in Keys => RowsOf(x.key) # {} /\ (~x.error => Asked(x.key, x.shown))
    BY <1>4, ReportSteps
  <2>3. ReportsInv' /\ ReportsGrow
    BY <2>1, <2>2, ReportAdded DEF RInv, ReportsGrow
  <2>4. JobInv(c)'
    BY <2>1 DEF Goto, RInv, JobInv, Idle
  <2>. HIDE DEF Idle
  <2>. QED
    BY <2>1, <2>3, <2>4, MovesKeep
<1>5. ASSUME NEW c \in Clients,
             ReadDocument(c) \/ \E k \in Keys, row \in Present : ReadSection(c, k, row)
      PROVE  RInv'
  <2>1. PICK k, codes : /\ Goto(c, [at |-> "reviewing", key |-> k, codes |-> codes])
                        /\ k \in Keys => Asked(k, codes)
    <3>1. CASE ReadDocument(c)
      BY <3>1, ReviewAssumption DEF ReadDocument
    <3>2. CASE \E k \in Keys, row \in Present : ReadSection(c, k, row)
      <4>1. PICK k \in Keys, row \in Present : ReadSection(c, k, row)
        BY <3>2
      <4>2. /\ row \in RowsOf(k)
            /\ Goto(c, [at |-> "reviewing", key |-> k, codes |-> rows[row].codes \cap known])
        BY <4>1 DEF ReadSection
      <4>3. rows[row].codes \cap known = rows[row].codes
        BY DEF RInv, RowsInv
      <4>4. k \notin rewritten => \A r \in RowsOf(k) : r = row
        BY <4>2 DEF RInv, RowsInv
      <4>5. Asked(k, rows[row].codes \cap known)
        BY <4>2, <4>3, <4>4 DEF Asked
      <4>. QED
        BY <4>2, <4>5
    <3>. QED
      BY <1>5, <3>1, <3>2
  <2>2. scores' = scores /\ reports' = reports /\ UNCHANGED bid
    BY <1>5 DEF ReadDocument, ReadSection
  <2>3. job'[c] = [at |-> "reviewing", key |-> k, codes |-> codes]
    BY <2>1 DEF Goto, RInv
  <2>4. k \in Keys => Asked(k, codes)'
    BY <2>1, <2>2 DEF bid, Asked, RowsOf, Present
  <2>5. JobInv(c)'
    BY <2>3, <2>4 DEF JobInv
  <2>6. BidStep /\ ReportsGrow /\ ReportsInv'
    BY <2>2, ReportsStay DEF BidStep, ReportsGrow, RInv
  <2>. QED
    BY <2>1, <2>2, <2>5, <2>6, MovesKeep
<1>6. ASSUME NEW c \in Clients, ReadRequirements(c) PROVE RInv'
  <2> DEFINE next == [at |-> "sections", codes |-> known]
  <2>1. Goto(c, next) /\ scores' = scores /\ reports' = reports /\ UNCHANGED bid
    BY <1>6 DEF ReadRequirements
  <2>2. job'[c] = next
    BY <2>1 DEF Goto, RInv
  <2>3. JobInv(c)'
    BY <2>2 DEF JobInv, RInv, RowsInv
  <2>4. BidStep /\ ReportsGrow /\ ReportsInv'
    BY <2>1, ReportsStay DEF BidStep, ReportsGrow, RInv
  <2>. HIDE DEF next
  <2>. QED
    BY <2>1, <2>3, <2>4, MovesKeep
<1>7. ASSUME NEW c \in Clients, NEW owner \in [Codes -> Keys \cup {NoSection}], ReadSections(c, owner)
      PROVE  RInv'
  <2> DEFINE next == [at |-> "reports", codes |-> job[c].codes, owner |-> owner]
  <2>1. /\ Goto(c, next) /\ scores' = scores /\ reports' = reports /\ UNCHANGED bid
        /\ job[c].at = "sections" /\ \A code \in Codes : owner[code] \in Owners(code)
    BY <1>7 DEF ReadSections
  <2>2. job'[c] = next
    BY <2>1 DEF Goto, RInv
  <2>3. job[c].codes \subseteq Codes
    BY <2>1 DEF RInv, JobInv
  <2>4. \A code \in Codes : owner[code] # NoSection => Listed(owner[code], code)
    <3>. SUFFICES ASSUME NEW code \in Codes, owner[code] # NoSection PROVE Listed(owner[code], code)
      OBVIOUS
    <3>1. owner[code] \in {r[1] : r \in {x \in Present : code \in rows[x].codes}}
      BY <2>1 DEF Owners
    <3>. QED
      BY <3>1 DEF Listed, RowsOf
  <2>5. \A code \in Codes : owner[code] # NoSection => Listed(owner[code], code)'
    BY <2>1, <2>4 DEF bid, Listed, RowsOf, Present
  <2>6. JobInv(c)'
    BY <2>2, <2>3, <2>5 DEF JobInv
  <2>7. BidStep /\ ReportsGrow /\ ReportsInv'
    BY <2>1, ReportsStay DEF BidStep, ReportsGrow, RInv
  <2>. HIDE DEF next
  <2>. QED
    BY <2>1, <2>6, <2>7, MovesKeep
<1>8. ASSUME NEW c \in Clients, ReadReports(c) PROVE RInv'
  <2>1. PICK items, upto : items = Scored(job[c].owner, job[c].codes) /\ upto = Len(reports)
    OBVIOUS
  <2> DEFINE next == [at |-> "save", upto |-> upto, items |-> items]
  <2>2. Goto(c, next) /\ scores' = scores /\ reports' = reports /\ UNCHANGED bid /\ job[c].at = "reports"
    BY <1>8, <2>1 DEF ReadReports
  <2>3. job'[c] = next
    BY <2>2 DEF Goto, RInv
  <2>4. Reviewed(items, upto)
    BY <2>1, <2>2, ScoredReviewed
  <2>5. BidStep /\ ReportsGrow /\ ReportsInv' /\ rewritten \subseteq rewritten'
    BY <2>2, ReportsStay DEF BidStep, ReportsGrow, RInv, bid
  <2>6. Reviewed(items, upto)'
    BY <1>1, <2>4, <2>5, ReviewedStays
  <2>7. JobInv(c)'
    BY <2>3, <2>6 DEF JobInv
  <2>. HIDE DEF next
  <2>. QED
    BY <2>2, <2>5, <2>7, MovesKeep
<1>9. ASSUME NEW c \in Clients, SaveScore(c) PROVE RInv'
  <2>1. /\ Goto(c, Idle) /\ reports' = reports /\ UNCHANGED bid /\ job[c].at = "save"
        /\ scores' = scores \cup {[items |-> job[c].items, upto |-> job[c].upto]}
    BY <1>9 DEF SaveScore
  <2>2. JobInv(c)'
    BY <2>1 DEF Goto, RInv, JobInv, Idle
  <2>3. BidStep /\ ReportsGrow /\ ReportsInv' /\ rewritten \subseteq rewritten'
    BY <2>1, ReportsStay DEF BidStep, ReportsGrow, RInv, bid
  <2>4. Reviewed(job[c].items, job[c].upto)
    BY <2>1 DEF RInv, JobInv
  <2>5. \A it, upto : Reviewed(it, upto) => Reviewed(it, upto)'
    BY <1>1, <2>3, ReviewedStays
  <2>6. \A s \in scores' : s \in scores \/ Reviewed(s.items, s.upto)'
    <3>. SUFFICES ASSUME NEW s \in scores', s \notin scores PROVE Reviewed(s.items, s.upto)'
      OBVIOUS
    <3>1. s.items = job[c].items /\ s.upto = job[c].upto
      BY <2>1
    <3>. QED
      BY <2>4, <2>5, <3>1
  <2>. HIDE DEF Idle
  <2>. QED
    BY <2>1, <2>2, <2>3, <2>6, MovesKeep
<1>10. CASE \/ \E k \in Keys, v \in Versions, codes \in SUBSET Codes : SaveSection(k, v, codes)
            \/ \E chapters \in SUBSET Keys : ImportAddendum(chapters)
  <2>1. BidStep
    BY <1>10 DEF BidStep
  <2>2. UNCHANGED <<reports, scores, job>>
    BY <1>10 DEF SaveSection, ImportAddendum
  <2>. QED
    BY <1>2, <2>1, <2>2
<1>11. CASE UNCHANGED vars
  BY <1>2, <1>11 DEF vars, BidStep
<1>. QED
  BY <1>3, <1>4, <1>5, <1>6, <1>7, <1>8, <1>9, <1>10, <1>11 DEF Next, ReportStep, PlainStep

\* What scores was reviewed: the last review of its section was asked about it
\* and did not speak against it, unless that review failed or the section was
\* rewritten (scoring_engine.calculate_score, review_engine.review_section).
THEOREM ScoresWereReviewed == Spec => []SettledScoresWereReviewed
<1>1. RInv => SettledScoresWereReviewed
  BY DEF RInv, SettledScoresWereReviewed, Reviewed
<1>. QED
  BY <1>1, InitRInv, NextRInv, PTL DEF Spec

-----------------------------------------------------------------------------
\* What was granted, or is about to be, is in the audit log.
AInv ==
    /\ OverridesAreAudited
    /\ job = [c \in Clients |-> job[c]]
    /\ \A c \in Clients : job[c].at = "audited" /\ job[c].ok => job[c].id \in audit

\* No step takes anything from the log, or grants what is not in it.
LEMMA NextAInv == AInv /\ [Next]_vars => AInv'
<1>. SUFFICES ASSUME AInv, [Next]_vars PROVE AInv'
  OBVIOUS
<1>1. CASE UNCHANGED <<audit, overridden, job>>
  BY <1>1 DEF AInv, OverridesAreAudited
<1>2. ASSUME NEW c \in Clients, NEW next, Goto(c, next), audit \subseteq audit',
             overridden' \subseteq audit',
             next.at = "audited" /\ next.ok => next.id \in audit'
      PROVE  AInv'
  <2>1. job' = [x \in Clients |-> job'[x]] /\ job'[c] = next
        /\ \A d \in Clients : d # c => job'[d] = job[d]
    BY <1>2 DEF Goto, AInv
  <2>. QED
    BY <1>2, <2>1 DEF AInv, OverridesAreAudited
<1>3. ASSUME NEW c \in Clients, record_audit_event(c) PROVE AInv'
  <2> DEFINE next == [at |-> "audited", id |-> job[c].id, ok |-> TRUE]
  <2>1. Goto(c, next) /\ audit' = audit \cup {job[c].id} /\ overridden' = overridden
    BY <1>3 DEF record_audit_event
  <2>2. next.id \in audit'
    BY <2>1
  <2>3. overridden' \subseteq audit'
    BY <2>1 DEF AInv, OverridesAreAudited
  <2>. HIDE DEF next
  <2>. QED
    BY <1>2, <2>1, <2>2, <2>3
<1>4. ASSUME NEW c \in Clients, NEW stored \in BOOLEAN, AuditFails(c, stored) PROVE AInv'
  <2> DEFINE next == [at |-> "audited", id |-> job[c].id, ok |-> FALSE]
  <2>1. Goto(c, next) /\ audit \subseteq audit' /\ overridden' = overridden
    BY <1>4 DEF AuditFails
  <2>2. ~next.ok
    OBVIOUS
  <2>3. overridden' \subseteq audit'
    BY <2>1 DEF AInv, OverridesAreAudited
  <2>. HIDE DEF next
  <2>. QED
    BY <1>2, <2>1, <2>2, <2>3
<1>5. ASSUME NEW c \in Clients, AnswerOverride(c) PROVE AInv'
  <2>1. Goto(c, Idle) /\ audit' = audit /\ overridden' \subseteq audit'
    BY <1>5 DEF AnswerOverride, AInv, OverridesAreAudited
  <2>2. Idle.at # "audited"
    BY DEF Idle
  <2>. QED
    BY <1>2, <2>1, <2>2
<1>6. ASSUME NEW c \in Clients, NEW next, Goto(c, next), next.at # "audited",
             UNCHANGED <<audit, overridden>>
      PROVE  AInv'
  BY <1>2, <1>6 DEF AInv, OverridesAreAudited
<1>7. ASSUME NEW c \in Clients,
             ReadRequirements(c) \/ ReadReports(c) \/ SaveScore(c)
                \/ \E owner \in [Codes -> Keys \cup {NoSection}] : ReadSections(c, owner)
      PROVE  AInv'
  <2>1. CASE ReadRequirements(c) \/ SaveScore(c)
    BY <1>6, <2>1 DEF ReadRequirements, SaveScore, Idle
  <2>2. CASE ReadReports(c)
    BY <1>6, <2>2 DEF ReadReports
  <2>3. ASSUME NEW owner, ReadSections(c, owner) PROVE AInv'
    BY <1>6, <2>3 DEF ReadSections
  <2>. QED
    BY <1>7, <2>1, <2>2, <2>3
<1>8. ASSUME NEW c \in Clients,
             \/ \E k \in Keys, row \in Present : ReadSection(c, k, row) \/ create_empty_report(c, k, row)
             \/ ReadDocument(c) \/ NothingRequired(c)
             \/ \E verdict \in Verdicts : ReviewAnswers(c, verdict)
             \/ ReviewFails(c) \/ Dies(c)
             \/ \E f \in SUBSET {Finding("NEG-DEV", "deviation", "P0"),
                                  Finding("STAFF-SS-LOW", "social", "P1")} : Override(c, f)
      PROVE  AInv'
  <2>1. ASSUME NEW k, NEW row, ReadSection(c, k, row) PROVE AInv'
    BY <1>6, <2>1 DEF ReadSection
  <2>2. CASE ReadDocument(c)
    BY <1>6, <2>2 DEF ReadDocument
  <2>3. ASSUME NEW report, Save(c, report) PROVE AInv'
    BY <1>6, <2>3 DEF Save, Idle
  <2>4. CASE Dies(c)
    BY <1>6, <2>4 DEF Dies, Idle
  <2>5. ASSUME NEW f, Override(c, f) PROVE AInv'
    BY <1>6, <2>5 DEF Override
  <2>. QED
    BY <1>8, <2>1, <2>2, <2>3, <2>4, <2>5
    DEF create_empty_report, NothingRequired, ReviewAnswers, ReviewFails
<1>9. CASE \/ \E k \in Keys, v \in Versions, codes \in SUBSET Codes : SaveSection(k, v, codes)
           \/ \E chapters \in SUBSET Keys : ImportAddendum(chapters)
           \/ UNCHANGED vars
  BY <1>1, <1>9 DEF SaveSection, ImportAddendum, vars
<1>. QED
  BY <1>3, <1>4, <1>5, <1>7, <1>8, <1>9 DEF Next

\* An override that was granted is in the audit log, whichever commit fails
\* and wherever the request dies (redline_v2.apply_redline_override).
THEOREM OverridesRecorded == Spec => []OverridesAreAudited
<1>1. Init => AInv
  <2>. SUFFICES ASSUME Init PROVE AInv
    OBVIOUS
  <2>1. job = [c \in Clients |-> job[c]] /\ \A c \in Clients : job[c].at = "idle"
    BY DEF Init, Idle
  <2>. QED
    BY <2>1 DEF Init, AInv, OverridesAreAudited
<1>2. AInv => OverridesAreAudited
  BY DEF AInv
<1>. QED
  BY <1>1, <1>2, NextAInv, PTL DEF Spec

-----------------------------------------------------------------------------
(* Numbers.                                                                *)
\* A nonempty set of naturals has a first one, which Min finds.
LEMMA MinOfPositions ==
    ASSUME NEW A, A \subseteq Nat, A # {}
    PROVE  Min(A) \in A /\ \A y \in A : Min(A) <= y
<1>1. PICK m \in A : \A y \in A : ~(<<y, m>> \in OpToRel(<, Nat))
  BY NatLessThanWellFounded, WFMin
<1>2. ASSUME NEW y \in A PROVE m <= y
  <2>1. m \in Nat /\ y \in Nat
    OBVIOUS
  <2>2. ~(y < m)
    BY <1>1, <2>1, Zenon DEF OpToRel
  <2>. QED
    BY <2>1, <2>2
<1>. QED
  BY <1>2 DEF Min

\* The larger of two numbers, and the smaller.
LEMMA MaxOfTwo ==
    ASSUME NEW a \in Int, NEW b \in Int
    PROVE  Max({a, b}) = IF a >= b THEN a ELSE b
<1>. PICK m \in {a, b} : m = (IF a >= b THEN a ELSE b) /\ \A y \in {a, b} : m >= y
  OBVIOUS
<1>1. \A x \in {a, b} : (\A y \in {a, b} : x >= y) => x = m
  OBVIOUS
<1>. QED
  BY <1>1 DEF Max

\* The smaller of two numbers.
LEMMA MinOfTwo ==
    ASSUME NEW a \in Int, NEW b \in Int
    PROVE  Min({a, b}) = IF a <= b THEN a ELSE b
<1>. PICK m \in {a, b} : m = (IF a <= b THEN a ELSE b) /\ \A y \in {a, b} : m <= y
  OBVIOUS
<1>1. \A x \in {a, b} : (\A y \in {a, b} : x <= y) => x = m
  OBVIOUS
<1>. QED
  BY <1>1 DEF Min

\* A number pressed between two bounds.
LEMMA ClampBetween ==
    ASSUME NEW x \in Int, NEW low \in Int, NEW high \in Int, low <= high
    PROVE  /\ Clamp(x, low, high) \in low..high
           /\ Clamp(x, low, high) = IF x <= low THEN low ELSE IF x >= high THEN high ELSE x
<1>1. PICK m \in Int : m = Min({high, x}) /\ m = (IF high <= x THEN high ELSE x)
  BY MinOfTwo
<1>2. Max({low, m}) = (IF low >= m THEN low ELSE m)
  BY <1>1, MaxOfTwo
<1>3. Clamp(x, low, high) = Max({low, m})
  BY <1>1 DEF Clamp
<1>. QED
  BY <1>1, <1>2, <1>3

\* The same, where the library's statistics press it.
LEMMA ClampedBetween ==
    ASSUME NEW x \in Int, NEW low \in Int, NEW high \in Int, low <= high
    PROVE  Clamped(x, low, high) \in low..high
<1>1. Clamped(x, low, high) = Clamp(x, low, high)
  BY DEF Clamped, Clamp
<1>. QED
  BY <1>1, ClampBetween

\* A share is rounded to a number next to it.
LEMMA RoundedNear ==
    ASSUME NEW a \in Int, NEW b \in Nat \ {0}
    PROVE  /\ Rounded(a, b) \in Int
           /\ 2 * b * Rounded(a, b) <= 2 * a + b
           /\ 2 * a - b <= 2 * b * Rounded(a, b)
<1>1. PICK q \in Int : q = a \div b
  OBVIOUS
<1>2. PICK r \in 0..(b - 1) : r = a % b
  OBVIOUS
<1>3. a = b * q + r
  BY <1>1, <1>2
<1>4. CASE Rounded(a, b) = q /\ ~(2 * r > b)
  BY <1>3, <1>4
<1>5. CASE Rounded(a, b) = q + 1 /\ 2 * r >= b
  BY <1>3, <1>5
<1>. QED
  BY <1>1, <1>2, <1>4, <1>5 DEF Rounded

\* Tenths and halves.
LEMMA RoundedTenths ==
    ASSUME NEW a \in Nat
    PROVE  /\ Rounded(9 * a, 10) \in Int /\ Rounded(11 * a, 10) \in Int /\ Rounded(a, 2) \in Int
           /\ a <= Rounded(11 * a, 10)
           /\ a >= 2 => Rounded(a, 2) < a
           /\ Rounded(a, 2) >= 0
<1>. PICK eleven \in Int, nine \in Int, ten \in Nat \ {0}, two \in Nat \ {0} :
         eleven = 11 * a /\ nine = 9 * a /\ ten = 10 /\ two = 2
  OBVIOUS
<1>1. PICK x \in Int : x = Rounded(eleven, ten) /\ 2 * ten * x <= 2 * eleven + ten /\ 2 * eleven - ten <= 2 * ten * x
  BY RoundedNear, Zenon
<1>2. PICK y \in Int : y = Rounded(a, two) /\ 2 * two * y <= 2 * a + two /\ 2 * a - two <= 2 * two * y
  BY RoundedNear, a \in Int, Zenon
<1>3. PICK z \in Int : z = Rounded(nine, ten)
  BY RoundedNear, Zenon
<1>4. a <= x
  BY <1>1
<1>5. (a >= 2 => y < a) /\ y >= 0
  BY <1>2
<1>. QED
  BY <1>1, <1>2, <1>3, <1>4, <1>5

\* What is asked is one of the questions.
AskedInv ==
    asked # NoQuestion =>
        /\ asked.kind = "search" => asked.of \in Searches
        /\ asked.kind = "compress" => asked.of \in Compressions
        /\ asked.kind = "team" => asked.of \in Teams
        /\ asked.kind = "ensemble" => asked.of \in Ensembles
        /\ asked.kind = "profile" => asked.of \in Profiles
        /\ asked.kind = "library" => asked.of \in Libraries
        /\ asked.kind = "gate" => asked.of \in Gates
        /\ asked.kind = "analysis" => asked.of \in Analyses

\* A behaviour asks one question and keeps it.
LEMMA AskedHolds == Questions => []AskedInv
<1>1. NothingAsked => AskedInv
  BY DEF NothingAsked, AskedInv
<1>2. ASSUME AskedInv, [AskOne]_asked PROVE AskedInv'
  BY <1>2 DEF AskedInv, AskOne, Ask
<1>. QED
  BY <1>1, <1>2, PTL DEF Questions

-----------------------------------------------------------------------------
(* The thresholds recommended for a library.                               *)
\* A rate is a number, if what it is a part of can be counted.
LEMMA RateIsNumber == ASSUME NEW part \in Nat, NEW whole \in Nat PROVE Rate(part, whole) \in Int
<1>1. CASE whole = 0
  BY <1>1 DEF Rate
<1>2. CASE whole # 0
  <2>. PICK hundredths \in Int : hundredths = 10000 * part
    OBVIOUS
  <2>1. Rounded(hundredths, whole) \in Int
    BY <1>2, RoundedNear
  <2>. QED
    BY <1>2, <2>1 DEF Rate
<1>. QED
  BY <1>1, <1>2

\* The share of chunks of low quality is a number.
LEMMA LowQualityIsNumber ==
    ASSUME NEW chunks, IsFiniteSet(chunks), NEW runs, NEW low_confidence
    PROVE  expert_quality_stats(chunks, runs, low_confidence).low_quality_rate \in Int
<1>. DEFINE low == {c \in chunks : c.quality < low_confidence}
<1>1. expert_quality_stats(chunks, runs, low_confidence).low_quality_rate = Rate(Cardinality(low), Cardinality(chunks))
  BY DEF expert_quality_stats
<1>2. Cardinality(low) \in Nat /\ Cardinality(chunks) \in Nat
  BY FS_Subset, FS_CardinalityType
<1>. QED
  BY <1>1, <1>2, RateIsNumber

\* The size of a chunk and the overlap, whatever the quality is.
LEMMA SuggestedChunk ==
    ASSUME NEW t, NEW s, s.low_quality_rate \in Int,
           NEW max \in Nat, t.max_chunk_tokens = max, max >= 200,
           NEW overlap \in Nat, t.chunk_overlap_tokens = overlap, overlap < max, overlap < 4000
    PROVE  /\ suggested_max_tokens(t, s) \in Int /\ suggested_max_tokens(t, s) >= 200
           /\ suggested_overlap(t, s) \in 0..(suggested_max_tokens(t, s) - 1)
<1>. PICK low \in Int : low = s.low_quality_rate
  OBVIOUS
<1>0. Rounded(9 * max, 10) \in Int /\ Rounded(11 * max, 10) \in Int /\ max <= Rounded(11 * max, 10)
  BY RoundedTenths
<1>. PICK less \in Int : less = Rounded(9 * max, 10)
  BY <1>0
<1>. PICK more \in Int : more = Rounded(11 * max, 10) /\ max <= more
  BY <1>0
<1>1. PICK n \in Int :
        /\ n = suggested_max_tokens(t, s) /\ n >= 200
        /\ low >= 1000 \/ overlap < n
  <2>1. Max({400, less}) = (IF 400 >= less THEN 400 ELSE less) /\ Min({4000, more}) = (IF 4000 <= more THEN 4000 ELSE more)
    <3>. PICK least \in Int, most \in Int : least = 400 /\ most = 4000
      OBVIOUS
    <3>1. Max({least, less}) = IF least >= less THEN least ELSE less
      BY MaxOfTwo
    <3>2. Min({most, more}) = IF most <= more THEN most ELSE more
      BY MinOfTwo
    <3>. QED
      BY <3>1, <3>2
  <2>2. CASE s.avg_quality < 8000 /\ low >= 1000
    <3>1. suggested_max_tokens(t, s) = Max({400, less})
      BY <2>2 DEF suggested_max_tokens
    <3>. QED
      BY <2>1, <2>2, <3>1
  <2>3. CASE ~(s.avg_quality < 8000 /\ low >= 1000) /\ s.avg_quality >= 9000 /\ low <= 300
    <3>1. suggested_max_tokens(t, s) = Min({4000, more})
      BY <2>3 DEF suggested_max_tokens
    <3>. QED
      BY <2>1, <2>3, <3>1
  <2>4. CASE ~(s.avg_quality < 8000 /\ low >= 1000) /\ ~(s.avg_quality >= 9000 /\ low <= 300)
    <3>1. suggested_max_tokens(t, s) = max
      BY <2>4 DEF suggested_max_tokens
    <3>. QED
      BY <3>1
  <2>. QED
    BY <2>2, <2>3, <2>4
<1>2. suggested_overlap(t, s) \in 0..(n - 1)
  <2>1. PICK half \in Int : half = Rounded(n, 2) /\ half < n /\ half >= 0
    <3>1. n \in Nat /\ n >= 2
      BY <1>1
    <3>. QED
      BY <3>1, RoundedTenths
  <2>2. CASE low >= 1000
    <3>. PICK grown \in Int : grown = overlap + 20 /\ grown >= 0
      OBVIOUS
    <3>1. Min({half, grown}) = (IF half <= grown THEN half ELSE grown)
      BY MinOfTwo
    <3>2. suggested_overlap(t, s) = Min({half, grown})
      BY <1>1, <2>1, <2>2 DEF suggested_overlap
    <3>. QED
      BY <2>1, <3>1, <3>2
  <2>3. CASE ~(low >= 1000)
    <3>1. suggested_overlap(t, s) = overlap
      BY <2>3 DEF suggested_overlap
    <3>. QED
      BY <1>1, <2>3, <3>1
  <2>. QED
    BY <2>2, <2>3
<1>. QED
  BY <1>1, <1>2

\* Confidences stay in their range, pages stay at least one.
LEMMA SuggestedLevels ==
    ASSUME NEW t, NEW s, t.low_confidence \in 0..100, t.strong_review_confidence \in 0..100
    PROVE  suggested_low_confidence(t, s) \in 0..100 /\ suggested_strong_review(t, s) \in 0..100
<1>. PICK low \in 0..100, strong \in 0..100 : low = t.low_confidence /\ strong = t.strong_review_confidence
  OBVIOUS
<1>1. \A x \in Int : Clamped(x, 40, 90) \in 0..100 /\ Clamped(x, 60, 95) \in 0..100
  <2>. SUFFICES ASSUME NEW x \in Int PROVE Clamped(x, 40, 90) \in 0..100 /\ Clamped(x, 60, 95) \in 0..100
    OBVIOUS
  <2>. PICK a \in Int, b \in Int, c \in Int, d \in Int : a = 40 /\ b = 90 /\ c = 60 /\ d = 95 /\ a <= b /\ c <= d
    OBVIOUS
  <2>1. Clamped(x, a, b) \in a..b /\ Clamped(x, c, d) \in c..d
    BY ClampedBetween
  <2>. QED
    BY <2>1
<1>2. Clamped(low + 5, 40, 90) \in 0..100 /\ Clamped(low - 3, 40, 90) \in 0..100
  BY <1>1
<1>3. Clamped(strong + 3, 60, 95) \in 0..100 /\ Clamped(strong - 2, 60, 95) \in 0..100
  BY <1>1
<1>4. suggested_low_confidence(t, s) \in {Clamped(low + 5, 40, 90), Clamped(low - 3, 40, 90), low}
  BY DEF suggested_low_confidence
<1>5. suggested_strong_review(t, s) \in {Clamped(strong + 3, 60, 95), Clamped(strong - 2, 60, 95), strong}
  BY DEF suggested_strong_review
<1>. QED
  BY <1>2, <1>3, <1>4, <1>5

\* What is recommended is accepted.
LEMMA RecommendationAccepted ==
    ASSUME NEW t, NEW s, s.low_quality_rate \in Int,
           t \in [low_confidence : Int, strong_review_confidence : Int, max_section_pages : Int,
                  max_chunk_tokens : Int, chunk_overlap_tokens : Int],
           Accepted(t), t.chunk_overlap_tokens < 4000
    PROVE  Accepted(threshold_recommendations(t, s))
<1>. DEFINE r == threshold_recommendations(t, s)
<1>1. /\ r.low_confidence = suggested_low_confidence(t, s) /\ r.strong_review_confidence = suggested_strong_review(t, s)
      /\ r.max_chunk_tokens = suggested_max_tokens(t, s) /\ r.chunk_overlap_tokens = suggested_overlap(t, s)
      /\ r.max_section_pages = IF s.kb_failed_count > 0 THEN Max({8, t.max_section_pages - 2}) ELSE t.max_section_pages
  BY DEF threshold_recommendations
<1>2. PICK pages \in Int : pages = t.max_section_pages /\ pages >= 1
  BY DEF Accepted
<1>3. Max({8, pages - 2}) = IF 8 >= pages - 2 THEN 8 ELSE pages - 2
  BY MaxOfTwo
<1>4. r.max_section_pages >= 1
  BY <1>1, <1>2, <1>3
<1>5. r.low_confidence \in 0..100 /\ r.strong_review_confidence \in 0..100
  <2>1. suggested_low_confidence(t, s) \in 0..100 /\ suggested_strong_review(t, s) \in 0..100
    BY SuggestedLevels DEF Accepted
  <2>. QED
    BY <1>1, <2>1
<1>6. /\ t.max_chunk_tokens \in Nat /\ t.max_chunk_tokens >= 200 /\ t.chunk_overlap_tokens \in Nat
      /\ t.chunk_overlap_tokens < t.max_chunk_tokens
  BY DEF Accepted
<1>7. r.max_chunk_tokens >= 200 /\ r.chunk_overlap_tokens \in 0..(r.max_chunk_tokens - 1)
  BY <1>1, <1>6, SuggestedChunk
<1>. QED
  BY <1>4, <1>5, <1>7 DEF Accepted

\* The thresholds recommended for any library are ones an update of thresholds
\* accepts, when the present ones are and overlap by less than 4000
\* (stats._build_threshold_recommendations).
THEOREM RecommendationsAreAccepted == Questions => []RecommendationIsAccepted
<1>1. AskedInv => RecommendationIsAccepted
  <2>1. ASSUME NEW q \in Libraries, Accepted(q.now), q.now.chunk_overlap_tokens < 4000
        PROVE  Accepted(threshold_recommendations(q.now, expert_quality_stats(q.chunks, q.runs, q.now.low_confidence)))
    BY <2>1, LibrariesAssumption, LowQualityIsNumber, RecommendationAccepted
  <2>. QED
    BY <2>1 DEF AskedInv, RecommendationIsAccepted, Answers
<1>. QED
  BY <1>1, AskedHolds, PTL

-----------------------------------------------------------------------------
(* The qualification of a profile.                                         *)
\* A case that is kept is worth its points.
LEMMA CaseIsWorthPoints ==
    ASSUME NEW p, NEW r, NEW case \in {"review", "compliance"},
           cases_passed(r) = cases_passed(p) \cup {case}, case \notin cases_passed(p)
    PROVE  /\ capability_score(p) \in Nat /\ capability_score(r) \in Nat
           /\ capability_score(r) >= capability_score(p) + 20
BY DEF capability_score

\* The points of a profile are a number.
LEMMA CapabilityIsNumber == ASSUME NEW p PROVE capability_score(p) \in Nat
BY DEF capability_score

\* Of two numbers the one that is no larger than 3600, or the other.
LEMMA PenaltyCapped == \A cost \in Nat : Min({3600, cost}) \in Nat
<1>. SUFFICES ASSUME NEW cost \in Nat PROVE Min({3600, cost}) \in Nat
  OBVIOUS
<1>1. PICK most \in Int : most = 3600
  OBVIOUS
<1>2. Min({most, cost}) = IF most <= cost THEN most ELSE cost
  BY MinOfTwo
<1>. QED
  BY <1>1, <1>2

\* A number pressed into a percentage.
LEMMA ClampToPercent ==
    ASSUME NEW x \in Int
    PROVE  Clamp(x, 0, 100) \in 0..100 /\ (x = 0 => Clamp(x, 0, 100) = 0)
<1>1. PICK low \in Int, high \in Int : low = 0 /\ high = 100
  OBVIOUS
<1>2. low <= high
  BY <1>1
<1>3. /\ Clamp(x, low, high) \in low..high
      /\ Clamp(x, low, high) = IF x <= low THEN low ELSE IF x >= high THEN high ELSE x
  BY <1>2, ClampBetween
<1>. QED
  BY <1>1, <1>3

\* A quality, in hundredths.
IsQuality(x) == x \in Int /\ 0 <= x /\ x <= 10000

\* A number pressed into a quality.
LEMMA ClampToQuality ==
    ASSUME NEW x \in Int
    PROVE  IsQuality(Clamp(x, 0, 10000)) /\ (x <= 0 => Clamp(x, 0, 10000) = 0)
<1>1. PICK low \in Int, high \in Int : low = 0 /\ high = 10000
  OBVIOUS
<1>2. low <= high
  BY <1>1
<1>3. /\ Clamp(x, low, high) \in low..high
      /\ Clamp(x, low, high) = IF x <= low THEN low ELSE IF x >= high THEN high ELSE x
  BY <1>2, ClampBetween
<1>4. PICK y \in Int : y = Clamp(x, low, high) /\ low <= y /\ y <= high
  BY <1>3
<1>5. IsQuality(y)
  BY <1>1, <1>4 DEF IsQuality
<1>. QED
  BY <1>1, <1>3, <1>4, <1>5

\* The quality of a review is a share of 10000, none for a failed one that covers nothing.
LEMMA ComplianceQuality ==
    ASSUME NEW report, report.cover \in Int,
           IsFiniteSet(report.issues), IsFiniteSet(report.missing), IsFiniteSet(report.risks)
    PROVE  /\ IsQuality(evaluate_compliance_quality(report))
           /\ report.cover = 0 /\ report.status = "FAIL" => evaluate_compliance_quality(report) = 0
<1>1. PICK cover \in Int : cover = Clamp(report.cover, 0, 100) /\ (report.cover = 0 => cover = 0)
  BY ClampToPercent
<1>2. PICK cost \in Nat : cost = 400 * Cardinality(report.issues) + 300 * Cardinality(report.missing)
                                 + 100 * Cardinality(report.risks)
  <2>1. /\ Cardinality(report.issues) \in Nat /\ Cardinality(report.missing) \in Nat
        /\ Cardinality(report.risks) \in Nat
    BY FS_CardinalityType
  <2>. QED
    BY <2>1
<1>3. PICK penalty \in Nat : penalty = Min({3600, cost})
  BY PenaltyCapped
<1>4. PICK status \in Int : /\ status = (CASE report.status = "PASS" -> 2200 [] report.status = "WARN" -> 1200
                                           [] report.status = "FAIL" -> 0 [] OTHER -> 600)
                            /\ report.status = "FAIL" => status = 0
  OBVIOUS
<1>5. PICK sum \in Int : sum = 78 * cover + status - penalty /\ (report.cover = 0 /\ report.status = "FAIL" => sum <= 0)
  BY <1>1, <1>3, <1>4
<1>6. evaluate_compliance_quality(report) = Clamp(sum, 0, 10000)
  BY <1>1, <1>2, <1>3, <1>4, <1>5 DEF evaluate_compliance_quality
<1>7. IsQuality(Clamp(sum, 0, 10000)) /\ (sum <= 0 => Clamp(sum, 0, 10000) = 0)
  BY ClampToQuality
<1>8. report.cover = 0 /\ report.status = "FAIL" => sum <= 0
  BY <1>5
<1>. QED
  BY <1>6, <1>7, <1>8

\* The mean of two scores, and the other one when one is nothing.
LEMMA MeanBetween ==
    ASSUME NEW review \in Int, 0 <= review, review <= 10000,
           NEW compliance \in Int, 0 <= compliance, compliance <= 10000, NEW mean \in Int,
           review = 0 \/ compliance = 0 => mean = IF review >= compliance THEN review ELSE compliance,
           review # 0 /\ compliance # 0 => 2 * mean <= review + compliance /\ review + compliance <= 2 * mean + 1
    PROVE  /\ 0 <= mean /\ mean <= 10000
           /\ compliance <= mean + 5000 /\ review <= mean + 5000
           /\ review = 0 => mean = compliance
           /\ compliance = 0 => mean = review
<1>1. 0 <= mean
  OBVIOUS
<1>2. mean <= 10000
  OBVIOUS
<1>3. compliance <= mean + 5000
  OBVIOUS
<1>4. review <= mean + 5000
  OBVIOUS
<1>5. review = 0 => mean = compliance
  OBVIOUS
<1>6. compliance = 0 => mean = review
  OBVIOUS
<1>. QED
  BY <1>1, <1>2, <1>3, <1>4, <1>5, <1>6

\* The mean of the scores that are not zero.
MeanOf(review, compliance) ==
    IF 0 \in {review, compliance} THEN Max({review, compliance}) ELSE (review + compliance) \div 2

\* The mean of two qualities is one, and neither exceeds it by more than half.
LEMMA MeanOfScores ==
    ASSUME NEW review, IsQuality(review), NEW compliance, IsQuality(compliance)
    PROVE  /\ IsQuality(MeanOf(review, compliance))
           /\ compliance <= MeanOf(review, compliance) + 5000 /\ review <= MeanOf(review, compliance) + 5000
           /\ review = 0 => MeanOf(review, compliance) = compliance
           /\ compliance = 0 => MeanOf(review, compliance) = review
<1>0. review \in Int /\ 0 <= review /\ review <= 10000 /\ compliance \in Int /\ 0 <= compliance /\ compliance <= 10000
  BY DEF IsQuality
<1>1. Max({review, compliance}) = IF review >= compliance THEN review ELSE compliance
  BY <1>0, MaxOfTwo
<1>2. review = 0 \/ compliance = 0 => MeanOf(review, compliance) = Max({review, compliance})
  BY DEF MeanOf
<1>3. review # 0 /\ compliance # 0 => MeanOf(review, compliance) = (review + compliance) \div 2
  BY DEF MeanOf
<1>4. PICK half \in Int : half = (review + compliance) \div 2
                          /\ 2 * half <= review + compliance /\ review + compliance <= 2 * half + 1
  BY <1>0
<1>5. MeanOf(review, compliance) \in Int
  BY <1>0, <1>1, <1>2, <1>3, <1>4
<1>6. review = 0 \/ compliance = 0 => MeanOf(review, compliance) = IF review >= compliance THEN review ELSE compliance
  BY <1>1, <1>2
<1>7. review # 0 /\ compliance # 0 =>
        2 * MeanOf(review, compliance) <= review + compliance /\ review + compliance <= 2 * MeanOf(review, compliance) + 1
  BY <1>3, <1>4
<1>8. PICK mean \in Int : mean = MeanOf(review, compliance)
  BY <1>5
<1>9. /\ 0 <= mean /\ mean <= 10000
      /\ compliance <= mean + 5000 /\ review <= mean + 5000
      /\ review = 0 => mean = compliance
      /\ compliance = 0 => mean = review
  BY <1>0, <1>6, <1>7, <1>8, MeanBetween
<1>. QED
  BY <1>8, <1>9 DEF IsQuality

\* A model's own estimate is a quality.
LEMMA EstimateQuality ==
    ASSUME NEW estimate \in Int
    PROVE  IsQuality(Clamp(estimate, 0, 100) * 100) /\ (estimate = 0 => Clamp(estimate, 0, 100) * 100 = 0)
<1>1. PICK x \in 0..100 : x = Clamp(estimate, 0, 100) /\ (estimate = 0 => x = 0)
  BY ClampToPercent
<1>2. x * 100 \in Int /\ 0 <= x * 100 /\ x * 100 <= 10000
  OBVIOUS
<1>. QED
  BY <1>1, <1>2 DEF IsQuality

\* The score of the answers is the mean of the two qualities.
LEMMA ModelQuality ==
    ASSUME NEW p PROVE
    model_quality_score(p) = IF completion_probe(p)
                             THEN MeanOf(Clamp(p.estimate, 0, 100) * 100, evaluate_compliance_quality(p.report)) ELSE 0
BY DEF model_quality_score, MeanOf

\* The score is the larger, the more cases and the better the answers are.
LEMMA ScoreGrows ==
    ASSUME NEW c1 \in Nat, NEW m1 \in Nat, NEW c2 \in Nat, NEW m2 \in Nat,
           300 * c1 + m1 <= 300 * c2 + m2
    PROVE  (300 * c1 + m1) \div 4 <= (300 * c2 + m2) \div 4
<1>1. PICK x \in Nat : x = 300 * c1 + m1
  OBVIOUS
<1>2. PICK y \in Nat : y = 300 * c2 + m2
  OBVIOUS
<1>3. x \div 4 <= y \div 4
  BY <1>1, <1>2
<1>. QED
  BY <1>1, <1>2, <1>3

\* Without a probe that passes nothing is kept but the credential.
LEMMA Unprobed ==
    ASSUME NEW p, ~completion_probe(p), NEW r, ~completion_probe(r), p.credential <=> r.credential
    PROVE  quality_score(p) = quality_score(r)
<1>1. cases_passed(p) = cases_passed(r)
  BY DEF cases_passed
<1>2. capability_score(p) = capability_score(r)
  BY <1>1 DEF capability_score
<1>3. model_quality_score(p) = 0 /\ model_quality_score(r) = 0
  BY DEF model_quality_score
<1>. QED
  BY <1>2, <1>3 DEF quality_score

\* One more case outweighs what its answer may take from the mean.
LEMMA OneMoreCase ==
    ASSUME NEW p, NEW r, completion_probe(p), completion_probe(r),
           NEW case \in {"review", "compliance"}, case \notin cases_passed(p), cases_passed(r) = cases_passed(p) \cup {case},
           IsQuality(model_quality_score(p)), IsQuality(model_quality_score(r)),
           model_quality_score(p) <= model_quality_score(r) + 5000
    PROVE  quality_score(p) <= quality_score(r)
<1>1. PICK c1 \in Nat : c1 = capability_score(p)
  BY CaseIsWorthPoints
<1>2. PICK c2 \in Nat : c2 = capability_score(r) /\ c2 >= c1 + 20
  BY <1>1, CaseIsWorthPoints
<1>3. PICK m1 \in Nat : m1 = model_quality_score(p)
  BY DEF IsQuality
<1>4. PICK m2 \in Nat : m2 = model_quality_score(r) /\ m1 <= m2 + 5000
  BY <1>3 DEF IsQuality
<1>5. 300 * c1 + m1 <= 300 * c2 + m2
  BY <1>2, <1>4
<1>6. (300 * c1 + m1) \div 4 <= (300 * c2 + m2) \div 4
  BY <1>5, ScoreGrows
<1>. QED
  BY <1>1, <1>2, <1>3, <1>4, <1>6 DEF quality_score

\* A profile's questions, for which the properties are stated.
ProfileOk(q) ==
    /\ {"credential", "base_url", "probe", "generation", "review", "compliance", "estimate", "report"} \subseteq DOMAIN q
    /\ {"cover", "status"} \subseteq DOMAIN q.report
    /\ q.estimate \in Int /\ q.report.cover \in Int
    /\ IsFiniteSet(q.report.issues) /\ IsFiniteSet(q.report.missing) /\ IsFiniteSet(q.report.risks)

\* A review that keeps its contract costs no points.
LEMMA ReviewNeverCosts ==
    ASSUME NEW q, ProfileOk(q), ~q.review
    PROVE  quality_score([q EXCEPT !.estimate = 0]) <= quality_score([q EXCEPT !.review = TRUE])
<1>1. PICK p : p = [q EXCEPT !.estimate = 0]
  OBVIOUS
<1>2. PICK r : r = [q EXCEPT !.review = TRUE]
  OBVIOUS
<1>3. /\ p.estimate = 0 /\ p.report = q.report /\ p.credential = q.credential /\ p.base_url = q.base_url
      /\ p.probe = q.probe /\ p.generation = q.generation /\ p.review = q.review /\ p.compliance = q.compliance
  BY <1>1 DEF ProfileOk
<1>4. /\ r.estimate = q.estimate /\ r.report = q.report /\ r.credential = q.credential /\ r.base_url = q.base_url
      /\ r.probe = q.probe /\ r.generation = q.generation /\ r.review = TRUE /\ r.compliance = q.compliance
  BY <1>2 DEF ProfileOk
<1>5. completion_probe(p) <=> completion_probe(r)
  BY <1>3, <1>4 DEF completion_probe
<1>6. CASE ~completion_probe(p)
  <2>1. quality_score(p) = quality_score(r)
    BY <1>3, <1>4, <1>5, <1>6, Unprobed
  <2>2. quality_score(p) \in Int
    <3>1. capability_score(p) \in Nat /\ model_quality_score(p) = 0
      BY <1>6, CapabilityIsNumber DEF model_quality_score
    <3>. QED
      BY <3>1 DEF quality_score
  <2>. QED
    BY <1>1, <1>2, <2>1, <2>2
<1>7. CASE completion_probe(p)
  <2>1. "review" \notin cases_passed(p)
    BY <1>3, <1>7 DEF cases_passed
  <2>2. cases_passed(r) = cases_passed(p) \cup {"review"}
    BY <1>3, <1>4, <1>5, <1>7 DEF cases_passed
  <2>. DEFINE review == Clamp(q.estimate, 0, 100) * 100
              compliance == evaluate_compliance_quality(q.report)
  <2>3. IsQuality(review) /\ IsQuality(compliance) /\ IsQuality(0)
    BY EstimateQuality, ComplianceQuality DEF ProfileOk, IsQuality
  <2>4. Clamp(p.estimate, 0, 100) * 100 = 0
    BY <1>3, EstimateQuality, 0 \in Int
  <2>5. model_quality_score(r) = MeanOf(review, compliance)
    BY <1>4, <1>5, <1>7, ModelQuality
  <2>6. model_quality_score(p) = MeanOf(0, compliance)
    BY <1>3, <1>7, <2>4, ModelQuality
  <2>. HIDE DEF review, compliance
  <2>7. MeanOf(0, compliance) = compliance
    BY <2>3, MeanOfScores
  <2>8. IsQuality(MeanOf(review, compliance)) /\ compliance <= MeanOf(review, compliance) + 5000
    BY <2>3, MeanOfScores
  <2>9. quality_score(p) <= quality_score(r)
    BY <1>5, <1>7, <2>1, <2>2, <2>3, <2>5, <2>6, <2>7, <2>8, OneMoreCase
  <2>. QED
    BY <1>1, <1>2, <2>9
<1>. QED
  BY <1>6, <1>7

\* Nor does a compliance report that keeps its own.
LEMMA ComplianceNeverCosts ==
    ASSUME NEW q, ProfileOk(q), ~q.compliance
    PROVE  quality_score([q EXCEPT !.report.cover = 0, !.report.status = "FAIL"])
             <= quality_score([q EXCEPT !.compliance = TRUE])
<1>1. PICK p : p = [q EXCEPT !.report.cover = 0, !.report.status = "FAIL"]
  OBVIOUS
<1>2. PICK r : r = [q EXCEPT !.compliance = TRUE]
  OBVIOUS
<1>3. /\ p.estimate = q.estimate /\ p.credential = q.credential /\ p.base_url = q.base_url
      /\ p.probe = q.probe /\ p.generation = q.generation /\ p.review = q.review /\ p.compliance = q.compliance
      /\ p.report = [[q.report EXCEPT !.cover = 0] EXCEPT !.status = "FAIL"]
  BY <1>1 DEF ProfileOk
<1>. DEFINE report == p.report
<1>4. /\ report.cover = 0 /\ report.status = "FAIL" /\ report.issues = q.report.issues
      /\ report.missing = q.report.missing /\ report.risks = q.report.risks
  BY <1>3 DEF ProfileOk
<1>5. /\ r.estimate = q.estimate /\ r.report = q.report /\ r.credential = q.credential /\ r.base_url = q.base_url
      /\ r.probe = q.probe /\ r.generation = q.generation /\ r.review = q.review /\ r.compliance = TRUE
  BY <1>2 DEF ProfileOk
<1>6. completion_probe(p) <=> completion_probe(r)
  BY <1>3, <1>5 DEF completion_probe
<1>7. CASE ~completion_probe(p)
  <2>1. quality_score(p) = quality_score(r)
    BY <1>3, <1>5, <1>6, <1>7, Unprobed
  <2>2. quality_score(p) \in Int
    <3>1. capability_score(p) \in Nat /\ model_quality_score(p) = 0
      BY <1>7, CapabilityIsNumber DEF model_quality_score
    <3>. QED
      BY <3>1 DEF quality_score
  <2>. QED
    BY <1>1, <1>2, <2>1, <2>2
<1>8. CASE completion_probe(p)
  <2>1. "compliance" \notin cases_passed(p)
    BY <1>3, <1>8 DEF cases_passed
  <2>2. cases_passed(r) = cases_passed(p) \cup {"compliance"}
    BY <1>3, <1>5, <1>6, <1>8 DEF cases_passed
  <2>. DEFINE review == Clamp(q.estimate, 0, 100) * 100
              compliance == evaluate_compliance_quality(q.report)
  <2>3. IsQuality(review) /\ IsQuality(compliance) /\ IsQuality(0)
    BY EstimateQuality, ComplianceQuality DEF ProfileOk, IsQuality
  <2>4. evaluate_compliance_quality(p.report) = 0
    BY <1>4, ComplianceQuality, 0 \in Int DEF ProfileOk
  <2>5. model_quality_score(r) = MeanOf(review, compliance)
    BY <1>5, <1>6, <1>8, ModelQuality
  <2>6. model_quality_score(p) = MeanOf(review, 0)
    BY <1>3, <1>8, <2>4, ModelQuality
  <2>. HIDE DEF review, compliance
  <2>7. MeanOf(review, 0) = review
    BY <2>3, MeanOfScores
  <2>8. IsQuality(MeanOf(review, compliance)) /\ review <= MeanOf(review, compliance) + 5000
    BY <2>3, MeanOfScores
  <2>9. quality_score(p) <= quality_score(r)
    BY <1>6, <1>8, <2>1, <2>2, <2>3, <2>5, <2>6, <2>7, <2>8, OneMoreCase
  <2>. QED
    BY <1>1, <1>2, <2>9
<1>. QED
  BY <1>7, <1>8

\* Keeping one more contract never costs a profile points, whatever scores come
\* with it (byok/profiles.qualify_provider_profile).
THEOREM AnswersNeverCost == Questions => []AnsweringNeverCosts
<1>1. AskedInv => AnsweringNeverCosts
  <2>1. ASSUME NEW q \in Profiles PROVE ProfileOk(q)
    BY ProfilesAssumption DEF ProfileOk
  <2>2. ASSUME NEW q \in Profiles
        PROVE  /\ ~q.review => quality_score([q EXCEPT !.estimate = 0]) <= quality_score([q EXCEPT !.review = TRUE])
               /\ ~q.compliance => quality_score([q EXCEPT !.report.cover = 0, !.report.status = "FAIL"])
                                     <= quality_score([q EXCEPT !.compliance = TRUE])
    <3>1. ProfileOk(q)
      BY <2>1
    <3>. QED
      BY <3>1, ReviewNeverCosts, ComplianceNeverCosts
  <2>. QED
    BY <2>2 DEF AskedInv, AnsweringNeverCosts, Answers
<1>. QED
  BY <1>1, AskedHolds, PTL

-----------------------------------------------------------------------------
(* The gate.                                                               *)
\* The fatal clauses of a tender.
FatalClauses(tender) ==
    {i \in DOMAIN tender : /\ tender[i].text.size >= 8 /\ Fatal(tender[i].text)
                           /\ \E list \in {"disqualify", "must", "prelim"} : In(tender[i].text, list)}

\* The sentences that name a role.
Naming(tender, role) == {i \in DOMAIN tender : tender[i].text.size >= 10 /\ role \in tender[i].text.roles}

\* The roles whose first sentence asks for a certificate.
CertifiedRoles(tender) ==
    {r \in UNION {tender[i].text.roles : i \in DOMAIN tender} :
        Naming(tender, r) # {} /\ tender[Min(Naming(tender, r))].text.cert}

\* What the gate asks of the assets.
LEMMA GatePasses ==
    ASSUME NEW tender, NEW assets
    PROVE  fatal_gate(tender, assets).passed <=>
             /\ FatalClauses(tender) # {} => match_prelim_to_assets(assets)
             /\ CertifiedRoles(tender) # {} => match_personnel_to_assets(assets)
<1>. DEFINE items == extract_preliminary(tender)
            constraints == extract_key_personnel(tender)
            clauses == {i \in items : i.fatal_if_unmet}
            reasons == {<<"clause", i.at>> : i \in {x \in clauses : ClauseCheck(x, assets).blocked}}
                       \cup {<<"role", c.role>> : c \in {x \in constraints : x.cert_required /\ RoleCheck(x, assets).blocked}}
<1>1. fatal_gate(tender, assets).passed <=> reasons = {}
  BY DEF fatal_gate, check_fatal_gate
<1>2. \A x : ClauseCheck(x, assets).blocked <=> ~match_prelim_to_assets(assets)
  BY DEF ClauseCheck
<1>3. \A x : RoleCheck(x, assets).blocked <=> ~match_personnel_to_assets(assets)
  BY DEF RoleCheck
<1>4. clauses # {} <=> FatalClauses(tender) # {}
  <2>1. ASSUME NEW i \in FatalClauses(tender) PROVE clauses # {}
    <3>1. [at |-> i, clause |-> tender[i].text, fatal_if_unmet |-> Fatal(tender[i].text)] \in clauses
      BY <2>1 DEF FatalClauses, extract_preliminary
    <3>. QED
      BY <3>1
  <2>2. ASSUME NEW x \in clauses PROVE x.at \in FatalClauses(tender)
    <3>1. PICK i \in DOMAIN tender :
            /\ tender[i].text.size >= 8 /\ \E list \in {"disqualify", "must", "prelim"} : In(tender[i].text, list)
            /\ x = [at |-> i, clause |-> tender[i].text, fatal_if_unmet |-> Fatal(tender[i].text)]
      BY DEF extract_preliminary
    <3>2. x.at = i /\ Fatal(tender[i].text)
      BY <2>2, <3>1
    <3>. QED
      BY <3>1, <3>2 DEF FatalClauses
  <2>. QED
    BY <2>1, <2>2
<1>5. {x \in constraints : x.cert_required} # {} <=> CertifiedRoles(tender) # {}
  <2>. DEFINE Roles == {r \in UNION {tender[i].text.roles : i \in DOMAIN tender} : Naming(tender, r) # {}}
              Constraint(r) == [role |-> r, cert_required |-> tender[Min(Naming(tender, r))].text.cert]
  <2>1. constraints = {Constraint(r) : r \in Roles}
    BY DEF extract_key_personnel, Naming, Describing
  <2>2. CertifiedRoles(tender) = {r \in Roles : Constraint(r).cert_required}
    BY DEF CertifiedRoles
  <2>. HIDE DEF constraints, Roles, Constraint
  <2>. QED
    BY <2>1, <2>2
<1>6. reasons = {} <=> /\ \A x \in clauses : ~ClauseCheck(x, assets).blocked
                       /\ \A x \in constraints : x.cert_required => ~RoleCheck(x, assets).blocked
  <2>. HIDE DEF items, constraints
  <2>. QED
    OBVIOUS
<1>. HIDE DEF items, constraints
<1>. QED
  BY <1>1, <1>2, <1>3, <1>4, <1>5, <1>6

\* The first pages of a tender keep their clauses and roles when pages follow.
LEMMA PagesFollow ==
    ASSUME NEW S, NEW tender \in Seq(S), NEW n \in 0..Len(tender)
    PROVE  /\ FatalClauses(SubSeq(tender, 1, n)) \subseteq FatalClauses(tender)
           /\ CertifiedRoles(SubSeq(tender, 1, n)) \subseteq CertifiedRoles(tender)
<1>. PICK first : first = SubSeq(tender, 1, n)
  OBVIOUS
<1>1. DOMAIN first = 1..n /\ DOMAIN tender = 1..Len(tender) /\ \A i \in 1..n : first[i] = tender[i]
  OBVIOUS
<1>2. FatalClauses(first) \subseteq FatalClauses(tender)
  BY <1>1 DEF FatalClauses
<1>3. ASSUME NEW r \in CertifiedRoles(first)
      PROVE  r \in CertifiedRoles(tender)
  <2>1. Naming(first, r) = Naming(tender, r) \cap 1..n /\ Naming(first, r) # {}
    BY <1>1, <1>3 DEF Naming, CertifiedRoles
  <2>2. Naming(tender, r) \subseteq 1..Len(tender)
    BY <1>1 DEF Naming
  <2>. PICK early : early = Naming(first, r)
    OBVIOUS
  <2>. PICK all : all = Naming(tender, r)
    OBVIOUS
  <2>3. early = all \cap 1..n /\ early # {} /\ all \subseteq Nat /\ all # {}
    BY <2>1, <2>2
  <2>4. /\ Min(early) \in early /\ \A y \in early : Min(early) <= y
        /\ Min(all) \in all /\ \A y \in all : Min(all) <= y
    BY <2>3, MinOfPositions
  <2>. PICK e \in Nat, a \in Nat : e = Min(early) /\ a = Min(all)
    BY <2>3, <2>4
  <2>5. e = a
    <3>1. a <= e
      BY <2>3, <2>4
    <3>2. e <= n /\ a \in all
      BY <2>3, <2>4
    <3>3. a \in 1..n
      BY <2>2, <2>3, <3>1, <3>2
    <3>4. a \in early
      BY <2>3, <3>2, <3>3
    <3>5. e <= a
      BY <2>4, <3>4
    <3>. QED
      BY <3>1, <3>5
  <2>6. first[Min(early)] = tender[Min(all)]
    BY <1>1, <2>3, <2>4, <2>5
  <2>7. r \in UNION {tender[i].text.roles : i \in DOMAIN tender}
    BY <1>1, <2>3, <2>4 DEF Naming
  <2>. QED
    BY <1>3, <2>3, <2>6, <2>7 DEF CertifiedRoles
<1>. QED
  BY <1>2, <1>3

\* More assets, and queries that answer, meet what was met.
LEMMA AssetsFollow ==
    ASSUME NEW assets, {"library", "answers", "day"} \subseteq DOMAIN assets, NEW d
    PROVE  LET more == [assets EXCEPT !.library = assets.library \cup {d}, !.answers = {"qualifications", "people"}]
           IN  /\ match_prelim_to_assets(assets) => match_prelim_to_assets(more)
               /\ match_personnel_to_assets(assets) => match_personnel_to_assets(more)
<1>. PICK more : more = [assets EXCEPT !.library = assets.library \cup {d}, !.answers = {"qualifications", "people"}]
  OBVIOUS
<1>1. /\ more.library = assets.library \cup {d} /\ more.day = assets.day
      /\ more.answers = {"qualifications", "people"}
  OBVIOUS
<1>2. get_company_qualifications(assets.library, assets.day) \subseteq get_company_qualifications(more.library, more.day)
  BY <1>1 DEF get_company_qualifications
<1>3. get_people_candidates(assets.library, assets.day) \subseteq get_people_candidates(more.library, more.day)
  BY <1>1 DEF get_people_candidates
<1>. QED
  BY <1>1, <1>2, <1>3 DEF match_prelim_to_assets, match_personnel_to_assets

\* A sentence that says the bid is void is a fatal clause.
LEMMA VoidedIsFatal ==
    ASSUME NEW text, "voided" \in text.words
    PROVE  Fatal(text) /\ In(text, "disqualify")
<1>1. "disqualify" \in KeywordLists["voided"]
  BY DEF KeywordLists
<1>. QED
  BY <1>1 DEF Fatal, In

\* What GateFailsClosed says of one question.
GateOk(q) ==
    LET passes(tender, assets) == fatal_gate(tender, assets).passed
        valid == {d \in q.assets.library : d.kind = "QUALIFICATION" /\ d.valid_to > q.assets.day}
    IN  /\ passes(q.tender, q.assets) =>
              /\ \A n \in 0..Len(q.tender) : passes(SubSeq(q.tender, 1, n), q.assets)
              /\ \A library \in {q.assets.library \cup {d} : d \in Papers} :
                   passes(q.tender, [q.assets EXCEPT !.library = library, !.answers = {"qualifications", "people"}])
        /\ (valid = {} \/ "qualifications" \notin q.assets.answers)
              /\ (\E i \in DOMAIN q.tender : q.tender[i].text.size >= 8 /\ "voided" \in q.tender[i].text.words)
            => ~passes(q.tender, q.assets)

\* It holds of every question.
LEMMA GateIsClosed == ASSUME NEW q \in Gates PROVE GateOk(q)
<1>. PICK tender, assets : tender = q.tender /\ assets = q.assets
  OBVIOUS
<1>1. /\ tender \in Seq({tender[i] : i \in DOMAIN tender})
      /\ {"library", "answers", "day"} \subseteq DOMAIN assets
  BY GatesAssumption DEF IsSequence
<1>2. ASSUME fatal_gate(tender, assets).passed, NEW n \in 0..Len(tender)
      PROVE  fatal_gate(SubSeq(tender, 1, n), assets).passed
  BY <1>1, <1>2, GatePasses, PagesFollow
<1>3. ASSUME fatal_gate(tender, assets).passed, NEW d
      PROVE  fatal_gate(tender, [assets EXCEPT !.library = assets.library \cup {d},
                                               !.answers = {"qualifications", "people"}]).passed
  BY <1>1, <1>3, GatePasses, AssetsFollow
<1>4. ASSUME {d \in assets.library : d.kind = "QUALIFICATION" /\ d.valid_to > assets.day} = {}
               \/ "qualifications" \notin assets.answers,
             NEW i \in DOMAIN tender, tender[i].text.size >= 8, "voided" \in tender[i].text.words
      PROVE  ~fatal_gate(tender, assets).passed
  <2>1. ~match_prelim_to_assets(assets)
    BY <1>4 DEF match_prelim_to_assets, get_company_qualifications
  <2>2. i \in FatalClauses(tender)
    BY <1>4, VoidedIsFatal DEF FatalClauses
  <2>. QED
    BY <2>1, <2>2, GatePasses
<1>. QED
  BY <1>2, <1>3, <1>4 DEF GateOk

\* Whatever the tender and the assets, pages that follow and queries that fail do
\* not open the gate, and a clause that voids the bid closes it without a valid
\* qualification (fatal_gate.check_fatal_gate).
THEOREM GateStaysClosed == Questions => []GateFailsClosed
<1>1. AskedInv => GateFailsClosed
  <2>1. ASSUME NEW q \in Gates PROVE GateOk(q)
    BY GateIsClosed
  <2>. QED
    BY <2>1 DEF AskedInv, GateFailsClosed, Answers, GateOk
<1>. QED
  BY <1>1, AskedHolds, PTL

-----------------------------------------------------------------------------
(* The analysis of a tender.                                               *)
\* The importance a requirement's point has in a category.
Importance(r, category, bidding) ==
    CASE category = "BIDDING_POINTS" -> bidding + (IF r.must THEN 15 ELSE 0)
      [] category = "SCORING_POINTS" -> 60 + Min({r.score, 30})
      [] category = "COMPLIANCE_REQUIREMENTS" -> 75
      [] category = "BONUS_POINTS" -> 70
      [] OTHER -> 80

\* Whether the point of a requirement is a must.
Binds(r, category) ==
    CASE category = "COMPLIANCE_REQUIREMENTS" -> TRUE
      [] category = "BONUS_POINTS" -> FALSE
      [] OTHER -> r.must

\* Of a requirement there is at most one point in each category.
LEMMA PointOfCategory ==
    ASSUME NEW i, NEW r, NEW bidding, NEW boost, NEW x \in KeyPoints(i, r, bidding, boost)
    PROVE  /\ x = Point(i, r, x.category, Binds(r, x.category), Importance(r, x.category, bidding) + boost)
           /\ x.category = "COMPLIANCE_REQUIREMENTS" => r.must
<1>1. CASE x = Point(i, r, "BIDDING_POINTS", r.must, bidding + (IF r.must THEN 15 ELSE 0) + boost)
  BY <1>1 DEF Point, Importance, Binds
<1>2. CASE x = Point(i, r, "SCORING_POINTS", r.must, 60 + Min({r.score, 30}) + boost)
  BY <1>2 DEF Point, Importance, Binds
<1>3. CASE x = Point(i, r, "COMPLIANCE_REQUIREMENTS", TRUE, 75 + boost) /\ r.must
  BY <1>3 DEF Point, Importance, Binds
<1>4. CASE x = Point(i, r, "BONUS_POINTS", FALSE, 70 + boost)
  BY <1>4 DEF Point, Importance, Binds
<1>5. CASE x = Point(i, r, "RISK_ALERTS", r.must, 80 + boost)
  BY <1>5 DEF Point, Importance, Binds
<1>. QED
  BY <1>1, <1>2, <1>3, <1>4, <1>5, Zenon DEF KeyPoints

\* What a point is made of.
LEMMA PointFields ==
    ASSUME NEW i, NEW r, NEW category, NEW must, NEW importance
    PROVE  LET x == Point(i, r, category, must, importance)
           IN  /\ x.at = i /\ x.content = r.text /\ x.category = category
               /\ x.is_must = must /\ x.importance = importance
BY DEF Point

\* Points of requirements that are named by numbers and have a score: one for
\* each requirement and category, with a number for its importance.
Points(items) ==
    /\ \A x \in items : x.at \in Int /\ x.importance \in Int
    /\ \A x, y \in items : x.at = y.at /\ x.category = y.category => x = y

\* The points of requirements are such points.
LEMMA PointsOfRequirements ==
    ASSUME NEW requirements, DOMAIN requirements \subseteq Int,
           \A i \in DOMAIN requirements : requirements[i].score \in Int
    PROVE  Points(insights_from_parsed_requirements(requirements))
<1>. DEFINE items == insights_from_parsed_requirements(requirements)
            Own(i) == KeyPoints(i, requirements[i], 58, 0)
            Fallback(i) == Point(i, requirements[i], "BIDDING_POINTS", FALSE, 50)
<1>1. ASSUME NEW x \in items
      PROVE  \E i \in DOMAIN requirements :
               \/ x \in Own(i) /\ Own(i) # {}
               \/ x = Fallback(i) /\ Own(i) = {}
  BY <1>1 DEF insights_from_parsed_requirements
<1>2. ASSUME NEW i \in DOMAIN requirements, NEW x \in Own(i)
      PROVE  /\ x.at = i /\ x.importance \in Int
             /\ x = Point(i, requirements[i], x.category, Binds(requirements[i], x.category),
                          Importance(requirements[i], x.category, 58) + 0)
  <2>1. x = Point(i, requirements[i], x.category, Binds(requirements[i], x.category),
                  Importance(requirements[i], x.category, 58) + 0)
    BY <1>2, PointOfCategory
  <2>2. PICK score \in Int : score = requirements[i].score
    OBVIOUS
  <2>3. Min({score, 30}) \in Int
    <3>1. PICK most \in Int : most = 30
      OBVIOUS
    <3>2. Min({score, most}) = IF score <= most THEN score ELSE most
      BY MinOfTwo
    <3>. QED
      BY <3>1, <3>2
  <2>4. Importance(requirements[i], x.category, 58) \in Int
    BY <2>2, <2>3 DEF Importance
  <2>5. x.at = i /\ x.importance = Importance(requirements[i], x.category, 58) + 0
    BY <2>1, PointFields
  <2>. QED
    BY <2>1, <2>4, <2>5
<1>3. ASSUME NEW i \in DOMAIN requirements
      PROVE  Fallback(i).at = i /\ Fallback(i).importance \in Int
  BY DEF Point
<1>4. \A x \in items : x.at \in Int /\ x.importance \in Int
  <2>. HIDE DEF items, Own, Fallback
  <2>. QED
    BY <1>1, <1>2, <1>3
<1>5. ASSUME NEW x \in items, NEW y \in items, x.at = y.at, x.category = y.category PROVE x = y
  <2>. HIDE DEF items, Own, Fallback
  <2>1. PICK i \in DOMAIN requirements : (x \in Own(i) /\ Own(i) # {}) \/ (x = Fallback(i) /\ Own(i) = {})
    BY <1>1
  <2>2. PICK j \in DOMAIN requirements : (y \in Own(j) /\ Own(j) # {}) \/ (y = Fallback(j) /\ Own(j) = {})
    BY <1>1
  <2>3. i = j
    BY <1>2, <1>3, <1>5, <2>1, <2>2
  <2>. QED
    BY <1>2, <1>5, <2>1, <2>2, <2>3
<1>. QED
  BY <1>4, <1>5 DEF Points

\* The importance of a point is a number.
LEMMA ImportanceIsNumber ==
    ASSUME NEW r, r.score \in Int, NEW category, NEW bidding \in Int
    PROVE  Importance(r, category, bidding) \in Int
<1>1. PICK score \in Int : score = r.score
  OBVIOUS
<1>2. PICK most \in Int : most = 30
  OBVIOUS
<1>3. Min({score, most}) = IF score <= most THEN score ELSE most
  BY MinOfTwo
<1>4. Min({r.score, 30}) \in Int
  BY <1>1, <1>2, <1>3
<1>. QED
  BY <1>4 DEF Importance

\* And so are the points of sentences, where no requirement was found.
LEMMA PointsOfLines ==
    ASSUME NEW tender, DOMAIN tender \subseteq Int, \A i \in DOMAIN tender : tender[i].text.score \in Int
    PROVE  Points(UNION {classify_line(i, tender[i]) : i \in DOMAIN tender})
<1>. DEFINE items == UNION {classify_line(i, tender[i]) : i \in DOMAIN tender}
            Read(i) == [page |-> tender[i].page, text |-> tender[i].text, must |-> In(tender[i].text, "MUST"),
                        score |-> tender[i].text.score, format |-> FALSE]
            boost(i) == IF In(tender[i].text, "POWER_ENG") THEN 10 ELSE 0
<1>1. ASSUME NEW x \in items
      PROVE  \E i \in DOMAIN tender : x \in KeyPoints(i, Read(i), 55, boost(i))
  BY <1>1 DEF classify_line
<1>2. ASSUME NEW i \in DOMAIN tender, NEW x \in KeyPoints(i, Read(i), 55, boost(i))
      PROVE  /\ x.at = i /\ x.importance \in Int
             /\ x = Point(i, Read(i), x.category, Binds(Read(i), x.category),
                          Importance(Read(i), x.category, 55) + boost(i))
  <2>1. x = Point(i, Read(i), x.category, Binds(Read(i), x.category),
                  Importance(Read(i), x.category, 55) + boost(i))
    BY <1>2, PointOfCategory
  <2>2. Read(i).score \in Int /\ boost(i) \in Int
    OBVIOUS
  <2>. HIDE DEF Read, boost
  <2>3. Importance(Read(i), x.category, 55) \in Int
    BY <2>2, ImportanceIsNumber
  <2>4. x.at = i /\ x.importance = Importance(Read(i), x.category, 55) + boost(i)
    BY <2>1, PointFields
  <2>. QED
    BY <2>1, <2>2, <2>3, <2>4
<1>. HIDE DEF items, Read, boost
<1>3. \A x \in items : x.at \in Int /\ x.importance \in Int
  BY <1>1, <1>2
<1>4. ASSUME NEW x \in items, NEW y \in items, x.at = y.at, x.category = y.category PROVE x = y
  <2>1. PICK i \in DOMAIN tender : x \in KeyPoints(i, Read(i), 55, boost(i))
    BY <1>1
  <2>2. PICK j \in DOMAIN tender : y \in KeyPoints(j, Read(j), 55, boost(j))
    BY <1>1
  <2>3. i = j
    BY <1>2, <1>4, <2>1, <2>2
  <2>. QED
    BY <1>2, <1>4, <2>1, <2>2, <2>3
<1>5. Points(items)
  BY <1>3, <1>4 DEF Points
<1>. QED
  BY <1>5 DEF items

\* Of the same point one is left.
LEMMA DedupeLeavesOne ==
    ASSUME NEW items, Points(items), NEW x \in dedupe(items), NEW y \in dedupe(items), SamePoint(x, y)
    PROVE  x = y
<1>1. x \in items /\ y \in items /\ SamePoint(y, x)
  BY DEF dedupe, SamePoint
<1>2. /\ y.importance < x.importance \/ (y.importance = x.importance /\ x.at <= y.at)
      /\ x.importance < y.importance \/ (x.importance = y.importance /\ y.at <= x.at)
  BY <1>1 DEF dedupe
<1>3. x.at \in Int /\ y.at \in Int /\ x.importance \in Int /\ y.importance \in Int
  BY <1>1 DEF Points
<1>4. x.at = y.at
  BY <1>2, <1>3
<1>. QED
  BY <1>1, <1>4 DEF Points, SamePoint

\* What the lists and the models read of a tender are requirements with numbers.
LEMMA RequirementsAreNumbered ==
    ASSUME NEW q \in Analyses, NEW requirements,
           requirements = parse_tender_requirements(q.tender, q.answers)
    PROVE  /\ DOMAIN requirements \subseteq Int
           /\ \A i \in DOMAIN requirements : requirements[i].score \in Int
<1>. DEFINE found == {a \in DOMAIN q.answers : q.answers[a] # <<>>}
            best == Min(found)
<1>1. /\ IsSequence(q.tender) /\ \A i \in DOMAIN q.tender : q.tender[i].text.score \in Int
      /\ IsSequence(q.answers)
      /\ \A a \in DOMAIN q.answers :
           /\ IsSequence(q.answers[a])
           /\ \A i \in DOMAIN q.answers[a] : {q.answers[a][i].score, q.answers[a][i].text.score} \subseteq Int
  BY AnalysesAssumption
<1>2. DOMAIN q.tender \subseteq Int /\ DOMAIN q.answers \subseteq Nat
  BY <1>1 DEF IsSequence
<1>3. CASE requirements = parse_with_regex(q.tender)
  BY <1>1, <1>2, <1>3 DEF parse_with_regex
<1>4. CASE requirements = parse_with_llm(q.answers) /\ found # {}
  <2>1. best \in DOMAIN q.answers
    <3>1. found \subseteq Nat
      BY <1>2
    <3>. QED
      BY <1>4, <3>1, MinOfPositions
  <2>. DEFINE Item(x) == [page |-> x.page, text |-> x.text,
                          must |-> IF x.must = "unsaid" THEN In(x.text, "must") ELSE x.must = "yes",
                          score |-> IF x.score > 0 THEN x.score ELSE x.text.score,
                          format |-> x.format \/ In(x.text, "format")]
  <2>2. requirements = [i \in DOMAIN q.answers[best] |-> Item(q.answers[best][i])]
    BY <1>4 DEF parse_with_llm
  <2>3. \A x : Item(x).score \in {x.score, x.text.score}
    OBVIOUS
  <2>. HIDE DEF best, found, Item
  <2>4. DOMAIN q.answers[best] \subseteq Int
    BY <1>1, <2>1 DEF IsSequence
  <2>5. ASSUME NEW i \in DOMAIN requirements PROVE requirements[i].score \in Int
    <3>1. i \in DOMAIN q.answers[best] /\ requirements[i] = Item(q.answers[best][i])
      BY <2>2, <2>5
    <3>2. q.answers[best][i].score \in Int /\ q.answers[best][i].text.score \in Int
      BY <1>1, <2>1, <3>1
    <3>. QED
      BY <2>3, <3>1, <3>2
  <2>. QED
    BY <2>2, <2>4, <2>5
<1>5. CASE requirements = <<>>
  BY <1>5
<1>. QED
  BY <1>3, <1>4, <1>5 DEF parse_tender_requirements, parse_with_llm

\* The points of an analysis, before and after the doubles are dropped.
LEMMA AnalysisPoints ==
    ASSUME NEW q \in Analyses
    PROVE  \E items : /\ Points(items) /\ analyze_tender(q.tender, q.answers).points = dedupe(items)
                      /\ (\A i \in DOMAIN q.answers : q.answers[i] = <<>>) /\ parse_with_regex(q.tender) # <<>>
                           => LET read == insights_from_parsed_requirements(parse_with_regex(q.tender))
                              IN  read # {} => items = read
<1>1. PICK requirements : requirements = parse_tender_requirements(q.tender, q.answers)
  OBVIOUS
<1>2. PICK parsed : parsed = insights_from_parsed_requirements(requirements)
  OBVIOUS
<1>3. PICK lines : lines = UNION {classify_line(i, q.tender[i]) : i \in DOMAIN q.tender}
  OBVIOUS
<1>4. Points(parsed)
  BY <1>1, <1>2, RequirementsAreNumbered, PointsOfRequirements
<1>5. Points(lines)
  <2>1. DOMAIN q.tender \subseteq Int /\ \A i \in DOMAIN q.tender : q.tender[i].text.score \in Int
    <3>1. IsSequence(q.tender) /\ \A i \in DOMAIN q.tender : q.tender[i].text.score \in Int
      BY AnalysesAssumption
    <3>. QED
      BY <3>1 DEF IsSequence
  <2>. QED
    BY <1>3, <2>1, PointsOfLines
<1>6. analyze_tender(q.tender, q.answers).points = dedupe(IF parsed # {} THEN parsed ELSE lines)
  BY <1>1, <1>2, <1>3 DEF analyze_tender
<1>7. ASSUME \A i \in DOMAIN q.answers : q.answers[i] = <<>>, parse_with_regex(q.tender) # <<>>
      PROVE  requirements = parse_with_regex(q.tender)
  BY <1>1, <1>7 DEF parse_tender_requirements, parse_with_llm
<1>8. Points(IF parsed # {} THEN parsed ELSE lines)
  BY <1>4, <1>5
<1>. QED
  BY <1>2, <1>6, <1>7, <1>8

\* A sentence that the lists find to void the bid is a requirement that binds.
LEMMA VoidingBinds ==
    ASSUME NEW tender, NEW i \in DOMAIN tender, In(tender[i].text, "disqualify"),
           NEW r, r = parse_with_regex(tender)
    PROVE  i \in DOMAIN r /\ r[i].text = tender[i].text /\ r[i].must
BY DEF parse_with_regex

\* Every requirement that binds has its compliance point.
LEMMA BindingHasPoint ==
    ASSUME NEW requirements, NEW items, items = insights_from_parsed_requirements(requirements),
           NEW i \in DOMAIN requirements, requirements[i].must
    PROVE  Point(i, requirements[i], "COMPLIANCE_REQUIREMENTS", TRUE, 75) \in items
<1>1. Point(i, requirements[i], "COMPLIANCE_REQUIREMENTS", TRUE, 75) \in KeyPoints(i, requirements[i], 58, 0)
  <2>1. Point(i, requirements[i], "COMPLIANCE_REQUIREMENTS", TRUE, 75) =
        Point(i, requirements[i], "COMPLIANCE_REQUIREMENTS", TRUE, 75 + 0)
    OBVIOUS
  <2>. QED
    BY <2>1, Zenon DEF KeyPoints
<1>. QED
  BY <1>1 DEF insights_from_parsed_requirements

\* And a compliance point is the point of a requirement that binds.
LEMMA PointIsBinding ==
    ASSUME NEW requirements, NEW items, items = insights_from_parsed_requirements(requirements),
           NEW x \in items, x.category = "COMPLIANCE_REQUIREMENTS"
    PROVE  /\ x.at \in DOMAIN requirements /\ requirements[x.at].must
           /\ x.content = requirements[x.at].text /\ x.importance = 75 /\ x.is_must
<1>1. PICK i \in DOMAIN requirements :
        x \in KeyPoints(i, requirements[i], 58, 0) \/ x = Point(i, requirements[i], "BIDDING_POINTS", FALSE, 50)
  BY DEF insights_from_parsed_requirements
<1>2. x \in KeyPoints(i, requirements[i], 58, 0)
  BY <1>1 DEF Point
<1>3. /\ x = Point(i, requirements[i], x.category, Binds(requirements[i], x.category),
                   Importance(requirements[i], x.category, 58) + 0)
      /\ requirements[i].must
  BY <1>2, PointOfCategory
<1>4. Binds(requirements[i], x.category) = TRUE /\ Importance(requirements[i], x.category, 58) + 0 = 75
  BY DEF Binds, Importance
<1>5. x = Point(i, requirements[i], "COMPLIANCE_REQUIREMENTS", TRUE, 75)
  BY <1>3, <1>4
<1>. QED
  BY <1>3, <1>5 DEF Point

\* Of the sentences with the same text, the first keeps the compliance point.
LEMMA VoidingIsListed ==
    ASSUME NEW requirements, DOMAIN requirements \subseteq Nat,
           NEW items, items = insights_from_parsed_requirements(requirements),
           NEW i \in DOMAIN requirements, requirements[i].must
    PROVE  \E x \in dedupe(items) : x.content = requirements[i].text /\ x.category = "COMPLIANCE_REQUIREMENTS"
<1>1. PICK same : same = {j \in DOMAIN requirements : requirements[j].must /\ requirements[j].text = requirements[i].text}
  OBVIOUS
<1>2. same \subseteq Nat /\ same # {}
  BY <1>1
<1>3. PICK j \in same : \A k \in same : j <= k
  BY <1>2, MinOfPositions
<1>4. PICK x : x = Point(j, requirements[j], "COMPLIANCE_REQUIREMENTS", TRUE, 75)
  OBVIOUS
<1>5. x.at = j /\ x.content = requirements[i].text /\ x.category = "COMPLIANCE_REQUIREMENTS" /\ x.importance = 75
  BY <1>1, <1>3, <1>4 DEF Point
<1>6. x \in items
  BY <1>1, <1>3, <1>4, BindingHasPoint
<1>7. ASSUME NEW y \in items, SamePoint(x, y) PROVE y.importance = x.importance /\ x.at <= y.at
  <2>1. y.category = "COMPLIANCE_REQUIREMENTS" /\ y.content = requirements[i].text
    BY <1>5, <1>7 DEF SamePoint
  <2>2. /\ y.at \in DOMAIN requirements /\ requirements[y.at].must
        /\ y.content = requirements[y.at].text /\ y.importance = 75
    BY <2>1, PointIsBinding
  <2>3. y.at \in same
    BY <1>1, <2>1, <2>2
  <2>. QED
    BY <1>3, <1>5, <2>2, <2>3
<1>8. x \in dedupe(items)
  BY <1>6, <1>7 DEF dedupe
<1>. QED
  BY <1>5, <1>8

\* What VoidingClausesAreListed says of one question.
VoidingOk(q) ==
    LET points == analyze_tender(q.tender, q.answers).points
        voiding == {i \in DOMAIN q.tender : In(q.tender[i].text, "disqualify")}
        listed(i) == {x \in points : x.content = q.tender[i].text /\ x.category = "COMPLIANCE_REQUIREMENTS"}
    IN  /\ \A x, y \in points : x # y => <<x.category, x.content>> # <<y.category, y.content>>
        /\ \A i \in voiding : q.tender[i].text.size >= 8 =>
              \E item \in extract_preliminary(q.tender) : item.at = i /\ item.fatal_if_unmet
        /\ (\A i \in DOMAIN q.answers : q.answers[i] = <<>>) =>
              \A i \in voiding : Cardinality(listed(i)) = 1 /\ \A x \in listed(i) : x.is_must

\* It holds of every question.
LEMMA VoidingIsOk == ASSUME NEW q \in Analyses PROVE VoidingOk(q)
<1>. DEFINE points == analyze_tender(q.tender, q.answers).points
            voiding == {i \in DOMAIN q.tender : In(q.tender[i].text, "disqualify")}
            Asking(i) == {x \in points : x.content = q.tender[i].text /\ x.category = "COMPLIANCE_REQUIREMENTS"}
            read == insights_from_parsed_requirements(parse_with_regex(q.tender))
<1>1. PICK items : /\ Points(items) /\ points = dedupe(items)
                   /\ (\A i \in DOMAIN q.answers : q.answers[i] = <<>>) /\ parse_with_regex(q.tender) # <<>>
                        => (read # {} => items = read)
  BY AnalysisPoints
<1>2. ASSUME NEW x \in points, NEW y \in points, x.category = y.category, x.content = y.content PROVE x = y
  BY <1>1, <1>2, DedupeLeavesOne DEF SamePoint
<1>3. ASSUME NEW i \in voiding, q.tender[i].text.size >= 8
      PROVE  \E item \in extract_preliminary(q.tender) : item.at = i /\ item.fatal_if_unmet
  <2>1. [at |-> i, clause |-> q.tender[i].text, fatal_if_unmet |-> Fatal(q.tender[i].text)] \in extract_preliminary(q.tender)
    BY <1>3 DEF extract_preliminary
  <2>2. Fatal(q.tender[i].text)
    BY DEF Fatal
  <2>. QED
    BY <2>1, <2>2
<1>4. ASSUME \A i \in DOMAIN q.answers : q.answers[i] = <<>>, NEW i \in voiding
      PROVE  Cardinality(Asking(i)) = 1 /\ \A x \in Asking(i) : x.is_must
  <2>1. PICK requirements : requirements = parse_with_regex(q.tender)
    OBVIOUS
  <2>2. i \in DOMAIN requirements /\ requirements[i].text = q.tender[i].text /\ requirements[i].must
    BY <2>1, VoidingBinds
  <2>3. DOMAIN requirements \subseteq Nat
    <3>1. IsSequence(q.tender)
      BY AnalysesAssumption
    <3>. QED
      BY <2>1, <3>1 DEF IsSequence, parse_with_regex
  <2>. PICK found : found = insights_from_parsed_requirements(requirements)
    OBVIOUS
  <2>4. found # {} /\ requirements # <<>>
    <3>1. Point(i, requirements[i], "COMPLIANCE_REQUIREMENTS", TRUE, 75) \in found
      BY <2>2, BindingHasPoint
    <3>2. DOMAIN requirements # {} /\ DOMAIN <<>> = {}
      BY <2>2
    <3>3. found # {}
      BY <3>1
    <3>. QED
      BY <3>2, <3>3
  <2>5. points = dedupe(found)
    BY <1>1, <1>4, <2>1, <2>4
  <2>6. PICK x \in points : x.content = q.tender[i].text /\ x.category = "COMPLIANCE_REQUIREMENTS"
    BY <2>2, <2>3, <2>5, VoidingIsListed
  <2>7. Asking(i) = {x}
    <3>. HIDE DEF points
    <3>. QED
      BY <1>2, <2>6
  <2>8. x.is_must
    <3>1. x \in found
      BY <2>5 DEF dedupe
    <3>. HIDE DEF points
    <3>. QED
      BY <2>6, <3>1, PointIsBinding
  <2>. HIDE DEF points, Listed
  <2>9. Cardinality(Asking(i)) = 1
    BY <2>7, FS_Singleton
  <2>. QED
    BY <2>7, <2>8, <2>9
<1>5. \A x, y \in points : x # y => <<x.category, x.content>> # <<y.category, y.content>>
  <2>. HIDE DEF points
  <2>. QED
    BY <1>2
<1>. QED
  BY <1>3, <1>4, <1>5 DEF VoidingOk

\* Whatever the tender and the models' answers, no point is listed twice, and a
\* sentence that may void the bid is listed once, as a must, and taken as fatal
\* (tender_analysis.analyze_and_persist_tender_pdf).
THEOREM VoidingStaysListed == Questions => []VoidingClausesAreListed
<1>1. AskedInv => VoidingClausesAreListed
  <2>1. ASSUME NEW q \in Analyses PROVE VoidingOk(q)
    BY VoidingIsOk
  <2>. QED
    BY <2>1 DEF AskedInv, VoidingClausesAreListed, Answers, VoidingOk
<1>. QED
  BY <1>1, AskedHolds, PTL

-----------------------------------------------------------------------------
(* What is best of finitely many.                                          *)
\* Of finitely many, one is beaten by none.
LEMMA OneUnbeaten ==
    ASSUME NEW S, IsFiniteSet(S), S # {}, NEW beats \in SUBSET (S \X S),
           \A x \in S : <<x, x>> \notin beats,
           \A x, y, z \in S : <<x, y>> \in beats /\ <<y, z>> \in beats => <<x, z>> \in beats
    PROVE  \E x \in S : \A y \in S : <<y, x>> \notin beats
<1> DEFINE Above(x) == {y \in S : <<y, x>> \in beats}
           T == {Above(x) : x \in S}
<1>1. T \subseteq FiniteSubsetsOf(S) /\ T # {}
  <2>1. \A x \in S : Above(x) \subseteq S /\ IsFiniteSet(Above(x))
    BY FS_Subset
  <2>. HIDE DEF Above
  <2>. QED
    BY <2>1 DEF FiniteSubsetsOf
<1>2. PICK a \in T : \A b \in T : ~(<<b, a>> \in StrictSubsetOrdering(S))
  <2>. HIDE DEF T
  <2>. QED
    BY <1>1, FS_StrictSubsetOrderingWellFounded, WFMin
<1>3. PICK x \in S : a = Above(x)
  BY <1>2
<1>4. ASSUME NEW y \in S, <<y, x>> \in beats PROVE FALSE
  <2>1. Above(y) \subseteq Above(x) /\ y \in Above(x) /\ y \notin Above(y)
    BY <1>4
  <2>2. <<Above(y), Above(x)>> \in StrictSubsetOrdering(S)
    BY <2>1 DEF StrictSubsetOrdering
  <2>. QED
    BY <1>2, <1>3, <2>2
<1>. QED
  BY <1>4

\* The first n of a set of numbers.
FirstOf(A, n) == {i \in A : Cardinality({j \in A : j < i}) < n}

\* Of a finite set of numbers, the first n are as many as there are, or n.
LEMMA FirstAreMany ==
    ASSUME NEW A, A \subseteq Int, IsFiniteSet(A), NEW n \in Nat
    PROVE  /\ IsFiniteSet(FirstOf(A, n))
           /\ Cardinality(FirstOf(A, n)) = IF n <= Cardinality(A) THEN n ELSE Cardinality(A)
<1>. DEFINE Smaller(i) == {j \in A : j < i}
            rank == [i \in A |-> Cardinality(Smaller(i))]
            m == Cardinality(A)
<1>. PICK first : first = FirstOf(A, n)
  OBVIOUS
<1>1. m \in Nat
  BY FS_CardinalityType
<1>2. \A i \in A : IsFiniteSet(Smaller(i)) /\ Cardinality(Smaller(i)) \in Nat
  <2>1. ASSUME NEW i \in A PROVE IsFiniteSet(Smaller(i))
    BY FS_Subset
  <2>. QED
    BY <2>1, FS_CardinalityType
<1>3. \A i \in A : rank[i] \in 0..(m - 1)
  <2>1. ASSUME NEW i \in A PROVE rank[i] \in 0..(m - 1)
    <3>1. Smaller(i) \cup {i} \subseteq A /\ i \notin Smaller(i)
      OBVIOUS
    <3>2. Cardinality(Smaller(i) \cup {i}) = Cardinality(Smaller(i)) + 1
      BY <1>2, <3>1, FS_AddElement
    <3>3. Cardinality(Smaller(i) \cup {i}) <= m
      BY <3>1, FS_Subset
    <3>. QED
      BY <1>1, <1>2, <3>2, <3>3
  <2>. QED
    BY <2>1
<1>4. \A i, k \in A : i < k => rank[i] < rank[k]
  <2>1. ASSUME NEW i \in A, NEW k \in A, i < k PROVE rank[i] < rank[k]
    <3>0. \A j \in A : j < i => j < k
      BY <2>1
    <3>1. Smaller(i) \cup {i} \subseteq Smaller(k)
      BY <2>1, <3>0, Zenon
    <3>1a. i \notin Smaller(i)
      <4>1. ~(i < i)
        OBVIOUS
      <4>. QED
        BY <4>1, Zenon
    <3>2. Cardinality(Smaller(i) \cup {i}) = Cardinality(Smaller(i)) + 1
      BY <1>2, <3>1a, FS_AddElement
    <3>3. Cardinality(Smaller(i) \cup {i}) <= Cardinality(Smaller(k))
      BY <1>2, <3>1, FS_Subset
    <3>. QED
      BY <1>2, <3>2, <3>3
  <2>. QED
    BY <2>1
<1>. HIDE DEF rank
<1>5. rank \in Injection(A, 0..(m - 1))
  <2>1. rank \in [A -> 0..(m - 1)]
    BY <1>3 DEF rank
  <2>2. \A i, k \in A : rank[i] = rank[k] => i = k
    <3>1. ASSUME NEW i \in A, NEW k \in A, i # k PROVE rank[i] # rank[k]
      <4>1. i < k \/ k < i
        BY <3>1
      <4>2. rank[i] \in Int /\ rank[k] \in Int
        BY <1>1, <1>3
      <4>. QED
        BY <1>4, <4>1, <4>2
    <3>. QED
      BY <3>1
  <2>. QED
    BY <2>1, <2>2 DEF Injection, IsInjective
<1>6. IsFiniteSet(0..(m - 1)) /\ Cardinality(0..(m - 1)) = m
  <2>. PICK last \in Int : last = m - 1 /\ last >= -1
    BY <1>1
  <2>1. IsFiniteSet(0..last) /\ Cardinality(0..last) = IF 0 > last THEN 0 ELSE last - 0 + 1
    BY FS_Interval, 0 \in Int, Zenon
  <2>. QED
    BY <1>1, <2>1
<1>7. rank \in Surjection(A, 0..(m - 1))
  BY <1>5, <1>6, FS_Injection
<1>8. first = {i \in A : rank[i] < n}
  BY DEF rank, FirstOf
<1>9. PICK k \in Nat : k = (IF n <= m THEN n ELSE m)
  BY <1>1
<1>10. IsFiniteSet(0..(k - 1)) /\ Cardinality(0..(k - 1)) = k
  BY FS_Interval
<1>11. IsFiniteSet(first) /\ Cardinality(first) = k
  <2>. DEFINE at == [i \in first |-> rank[i]]
  <2>1. at \in [first -> 0..(k - 1)]
    <3>1. ASSUME NEW i \in first PROVE rank[i] \in 0..(k - 1)
      BY <1>1, <1>3, <1>8, <1>9
    <3>. QED
      BY <3>1
  <2>2. \A i, j \in first : at[i] = at[j] => i = j
    BY <1>5, <1>8 DEF Injection, IsInjective
  <2>3. \A x \in 0..(k - 1) : \E i \in first : at[i] = x
    <3>1. ASSUME NEW x \in 0..(k - 1) PROVE \E i \in first : at[i] = x
      <4>1. x \in 0..(m - 1) /\ x < n
        BY <1>1, <1>9
      <4>2. PICK i \in A : rank[i] = x
        BY <1>7, <4>1 DEF Surjection
      <4>. QED
        BY <1>8, <4>1, <4>2
    <3>. QED
      BY <3>1
  <2>. HIDE DEF at
  <2>4. at \in Injection(first, 0..(k - 1)) /\ at \in Surjection(first, 0..(k - 1))
    BY <2>1, <2>2, <2>3 DEF Injection, IsInjective, Surjection
  <2>. QED
    BY <1>10, <2>4, FS_Injection
<1>. QED
  BY <1>9, <1>11

\* What is ahead by the first of three numbers, else by the second, else by the third.
Ahead(k, l, m, x, y) ==
    \/ k[y] < k[x]
    \/ k[y] = k[x] /\ l[y] < l[x]
    \/ k[y] = k[x] /\ l[y] = l[x] /\ m[y] < m[x]

\* Of finitely many, nothing is ahead of one.
LEMMA OneAhead ==
    ASSUME NEW S, IsFiniteSet(S), S # {}, NEW k \in [S -> Int], NEW l \in [S -> Int], NEW m \in [S -> Int]
    PROVE  \E x \in S : \A y \in S : ~Ahead(k, l, m, y, x)
<1>. DEFINE beats == {p \in S \X S : Ahead(k, l, m, p[1], p[2])}
<1>1. \A x, y \in S : <<x, y>> \in beats <=> Ahead(k, l, m, x, y)
  OBVIOUS
<1>2. ASSUME NEW x \in S PROVE ~Ahead(k, l, m, x, x)
  BY DEF Ahead
<1>3. ASSUME NEW x \in S, NEW y \in S, NEW z \in S, Ahead(k, l, m, x, y), Ahead(k, l, m, y, z)
      PROVE  Ahead(k, l, m, x, z)
  <2>1. k[x] \in Int /\ k[y] \in Int /\ k[z] \in Int /\ l[x] \in Int /\ l[y] \in Int /\ l[z] \in Int
        /\ m[x] \in Int /\ m[y] \in Int /\ m[z] \in Int
    OBVIOUS
  <2>. QED
    BY <1>3, <2>1 DEF Ahead
<1>4. beats \in SUBSET (S \X S)
  OBVIOUS
<1>. HIDE DEF beats
<1>5. \A x \in S : <<x, x>> \notin beats
  BY <1>1, <1>2
<1>6. \A x, y, z \in S : <<x, y>> \in beats /\ <<y, z>> \in beats => <<x, z>> \in beats
  BY <1>1, <1>3
<1>7. PICK x \in S : \A y \in S : <<y, x>> \notin beats
  BY <1>4, <1>5, <1>6, OneUnbeaten
<1>. QED
  BY <1>1, <1>7

-----------------------------------------------------------------------------
(* An ensemble of reviews.                                                 *)
\* The size of an ensemble is pressed between one and the number of profiles.
LEMMA AskedSize ==
    ASSUME NEW size \in Int, NEW all \in Int, all >= 1
    PROVE  Max({1, Min({size, all})}) = IF size > all THEN all ELSE IF size < 1 THEN 1 ELSE size
<1>1. Min({size, all}) = IF size <= all THEN size ELSE all
  BY MinOfTwo
<1>2. PICK least \in Int : least = Min({size, all}) /\ least = IF size <= all THEN size ELSE all
  BY <1>1
<1>3. PICK one \in Int : one = 1
  OBVIOUS
<1>4. Max({one, least}) = IF one >= least THEN one ELSE least
  BY MaxOfTwo
<1>. QED
  BY <1>2, <1>3, <1>4

\* The reviewers that answer.
Answering(q) == {i \in DOMAIN q.chain : q.chain[i].up}

\* The votes that count.
VotesOf(q) == {q.chain[i].vote : i \in Voters(q.chain, Max({1, Min({q.size, Len(q.chain)})}))}

\* As many vote as were asked for, or as answer; each has one vote.
LEMMA VotesCounted ==
    ASSUME NEW q \in Ensembles, Answering(q) # {}
    PROVE  /\ IsFiniteSet(VotesOf(q)) /\ VotesOf(q) # {}
           /\ Cardinality(VotesOf(q)) = Min({Max({1, q.size}), Cardinality(Answering(q))})
           /\ \A v \in VotesOf(q) : \E i \in DOMAIN q.chain : v = q.chain[i].vote
<1>1. /\ q.size \in Int /\ IsSequence(q.chain)
      /\ \A i, j \in DOMAIN q.chain : q.chain[i].vote.index = q.chain[j].vote.index => i = j
  BY EnsemblesAssumption
<1>. PICK up : up = Answering(q) /\ up # {}
  OBVIOUS
<1>. PICK votes : votes = VotesOf(q)
  OBVIOUS
<1>. PICK chain : chain = q.chain
  OBVIOUS
<1>. PICK size \in Int : size = q.size
  BY <1>1
<1>2. /\ DOMAIN chain = 1..Len(chain) /\ Len(chain) \in Nat
      /\ \A i, j \in DOMAIN chain : chain[i].vote.index = chain[j].vote.index => i = j
  BY <1>1 DEF IsSequence
<1>. PICK all \in Nat : all = Len(chain)
  BY <1>2
<1>3. IsFiniteSet(1..all) /\ Cardinality(1..all) = all
  <2>1. IsFiniteSet(1..all) /\ Cardinality(1..all) = IF 1 > all THEN 0 ELSE all - 1 + 1
    BY FS_Interval, 1 \in Int, all \in Int, Zenon
  <2>. QED
    BY <2>1
<1>4. up \subseteq 1..all /\ up = {i \in DOMAIN chain : chain[i].up}
  BY <1>2 DEF Answering
<1>5. IsFiniteSet(up) /\ Cardinality(up) \in 1..all
  <2>1. IsFiniteSet(up) /\ Cardinality(up) <= all
    BY <1>3, <1>4, FS_Subset
  <2>. QED
    BY <2>1, FS_CardinalityType, FS_EmptySet
<1>. PICK answering \in 1..all : answering = Cardinality(up)
  BY <1>5
<1>6. PICK asked_for \in Nat \ {0} : /\ asked_for = Max({1, Min({size, all})})
                                     /\ size >= 1 /\ size <= all => asked_for = size
                                     /\ size > all => asked_for = all
                                     /\ size < 1 => asked_for = 1
  <2>1. all >= 1
    OBVIOUS
  <2>2. Max({1, Min({size, all})}) = IF size > all THEN all ELSE IF size < 1 THEN 1 ELSE size
    BY <2>1, AskedSize, all \in Int, Zenon
  <2>3. PICK both \in Int : both = IF size > all THEN all ELSE IF size < 1 THEN 1 ELSE size
    OBVIOUS
  <2>4. both \in Nat \ {0} /\ (size >= 1 /\ size <= all => both = size) /\ (size > all => both = all)
        /\ (size < 1 => both = 1)
    BY <2>1, <2>3
  <2>5. both = Max({1, Min({size, all})})
    BY <2>2, <2>3, Zenon
  <2>. QED
    BY <2>4, <2>5, Zenon
<1>7. PICK most \in Int : most = Max({1, size}) /\ most = IF size >= 1 THEN size ELSE 1
  <2>. PICK one \in Int : one = 1
    OBVIOUS
  <2>1. Max({one, size}) = IF one >= size THEN one ELSE size
    BY MaxOfTwo
  <2>. QED
    BY <2>1
<1>8. PICK first : first = Voters(chain, asked_for)
  OBVIOUS
<1>9. first = FirstOf(up, asked_for) /\ first \subseteq up
  BY <1>4, <1>8 DEF Voters, FirstOf
<1>10. IsFiniteSet(first) /\ Cardinality(first) = IF asked_for <= answering THEN asked_for ELSE answering
  <2>1. up \subseteq Int /\ asked_for \in Nat
    BY <1>4
  <2>2. IsFiniteSet(first) /\ Cardinality(first) = IF asked_for <= Cardinality(up) THEN asked_for ELSE Cardinality(up)
    BY <1>5, <1>9, <2>1, FirstAreMany
  <2>. QED
    BY <2>2
<1>11. votes = {chain[i].vote : i \in first}
  BY <1>6, <1>8 DEF VotesOf
<1>12. IsFiniteSet(votes) /\ Cardinality(votes) = Cardinality(first)
  <2>. DEFINE cast == [i \in first |-> chain[i].vote]
  <2>1. cast \in [first -> votes]
    BY <1>11
  <2>2. \A i, j \in first : cast[i] = cast[j] => i = j
    BY <1>2, <1>4, <1>9
  <2>3. \A v \in votes : \E i \in first : cast[i] = v
    BY <1>11
  <2>. HIDE DEF cast
  <2>4. cast \in Surjection(first, votes) /\ cast \in Injection(first, votes)
    BY <2>1, <2>2, <2>3 DEF Surjection, Injection, IsInjective
  <2>. QED
    BY <1>10, <2>4, FS_Surjection
<1>13. Min({most, answering}) = IF most <= answering THEN most ELSE answering
  BY MinOfTwo
<1>14. Cardinality(votes) = Min({most, answering}) /\ Cardinality(votes) # 0
  <2>1. (IF asked_for <= answering THEN asked_for ELSE answering) = (IF most <= answering THEN most ELSE answering)
    <3>1. CASE size < 1
      BY <1>6, <1>7, <3>1
    <3>2. CASE size > all
      <4>1. asked_for = all
        BY <1>6, <3>2
      <4>1a. most = size
        <5>1. size >= 1
          BY <3>2
        <5>. QED
          BY <1>7, <5>1
      <4>2. answering <= all /\ answering <= size /\ answering \in Int
        BY <3>2
      <4>. QED
        BY <3>2, <4>1, <4>1a, <4>2
    <3>3. CASE size >= 1 /\ size <= all
      BY <1>6, <1>7, <3>3
    <3>. QED
      BY <3>1, <3>2, <3>3
  <2>2. (IF asked_for <= answering THEN asked_for ELSE answering) # 0
    OBVIOUS
  <2>. QED
    BY <1>10, <1>12, <1>13, <2>1, <2>2
<1>15. votes # {}
  BY <1>14, FS_EmptySet
<1>16. \A v \in votes : \E i \in DOMAIN chain : v = chain[i].vote
  BY <1>4, <1>9, <1>11
<1>. QED
  BY <1>7, <1>12, <1>14, <1>15, <1>16

\* A status ranks by a number.
LEMMA RankIsNumber == ASSUME NEW status PROVE status_rank(status) \in Int
BY DEF status_rank

\* What EnsembleKeepsIssues says of one question.
EnsembleOk(q) ==
    LET answer == compliance_review_with_ensemble(q.chain, q.size)
        up == {i \in DOMAIN q.chain : q.chain[i].up}
        votes == {q.chain[i].vote : i \in Voters(q.chain, Max({1, Min({q.size, Len(q.chain)})}))}
        saying(s) == Cardinality({v \in votes : v.status = s})
    IN  up # {} =>
          /\ Cardinality(votes) = Min({Max({1, q.size}), Cardinality(up)})
          /\ \A v \in votes : v.issues \subseteq answer.issues
          /\ \A v \in votes : saying(v.status) <= saying(answer.status)
          /\ \E v \in votes : v.index = answer.winner

\* One status is outvoted by none.
LEMMA MajorityIsMost ==
    ASSUME NEW votes, IsFiniteSet(votes), votes # {}
    PROVE  \A v \in votes : Cardinality({x \in votes : x.status = v.status})
                              <= Cardinality({x \in votes : x.status = majority_status(votes)})
<1>. DEFINE statuses == {v.status : v \in votes}
            Count(s) == Cardinality({v \in votes : v.status = s})
            k == [s \in statuses |-> Count(s)]
            l == [s \in statuses |-> status_rank(s)]
            m == [s \in statuses |-> 0]
<1>1. IsFiniteSet(statuses)
  <2>. DEFINE said == [v \in votes |-> v.status]
  <2>1. said \in [votes -> statuses] /\ \A s \in statuses : \E v \in votes : said[v] = s
    OBVIOUS
  <2>. HIDE DEF said, statuses
  <2>2. said \in Surjection(votes, statuses)
    BY <2>1 DEF Surjection
  <2>. QED
    BY <2>2, FS_Surjection
<1>2. \A s : Count(s) \in Int
  <2>1. ASSUME NEW s PROVE Count(s) \in Int
    <3>1. IsFiniteSet({v \in votes : v.status = s})
      BY FS_Subset
    <3>. QED
      BY <3>1, FS_CardinalityType
  <2>. QED
    BY <2>1
<1>3. statuses # {}
  OBVIOUS
<1>. HIDE DEF statuses, Count
<1>4. k \in [statuses -> Int] /\ l \in [statuses -> Int] /\ m \in [statuses -> Int]
  BY <1>2, RankIsNumber
<1>5. PICK s \in statuses : \A t \in statuses : ~Ahead(k, l, m, t, s)
  <2>. HIDE DEF k, l, m
  <2>. QED
    BY <1>1, <1>3, <1>4, OneAhead
<1>6. \A t \in statuses : Count(t) < Count(s) \/ (Count(t) = Count(s) /\ status_rank(t) <= status_rank(s))
  <2>1. ASSUME NEW t \in statuses
        PROVE  Count(t) < Count(s) \/ (Count(t) = Count(s) /\ status_rank(t) <= status_rank(s))
    <3>1. /\ Count(t) \in Int /\ Count(s) \in Int /\ status_rank(t) \in Int /\ status_rank(s) \in Int
      BY <1>2, RankIsNumber
    <3>2. ~Ahead(k, l, m, t, s)
      BY <1>5
    <3>3. /\ ~(Count(s) < Count(t))
          /\ ~(Count(s) = Count(t) /\ status_rank(s) < status_rank(t))
      BY <3>2 DEF Ahead
    <3>. QED
      BY <3>1, <3>3
  <2>. QED
    BY <2>1
<1>7. majority_status(votes) = CHOOSE x \in statuses : \A t \in statuses :
        Count(t) < Count(x) \/ (Count(t) = Count(x) /\ status_rank(t) <= status_rank(x))
  BY DEF majority_status, statuses, Count
<1>8. /\ majority_status(votes) \in statuses
      /\ \A t \in statuses : \/ Count(t) < Count(majority_status(votes))
                             \/ Count(t) = Count(majority_status(votes))
  BY <1>6, <1>7
<1>9. \A t \in statuses : Count(t) <= Count(majority_status(votes))
  BY <1>2, <1>8
<1>. QED
  BY <1>9 DEF statuses, Count

\* One vote is beaten by none.
LEMMA WinnerIsVote ==
    ASSUME NEW votes, IsFiniteSet(votes), votes # {},
           \A v \in votes : evaluate_compliance_quality(v) \in Int /\ v.index \in Int,
           \A v, w \in votes : v.index = w.index => v = w
    PROVE  (CHOOSE v \in votes : \A w \in votes \ {v} : BetterVote(v, w)) \in votes
<1>. DEFINE k == [v \in votes |-> evaluate_compliance_quality(v)]
            l == [v \in votes |-> status_rank(v.status)]
            m == [v \in votes |-> 0 - v.index]
<1>1. k \in [votes -> Int] /\ l \in [votes -> Int] /\ m \in [votes -> Int]
  BY RankIsNumber
<1>2. PICK v \in votes : \A w \in votes : ~Ahead(k, l, m, w, v)
  <2>. HIDE DEF k, l, m
  <2>. QED
    BY <1>1, OneAhead
<1>3. ASSUME NEW w \in votes, w # v PROVE BetterVote(v, w)
  <2>. PICK qv \in Int : qv = evaluate_compliance_quality(v)
    OBVIOUS
  <2>. PICK qw \in Int : qw = evaluate_compliance_quality(w)
    OBVIOUS
  <2>. PICK rv \in Int : rv = status_rank(v.status)
    BY RankIsNumber
  <2>. PICK rw \in Int : rw = status_rank(w.status)
    BY RankIsNumber
  <2>. PICK iv \in Int : iv = v.index
    OBVIOUS
  <2>. PICK iw \in Int : iw = w.index
    OBVIOUS
  <2>1. iv # iw
    BY <1>3
  <2>2. ~(qv < qw) /\ ~(qv = qw /\ rv < rw) /\ ~(qv = qw /\ rv = rw /\ 0 - iv < 0 - iw)
    BY <1>2 DEF Ahead
  <2>3. qv > qw \/ (qv = qw /\ rv > rw) \/ (qv = qw /\ rv = rw /\ iv < iw)
    BY <2>1, <2>2
  <2>. QED
    BY <2>3 DEF BetterVote
<1>. QED
  BY <1>3

\* It holds of every question.
LEMMA EnsembleIsOk == ASSUME NEW q \in Ensembles PROVE EnsembleOk(q)
<1>. SUFFICES ASSUME Answering(q) # {} PROVE EnsembleOk(q)
  BY DEF EnsembleOk, Answering
<1>1. PICK votes : votes = VotesOf(q)
  OBVIOUS
<1>2. PICK up : up = Answering(q) /\ up # {}
  OBVIOUS
<1>3. /\ IsFiniteSet(votes) /\ votes # {}
      /\ Cardinality(votes) = Min({Max({1, q.size}), Cardinality(up)})
      /\ \A v \in votes : \E i \in DOMAIN q.chain : v = q.chain[i].vote
  BY <1>1, <1>2, VotesCounted
<1>4. /\ \A i \in DOMAIN q.chain :
           /\ q.chain[i].vote.index \in Int /\ q.chain[i].vote.cover \in Int
           /\ IsFiniteSet(q.chain[i].vote.issues) /\ IsFiniteSet(q.chain[i].vote.missing)
           /\ IsFiniteSet(q.chain[i].vote.risks)
      /\ \A i, j \in DOMAIN q.chain : q.chain[i].vote.index = q.chain[j].vote.index => i = j
  BY EnsemblesAssumption
<1>5. ASSUME NEW v \in votes PROVE evaluate_compliance_quality(v) \in Int /\ v.index \in Int
  <2>1. /\ v.index \in Int /\ v.cover \in Int
        /\ IsFiniteSet(v.issues) /\ IsFiniteSet(v.missing) /\ IsFiniteSet(v.risks)
    BY <1>3, <1>4
  <2>. QED
    BY <2>1, ComplianceQuality DEF IsQuality
<1>6. \A v, w \in votes : v.index = w.index => v = w
  BY <1>3, <1>4
<1>7. PICK winner : winner = CHOOSE v \in votes : \A w \in votes \ {v} : BetterVote(v, w)
  OBVIOUS
<1>8. winner \in votes
  BY <1>3, <1>5, <1>6, <1>7, WinnerIsVote
<1>9. PICK answer : answer = compliance_review_with_ensemble(q.chain, q.size)
  OBVIOUS
<1>10. /\ answer.status = majority_status(votes) /\ answer.winner = winner.index
       /\ answer.issues = IF merge_modeled_issues(votes) = {} THEN winner.issues ELSE merge_modeled_issues(votes)
  BY <1>1, <1>7, <1>9 DEF compliance_review_with_ensemble, VotesOf
<1>11. \A v \in votes : v.issues \subseteq answer.issues
  BY <1>10 DEF merge_modeled_issues
<1>12. \A v \in votes : Cardinality({x \in votes : x.status = v.status}) <= Cardinality({x \in votes : x.status = answer.status})
  BY <1>3, <1>10, MajorityIsMost
<1>. QED
  BY <1>1, <1>2, <1>3, <1>8, <1>9, <1>10, <1>11, <1>12 DEF EnsembleOk, VotesOf, Answering

\* However many reviewers are asked and whatever they answer, an ensemble drops no
\* issue of a vote that counts, and no status outvotes the one it gives
\* (llm_gateway.compliance_review_with_ensemble).
THEOREM EnsembleStaysSound == Questions => []EnsembleKeepsIssues
<1>1. AskedInv => EnsembleKeepsIssues
  <2>1. ASSUME NEW q \in Ensembles PROVE EnsembleOk(q)
    BY EnsembleIsOk
  <2>. QED
    BY <2>1 DEF AskedInv, EnsembleKeepsIssues, Answers, EnsembleOk
<1>. QED
  BY <1>1, AskedHolds, PTL

-----------------------------------------------------------------------------
(* Sums.                                                                   *)
\* What zero is not, and no successor of what is not, nothing up to n is.
LEMMA CountingUp ==
    ASSUME NEW n \in Nat, NEW B, B \subseteq 0..n, 0 \notin B, \A k \in 1..n : k - 1 \notin B => k \notin B
    PROVE  B = {}
<1>. SUFFICES ASSUME B # {} PROVE FALSE
  OBVIOUS
<1>1. B \subseteq Nat
  OBVIOUS
<1>2. PICK m \in B : \A y \in B : m <= y
  BY <1>1, MinOfPositions
<1>3. m \in 1..n /\ m - 1 \in Int /\ ~(m <= m - 1)
  BY <1>2
<1>. QED
  BY <1>2, <1>3

\* A sum can be made from the first number on.
LEMMA SumExists ==
    ASSUME NEW g, NEW n \in Nat
    PROVE  \E f : f = [k \in 0..n |-> IF k = 0 THEN 0 ELSE f[k - 1] + g[k]]
<1>. DEFINE Sums(f, m) == f = [k \in 0..m |-> IF k = 0 THEN 0 ELSE f[k - 1] + g[k]]
            B == {m \in 0..n : ~(\E f : Sums(f, m))}
<1>1. 0 \notin B
  <2>1. Sums([k \in 0..0 |-> 0], 0)
    OBVIOUS
  <2>. QED
    BY <2>1
<1>2. ASSUME NEW m \in 1..n, m - 1 \notin B PROVE m \notin B
  <2>1. m - 1 \in 0..n
    OBVIOUS
  <2>2. PICK f : Sums(f, m - 1)
    BY <1>2, <2>1
  <2>. DEFINE h == [k \in 0..m |-> IF k = m THEN f[m - 1] + g[m] ELSE f[k]]
  <2>3. ASSUME NEW k \in 0..m PROVE h[k] = IF k = 0 THEN 0 ELSE h[k - 1] + g[k]
    <3>1. CASE k = m
      BY <3>1
    <3>2. CASE k # m
      <4>1. k \in 0..(m - 1)
        BY <3>2
      <4>2. f[k] = IF k = 0 THEN 0 ELSE f[k - 1] + g[k]
        BY <2>2, <4>1
      <4>3. h[k] = f[k] /\ (k # 0 => h[k - 1] = f[k - 1])
        BY <3>2
      <4>. QED
        BY <4>2, <4>3
    <3>. QED
      BY <3>1, <3>2
  <2>4. h = [k \in 0..m |-> IF k = 0 THEN 0 ELSE h[k - 1] + g[k]]
    <3>1. DOMAIN h = 0..m /\ h = [k \in 0..m |-> h[k]]
      OBVIOUS
    <3>. HIDE DEF h
    <3>. QED
      BY <2>3, <3>1
  <2>. QED
    BY <2>4
<1>3. B = {}
  <2>. HIDE DEF B
  <2>1. B \subseteq 0..n
    BY DEF B
  <2>. QED
    BY <1>1, <1>2, <2>1, CountingUp
<1>4. n \notin B
  BY <1>3
<1>. QED
  BY <1>4

\* The sum is the last of the sums so far.
LEMMA TotalIsSum ==
    ASSUME NEW g, NEW n \in Nat
    PROVE  \E f : f = [k \in 0..n |-> IF k = 0 THEN 0 ELSE f[k - 1] + g[k]] /\ Total(g, n) = f[n]
<1>. DEFINE Sums(f) == f = [k \in 0..n |-> IF k = 0 THEN 0 ELSE f[k - 1] + g[k]]
<1>1. \E f : Sums(f)
  BY SumExists
<1>2. Total(g, n) = (CHOOSE f : Sums(f))[n]
  BY DEF Total
<1>. QED
  BY <1>1, <1>2

\* Changing two of the numbers changes the sum by as much.
LEMMA TotalChanges ==
    ASSUME NEW n \in Nat, NEW g \in [1..n -> Int], NEW h \in [1..n -> Int], NEW i \in 1..n, NEW j \in 1..n, i # j,
           \A k \in 1..n : k \notin {i, j} => h[k] = g[k]
    PROVE  /\ Total(g, n) \in Int
           /\ Total(h, n) = Total(g, n) + (h[i] - g[i]) + (h[j] - g[j])
<1>1. PICK e : e = [k \in 0..n |-> IF k = 0 THEN 0 ELSE e[k - 1] + g[k]] /\ Total(g, n) = e[n]
  BY TotalIsSum
<1>2. PICK f : f = [k \in 0..n |-> IF k = 0 THEN 0 ELSE f[k - 1] + h[k]] /\ Total(h, n) = f[n]
  BY TotalIsSum
<1>3. e[0] = 0 /\ f[0] = 0 /\ \A k \in 1..n : e[k] = e[k - 1] + g[k] /\ f[k] = f[k - 1] + h[k]
  BY <1>1, <1>2
<1>. PICK di \in Int : di = h[i] - g[i]
  OBVIOUS
<1>. PICK dj \in Int : dj = h[j] - g[j]
  OBVIOUS
<1>. DEFINE Change(k) == (IF i <= k THEN di ELSE 0) + (IF j <= k THEN dj ELSE 0)
            B == {k \in 0..n : ~(e[k] \in Int /\ f[k] = e[k] + Change(k))}
<1>4. 0 \notin B
  <2>1. ~(i <= 0) /\ ~(j <= 0)
    OBVIOUS
  <2>2. Change(0) = 0
    BY <2>1
  <2>3. e[0] \in Int /\ f[0] = e[0] + 0
    BY <1>3
  <2>. HIDE DEF Change
  <2>4. e[0] \in Int /\ f[0] = e[0] + Change(0)
    BY <2>2, <2>3, Zenon
  <2>. QED
    BY ONLY <2>4 DEF B
<1>5. ASSUME NEW k \in 1..n, k - 1 \notin B PROVE k \notin B
  <2>1. k - 1 \in 0..n
    OBVIOUS
  <2>2. e[k - 1] \in Int /\ f[k - 1] = e[k - 1] + Change(k - 1)
    BY <1>5, <2>1
  <2>3. e[k] = e[k - 1] + g[k] /\ f[k] = f[k - 1] + h[k]
    BY <1>3
  <2>4. g[k] \in Int /\ h[k] \in Int /\ g[i] \in Int /\ h[i] \in Int /\ g[j] \in Int /\ h[j] \in Int
    OBVIOUS
  <2>5. Change(k) = Change(k - 1) + (h[k] - g[k])
    <3>1. CASE k = i
      BY <2>4, <3>1
    <3>2. CASE k = j
      BY <2>4, <3>2
    <3>3. CASE k # i /\ k # j
      <4>1. h[k] = g[k] /\ (i <= k <=> i <= k - 1) /\ (j <= k <=> j <= k - 1)
        BY <3>3
      <4>. QED
        BY <2>4, <4>1
    <3>. QED
      BY <3>1, <3>2, <3>3
  <2>6. PICK c \in Int : c = Change(k - 1)
    OBVIOUS
  <2>. HIDE DEF Change
  <2>7. PICK x \in Int : x = e[k - 1] /\ f[k - 1] = x + c
    BY <2>2, <2>6
  <2>8. PICK y \in Int : y = g[k]
    BY <2>4
  <2>9. PICK z \in Int : z = h[k]
    BY <2>4
  <2>10. e[k] = x + y /\ f[k] = x + c + z /\ Change(k) = c + (z - y)
    BY <2>3, <2>5, <2>6, <2>7, <2>8, <2>9
  <2>11. e[k] \in Int /\ f[k] = e[k] + Change(k)
    BY <2>10
  <2>. QED
    BY <2>11
<1>6. B = {}
  <2>. HIDE DEF B
  <2>1. B \subseteq 0..n
    BY DEF B
  <2>. QED
    BY <1>4, <1>5, <2>1, CountingUp
<1>7. n \notin B
  BY <1>6
<1>8. Change(n) = di + dj
  OBVIOUS
<1>. HIDE DEF Change
<1>9. PICK x \in Int : x = e[n] /\ f[n] = x + Change(n)
  BY <1>7
<1>10. f[n] = x + di + dj
  <2>1. PICK c \in Int : c = Change(n) /\ c = di + dj
    BY <1>8
  <2>2. f[n] = x + c
    BY <1>9, <2>1
  <2>3. x + c = x + di + dj
    BY <2>1
  <2>. QED
    BY <2>2, <2>3
<1>. QED
  BY <1>1, <1>2, <1>9, <1>10

\* A sum of numbers is a number.
LEMMA TotalIsNumber ==
    ASSUME NEW n \in Nat, NEW g \in [1..n -> Int]
    PROVE  Total(g, n) \in Int
<1>1. PICK e : e = [k \in 0..n |-> IF k = 0 THEN 0 ELSE e[k - 1] + g[k]] /\ Total(g, n) = e[n]
  BY TotalIsSum
<1>2. e[0] = 0 /\ \A k \in 1..n : e[k] = e[k - 1] + g[k]
  BY <1>1
<1>. DEFINE B == {k \in 0..n : e[k] \notin Int}
<1>3. 0 \notin B
  BY <1>2
<1>4. ASSUME NEW k \in 1..n, k - 1 \notin B PROVE k \notin B
  <2>1. k - 1 \in 0..n /\ g[k] \in Int
    OBVIOUS
  <2>2. e[k] = e[k - 1] + g[k] /\ e[k - 1] \in Int
    BY <1>2, <1>4, <2>1
  <2>. QED
    BY <2>1, <2>2
<1>5. B = {}
  <2>. HIDE DEF B
  <2>1. B \subseteq 0..n
    BY DEF B
  <2>. QED
    BY <1>3, <1>4, <2>1, CountingUp
<1>6. n \in 0..n /\ n \notin B
  BY <1>5
<1>7. e[n] \in Int
  BY <1>6
<1>. QED
  BY <1>1, <1>7

-----------------------------------------------------------------------------
(* The team for a bid.                                                     *)
\* There are finitely many functions between finite sets.
LEMMA FinitelyManyFunctions ==
    ASSUME NEW S, IsFiniteSet(S), NEW T, IsFiniteSet(T)
    PROVE  IsFiniteSet([S -> T])
<1>1. IsFiniteSet(SUBSET (S \X T))
  BY FS_Product, FS_SUBSET
<1>. DEFINE graph == [f \in [S -> T] |-> {<<x, f[x]>> : x \in S}]
<1>2. graph \in [[S -> T] -> SUBSET (S \X T)]
  OBVIOUS
<1>3. ASSUME NEW f \in [S -> T], NEW g \in [S -> T], graph[f] = graph[g] PROVE f = g
  <2>1. ASSUME NEW x \in S PROVE f[x] = g[x]
    <3>1. <<x, f[x]>> \in graph[g]
      BY <1>3
    <3>2. PICK y \in S : <<x, f[x]>> = <<y, g[y]>>
      BY <3>1
    <3>. QED
      BY <3>2
  <2>. QED
    BY <2>1
<1>. HIDE DEF graph
<1>4. graph \in Injection([S -> T], SUBSET (S \X T))
  BY <1>2, <1>3 DEF Injection, IsInjective
<1>. QED
  BY <1>1, <1>4, FS_Injection

\* Requirements that are n in number, and what people may be asked for each.
Offers(options, n, pool) ==
    /\ n \in Nat /\ DOMAIN options = 1..n /\ \A i \in 1..n : options[i] \subseteq pool
    /\ IsFiniteSet(pool) /\ NoOne \notin pool /\ \A p \in pool : p.score \in Int

\* People for some of the requirements, no one twice.
AnyTeam(options, n, pool) ==
    {t \in [1..n -> pool \cup {NoOne}] :
        /\ \A i \in Filled(t) : t[i] \in options[i]
        /\ \A i, j \in Filled(t) : i # j => t[i] # t[j]}

\* What each position adds to a team's score.
ScoreAt(t) == [i \in DOMAIN t |-> IF t[i] = NoOne THEN 0 ELSE t[i].score]

\* What each adds to the sum of the filled positions.
SeatAt(t) == [i \in DOMAIN t |-> IF t[i] = NoOne THEN 0 ELSE i]

\* A team's numbers are numbers.
LEMMA TeamNumbers ==
    ASSUME NEW options, NEW n, NEW pool, Offers(options, n, pool), NEW t \in AnyTeam(options, n, pool)
    PROVE  /\ n \in Nat /\ DOMAIN t = 1..n /\ Filled(t) \subseteq 1..n /\ IsFiniteSet(Filled(t))
           /\ Cardinality(Filled(t)) \in Int
           /\ ScoreAt(t) \in [1..n -> Int] /\ SeatAt(t) \in [1..n -> Int]
           /\ Total(ScoreAt(t), n) \in Int /\ Total(SeatAt(t), n) \in Int
           /\ TeamScore(t) = Total(ScoreAt(t), n)
<1>1. n \in Nat /\ t \in [1..n -> pool \cup {NoOne}] /\ DOMAIN t = 1..n
  BY DEF Offers, AnyTeam
<1>2. Filled(t) \subseteq 1..n /\ IsFiniteSet(1..n)
  BY <1>1, FS_Interval DEF Filled
<1>3. IsFiniteSet(Filled(t)) /\ Cardinality(Filled(t)) \in Nat
  BY <1>2, FS_Subset, FS_CardinalityType
<1>4. ScoreAt(t) \in [1..n -> Int] /\ SeatAt(t) \in [1..n -> Int]
  BY <1>1 DEF ScoreAt, SeatAt, Offers
<1>5. Total(ScoreAt(t), n) \in Int /\ Total(SeatAt(t), n) \in Int
  BY <1>1, <1>4, TotalIsNumber
<1>6. Len(t) = n
  BY <1>1
<1>7. TeamScore(t) = Total(ScoreAt(t), n)
  BY <1>6 DEF TeamScore, ScoreAt
<1>. QED
  BY <1>1, <1>2, <1>3, <1>4, <1>5, <1>7

\* What is assigned is a team.
LEMMA AssignedIsTeam ==
    ASSUME NEW options, NEW n, NEW pool, Offers(options, n, pool), NEW t \in assignments(options)
    PROVE  t \in AnyTeam(options, n, pool)
<1>. DEFINE Free(i) == options[i] \ {t[j] : j \in 1..(i - 1)}
<1>1. n \in Nat /\ DOMAIN options = 1..n /\ \A i \in 1..n : options[i] \subseteq pool
  BY DEF Offers
<1>2. /\ t \in [1..n -> (UNION {options[i] : i \in 1..n}) \cup {NoOne}]
      /\ \A i \in 1..n : IF Free(i) = {} THEN t[i] = NoOne ELSE t[i] \in Free(i)
  BY <1>1 DEF assignments
<1>3. t \in [1..n -> pool \cup {NoOne}]
  BY <1>1, <1>2
<1>4. ASSUME NEW i \in Filled(t) PROVE t[i] \in options[i] /\ \A j \in 1..(i - 1) : t[j] # t[i]
  BY <1>2, <1>4 DEF Filled
<1>5. ASSUME NEW i \in Filled(t), NEW j \in Filled(t), i # j PROVE t[i] # t[j]
  <2>1. i \in 1..n /\ j \in 1..n
    BY <1>3 DEF Filled
  <2>2. i \in 1..(j - 1) \/ j \in 1..(i - 1)
    BY <1>5, <2>1
  <2>. QED
    BY <1>4, <2>2
<1>. QED
  BY <1>3, <1>4, <1>5 DEF AnyTeam

\* A team ahead in people, in score, or in how early its positions are.
TeamAhead(w, u, n) ==
    \/ Cardinality(Filled(u)) < Cardinality(Filled(w))
    \/ Cardinality(Filled(u)) = Cardinality(Filled(w)) /\ Total(ScoreAt(u), n) < Total(ScoreAt(w), n)
    \/ /\ Cardinality(Filled(u)) = Cardinality(Filled(w)) /\ Total(ScoreAt(u), n) = Total(ScoreAt(w), n)
       /\ Total(SeatAt(w), n) < Total(SeatAt(u), n)

\* Someone who sits nowhere may take an empty position.
LEMMA SeatSomeone ==
    ASSUME NEW options, NEW n, NEW pool, Offers(options, n, pool), NEW u \in AnyTeam(options, n, pool),
           NEW i \in 1..n, u[i] = NoOne, NEW p \in options[i], \A j \in 1..n : u[j] # p
    PROVE  \E w \in AnyTeam(options, n, pool) : TeamAhead(w, u, n)
<1>1. n \in Nat /\ p \in pool /\ p # NoOne /\ u \in [1..n -> pool \cup {NoOne}]
  BY DEF Offers, AnyTeam
<1>2. PICK w : w = [u EXCEPT ![i] = p]
  OBVIOUS
<1>3. w \in [1..n -> pool \cup {NoOne}] /\ w[i] = p /\ \A j \in 1..n : j # i => w[j] = u[j]
  BY <1>1, <1>2
<1>4. Filled(w) = Filled(u) \cup {i} /\ i \notin Filled(u)
  BY <1>1, <1>3 DEF Filled
<1>5. w \in AnyTeam(options, n, pool)
  <2>1. \A j \in Filled(w) : w[j] \in options[j]
    BY <1>1, <1>3, <1>4 DEF AnyTeam, Filled
  <2>2. \A j, k \in Filled(w) : j # k => w[j] # w[k]
    BY <1>1, <1>3, <1>4 DEF AnyTeam, Filled
  <2>. QED
    BY <1>3, <2>1, <2>2 DEF AnyTeam
<1>6. IsFiniteSet(Filled(u)) /\ Cardinality(Filled(u)) \in Int
  BY TeamNumbers
<1>7. Cardinality(Filled(w)) = Cardinality(Filled(u)) + 1
  BY <1>4, <1>6, FS_AddElement
<1>. QED
  BY <1>5, <1>6, <1>7 DEF TeamAhead

\* Someone may come up from a later position to an empty one.
LEMMA ComeUp ==
    ASSUME NEW options, NEW n, NEW pool, Offers(options, n, pool), NEW u \in AnyTeam(options, n, pool),
           NEW i \in 1..n, u[i] = NoOne, NEW j \in 1..n, i < j, u[j] \in options[i]
    PROVE  \E w \in AnyTeam(options, n, pool) : TeamAhead(w, u, n)
<1>1. n \in Nat /\ u[j] \in pool /\ u[j] # NoOne /\ u \in [1..n -> pool \cup {NoOne}] /\ i # j
  BY DEF Offers, AnyTeam
<1>2. PICK w : w = [[u EXCEPT ![i] = u[j]] EXCEPT ![j] = NoOne]
  OBVIOUS
<1>3. /\ w \in [1..n -> pool \cup {NoOne}] /\ w[i] = u[j] /\ w[j] = NoOne
      /\ \A k \in 1..n : k # i /\ k # j => w[k] = u[k]
  BY <1>1, <1>2
<1>4. Filled(w) = (Filled(u) \ {j}) \cup {i} /\ i \notin Filled(u) /\ j \in Filled(u)
  BY <1>1, <1>3 DEF Filled
<1>5. w \in AnyTeam(options, n, pool)
  <2>1. \A k \in Filled(w) : w[k] \in options[k]
    BY <1>1, <1>3, <1>4 DEF AnyTeam, Filled
  <2>2. \A k, l \in Filled(w) : k # l => w[k] # w[l]
    BY <1>1, <1>3, <1>4 DEF AnyTeam, Filled
  <2>. QED
    BY <1>3, <2>1, <2>2 DEF AnyTeam
<1>6. Cardinality(Filled(w)) = Cardinality(Filled(u))
  <2>1. IsFiniteSet(Filled(u)) /\ Cardinality(Filled(u)) \in Int
    BY TeamNumbers
  <2>2. IsFiniteSet(Filled(u) \ {j}) /\ Cardinality(Filled(u) \ {j}) = Cardinality(Filled(u)) - 1
    BY <1>4, <2>1, FS_RemoveElement
  <2>3. Cardinality((Filled(u) \ {j}) \cup {i}) = Cardinality(Filled(u) \ {j}) + 1
    BY <1>4, <2>2, FS_AddElement
  <2>. QED
    BY <1>4, <2>1, <2>2, <2>3
<1>7. Total(ScoreAt(w), n) = Total(ScoreAt(u), n)
  <2>. PICK g \in [1..n -> Int], h \in [1..n -> Int] : g = ScoreAt(u) /\ h = ScoreAt(w)
    BY <1>5, TeamNumbers
  <2>1. DOMAIN u = 1..n /\ DOMAIN w = 1..n
    BY <1>1, <1>3
  <2>2. \A k \in 1..n : k \notin {i, j} => h[k] = g[k]
    BY <1>3, <2>1 DEF ScoreAt
  <2>3. PICK score \in Int : score = u[j].score
    BY <1>1 DEF Offers
  <2>4. g[i] = 0 /\ g[j] = score /\ h[i] = score /\ h[j] = 0
    BY <1>1, <1>3, <2>1, <2>3 DEF ScoreAt
  <2>5. Total(g, n) \in Int /\ Total(h, n) = Total(g, n) + (h[i] - g[i]) + (h[j] - g[j])
    BY <1>1, <2>2, TotalChanges
  <2>. QED
    BY <2>4, <2>5
<1>8. Total(SeatAt(w), n) < Total(SeatAt(u), n)
  <2>. PICK g \in [1..n -> Int], h \in [1..n -> Int] : g = SeatAt(u) /\ h = SeatAt(w)
    BY <1>5, TeamNumbers
  <2>1. DOMAIN u = 1..n /\ DOMAIN w = 1..n
    BY <1>1, <1>3
  <2>2. \A k \in 1..n : k \notin {i, j} => h[k] = g[k]
    BY <1>3, <2>1 DEF SeatAt
  <2>4. g[i] = 0 /\ g[j] = j /\ h[i] = i /\ h[j] = 0
    BY <1>1, <1>3, <2>1 DEF SeatAt
  <2>5. Total(g, n) \in Int /\ Total(h, n) = Total(g, n) + (h[i] - g[i]) + (h[j] - g[j])
    BY <1>1, <2>2, TotalChanges
  <2>. QED
    BY <2>4, <2>5
<1>. QED
  BY <1>5, <1>6, <1>7, <1>8 DEF TeamAhead

\* A team nothing is ahead of is one that is tried.
LEMMA UnbeatenIsAssigned ==
    ASSUME NEW options, NEW n, NEW pool, Offers(options, n, pool), NEW u \in AnyTeam(options, n, pool),
           \A w \in AnyTeam(options, n, pool) : ~TeamAhead(w, u, n)
    PROVE  u \in assignments(options)
<1>. DEFINE Free(i) == options[i] \ {u[j] : j \in 1..(i - 1)}
<1>1. n \in Nat /\ DOMAIN options = 1..n /\ u \in [1..n -> pool \cup {NoOne}]
  BY DEF Offers, AnyTeam
<1>2. ASSUME NEW i \in 1..n, u[i] # NoOne PROVE u[i] \in Free(i)
  <2>1. i \in Filled(u)
    BY <1>1, <1>2 DEF Filled
  <2>2. \A j \in 1..(i - 1) : u[j] # u[i]
    <3>1. ASSUME NEW j \in 1..(i - 1), u[j] = u[i] PROVE FALSE
      <4>1. j \in 1..n /\ j # i
        BY <1>1
      <4>2. j \in Filled(u)
        BY <1>1, <1>2, <3>1, <4>1 DEF Filled
      <4>. QED
        BY <2>1, <3>1, <4>1, <4>2 DEF AnyTeam
    <3>. QED
      BY <3>1
  <2>3. u[i] \in options[i]
    BY <2>1 DEF AnyTeam
  <2>. QED
    BY <2>2, <2>3
<1>3. ASSUME NEW i \in 1..n, u[i] = NoOne PROVE Free(i) = {}
  <2>. SUFFICES ASSUME NEW p \in Free(i) PROVE FALSE
    OBVIOUS
  <2>1. CASE \A j \in 1..n : u[j] # p
    BY <1>3, <2>1, SeatSomeone
  <2>2. CASE \E j \in 1..n : u[j] = p
    <3>1. PICK j \in 1..n : u[j] = p
      BY <2>2
    <3>2. j \notin 1..(i - 1)
      BY <3>1
    <3>3. p # NoOne
      BY <1>1 DEF Offers
    <3>4. i < j
      BY <1>1, <1>3, <3>1, <3>2, <3>3
    <3>. QED
      BY <1>3, <3>1, <3>4, ComeUp
  <2>. QED
    BY <2>1, <2>2
<1>. DEFINE all == UNION {options[i] : i \in DOMAIN options}
<1>4. u \in [DOMAIN options -> all \cup {NoOne}]
  <2>1. DOMAIN options = 1..n
    BY <1>1 DEF Offers
  <2>2. \A i \in DOMAIN options : options[i] \subseteq all
    OBVIOUS
  <2>. HIDE DEF all
  <2>3. \A i \in 1..n : u[i] \in all \cup {NoOne}
    BY <1>2, <2>1, <2>2
  <2>. QED
    BY <1>1, <2>1, <2>3
<1>5. \A i \in DOMAIN options :
         IF options[i] \ {u[j] : j \in 1..(i - 1)} = {} THEN u[i] = NoOne
         ELSE u[i] \in options[i] \ {u[j] : j \in 1..(i - 1)}
  <2>1. DOMAIN options = 1..n
    BY <1>1 DEF Offers
  <2>. QED
    BY <1>2, <1>3, <2>1
<1>6. assignments(options) =
        {t \in [DOMAIN options -> all \cup {NoOne}] :
            \A i \in DOMAIN options :
              IF options[i] \ {t[j] : j \in 1..(i - 1)} = {} THEN t[i] = NoOne
              ELSE t[i] \in options[i] \ {t[j] : j \in 1..(i - 1)}}
  BY DEF assignments
<1>. HIDE DEF all
<1>. QED
  BY <1>4, <1>5, <1>6

\* What TeamIsBest says of one question.
TeamOk(q) ==
    LET options == Options(q.pool, q.requirements)
        any == {t \in [DOMAIN options -> q.pool \cup {NoOne}] :
                  /\ \A i \in Filled(t) : t[i] \in options[i]
                  /\ \A i, j \in Filled(t) : i # j => t[i] # t[j]}
        roles == {i \in DOMAIN q.requirements : q.requirements[i].role # NoCode}
        answer == match_personnel_team(q.pool, q.requirements)
    IN  /\ answer.team \in any /\ \A t \in any : ~BetterTeam(t, answer.team)
        /\ answer.matched <=> \E t \in any : Filled(t) = roles

\* The team that is picked is one that is tried, and none at all is better.
LEMMA PickedIsBest ==
    ASSUME NEW options, NEW n, NEW pool, Offers(options, n, pool)
    PROVE  /\ pick_best_team(options) \in AnyTeam(options, n, pool)
           /\ \A t \in AnyTeam(options, n, pool) : ~BetterTeam(t, pick_best_team(options))
<1>. DEFINE any == AnyTeam(options, n, pool)
            k == [t \in any |-> Cardinality(Filled(t))]
            l == [t \in any |-> Total(ScoreAt(t), n)]
            m == [t \in any |-> 0 - Total(SeatAt(t), n)]
<1>1. IsFiniteSet(any) /\ any # {}
  <2>1. IsFiniteSet([1..n -> pool \cup {NoOne}])
    <3>1. IsFiniteSet(1..n) /\ IsFiniteSet(pool \cup {NoOne})
      BY FS_Interval, FS_AddElement DEF Offers
    <3>. QED
      BY <3>1, FinitelyManyFunctions
  <2>2. any \subseteq [1..n -> pool \cup {NoOne}]
    BY DEF AnyTeam
  <2>3. [i \in 1..n |-> NoOne] \in any
    BY DEF AnyTeam, Filled
  <2>. QED
    BY <2>1, <2>2, <2>3, FS_Subset
<1>2. ASSUME NEW t \in any
      PROVE  /\ Cardinality(Filled(t)) \in Int /\ Total(ScoreAt(t), n) \in Int /\ Total(SeatAt(t), n) \in Int
             /\ TeamScore(t) = Total(ScoreAt(t), n)
  BY TeamNumbers
<1>. HIDE DEF any
<1>3. k \in [any -> Int] /\ l \in [any -> Int] /\ m \in [any -> Int]
  BY <1>2
<1>4. PICK u \in any : \A w \in any : ~Ahead(k, l, m, w, u)
  <2>. HIDE DEF k, l, m
  <2>. QED
    BY <1>1, <1>3, OneAhead
<1>5. ASSUME NEW w \in any PROVE ~TeamAhead(w, u, n)
  <2>1. /\ k[w] = Cardinality(Filled(w)) /\ l[w] = Total(ScoreAt(w), n) /\ m[w] = 0 - Total(SeatAt(w), n)
        /\ k[u] = Cardinality(Filled(u)) /\ l[u] = Total(ScoreAt(u), n) /\ m[u] = 0 - Total(SeatAt(u), n)
    OBVIOUS
  <2>2. PICK sw \in Int, su \in Int : sw = Total(SeatAt(w), n) /\ su = Total(SeatAt(u), n)
    BY <1>2
  <2>3. sw < su => m[u] < m[w]
    BY <2>1, <2>2
  <2>. HIDE DEF k, l, m
  <2>4. ~Ahead(k, l, m, w, u)
    BY <1>4
  <2>. QED
    BY <2>1, <2>2, <2>3, <2>4 DEF Ahead, TeamAhead
<1>6. u \in assignments(options)
  BY <1>5, UnbeatenIsAssigned DEF any
<1>7. \A v \in assignments(options) : v \in any
  BY AssignedIsTeam DEF any
<1>8. ASSUME NEW w \in any PROVE ~BetterTeam(w, u)
  BY <1>2, <1>5 DEF BetterTeam, TeamAhead
<1>9. PICK t : t = pick_best_team(options)
  OBVIOUS
<1>10. t \in assignments(options) /\ \A v \in assignments(options) : ~BetterTeam(v, t)
  BY <1>6, <1>7, <1>8, <1>9 DEF pick_best_team
<1>11. ASSUME NEW w \in any PROVE ~BetterTeam(w, t)
  <2>1. ~BetterTeam(w, u) /\ ~BetterTeam(u, t) /\ t \in any
    BY <1>6, <1>7, <1>8, <1>10
  <2>2. /\ Cardinality(Filled(w)) \in Int /\ TeamScore(w) \in Int /\ Cardinality(Filled(u)) \in Int /\ TeamScore(u) \in Int
        /\ Cardinality(Filled(t)) \in Int /\ TeamScore(t) \in Int
    BY <1>2, <2>1
  <2>. QED
    BY <2>1, <2>2 DEF BetterTeam
<1>. QED
  BY <1>7, <1>9, <1>10, <1>11 DEF any

\* It holds of every question.
LEMMA TeamIsOk == ASSUME NEW q \in Teams PROVE TeamOk(q)
<1>1. /\ IsFiniteSet(q.pool) /\ NoOne \notin q.pool /\ \A p \in q.pool : p.score \in Int
      /\ IsSequence(q.requirements)
  BY TeamsAssumption
<1>2. PICK n \in Nat : DOMAIN q.requirements = 1..n
  BY <1>1 DEF IsSequence
<1>3. PICK pool : pool = q.pool
  OBVIOUS
<1>4. PICK options : options = Options(q.pool, q.requirements)
  OBVIOUS
<1>5. Offers(options, n, pool)
  <2>1. DOMAIN options = 1..n
    BY <1>2, <1>4 DEF Options
  <2>2. \A i \in 1..n : options[i] \subseteq pool
    BY <1>2, <1>3, <1>4 DEF Options, list_personnel_candidates, list_bid_asset_pool_entries
  <2>. QED
    BY <1>1, <1>3, <2>1, <2>2 DEF Offers
<1>6. PICK team : team = pick_best_team(options)
  OBVIOUS
<1>7. team \in AnyTeam(options, n, pool) /\ \A t \in AnyTeam(options, n, pool) : ~BetterTeam(t, team)
  BY <1>5, <1>6, PickedIsBest
<1>8. AnyTeam(options, n, pool) = {t \in [DOMAIN options -> q.pool \cup {NoOne}] :
                                     /\ \A i \in Filled(t) : t[i] \in options[i]
                                     /\ \A i, j \in Filled(t) : i # j => t[i] # t[j]}
  BY <1>3, <1>5 DEF AnyTeam, Offers
<1>9. PICK roles : roles = {i \in DOMAIN q.requirements : q.requirements[i].role # NoCode}
  OBVIOUS
<1>10. \A t \in AnyTeam(options, n, pool) : Filled(t) \subseteq roles
  <2>1. \A i \in 1..n : options[i] # {} => i \in roles
    BY <1>2, <1>4, <1>9 DEF Options
  <2>2. \A t \in AnyTeam(options, n, pool) : Filled(t) \subseteq 1..n /\ \A i \in Filled(t) : t[i] \in options[i]
    BY DEF AnyTeam, Filled
  <2>. QED
    BY <2>1, <2>2
<1>11. ASSUME NEW t \in AnyTeam(options, n, pool), Filled(t) = roles PROVE Filled(team) = roles
  <2>1. IsFiniteSet(roles) /\ Cardinality(roles) \in Int /\ Cardinality(Filled(team)) \in Int
    BY <1>5, <1>7, <1>11, TeamNumbers
  <2>2. Filled(team) \subseteq roles /\ Cardinality(Filled(team)) <= Cardinality(roles)
    BY <1>7, <1>10, <2>1, FS_Subset
  <2>3. ~(Cardinality(roles) > Cardinality(Filled(team)))
    BY <1>7, <1>11 DEF BetterTeam
  <2>4. Cardinality(roles) = Cardinality(Filled(team))
    BY <2>1, <2>2, <2>3
  <2>. QED
    BY <2>1, <2>2, <2>4, FS_Subset
<1>13. PICK answer : answer = match_personnel_team(q.pool, q.requirements)
  OBVIOUS
<1>14. answer.team = team /\ (answer.matched <=> Filled(team) = roles)
  BY <1>4, <1>6, <1>9, <1>13 DEF match_personnel_team
<1>15. PICK any : any = AnyTeam(options, n, pool)
  OBVIOUS
<1>16. /\ answer.team \in any /\ \A t \in any : ~BetterTeam(t, answer.team)
       /\ answer.matched <=> \E t \in any : Filled(t) = roles
  BY <1>7, <1>11, <1>14, <1>15
<1>. QED
  BY <1>4, <1>8, <1>9, <1>13, <1>15, <1>16 DEF TeamOk

\* Whoever is in the pool and whatever roles are asked for, no team is better than
\* the one that is picked, and a bid is matched when some team fills all its roles
\* (personnel_matcher._pick_best_team, match_personnel_team).
THEOREM PickedTeamIsBest == Questions => []TeamIsBest
<1>1. AskedInv => TeamIsBest
  <2>1. ASSUME NEW q \in Teams PROVE TeamOk(q)
    BY TeamIsOk
  <2>. QED
    BY <2>1 DEF AskedInv, TeamIsBest, Answers, TeamOk
<1>. QED
  BY <1>1, AskedHolds, PTL

-----------------------------------------------------------------------------
(* What is done step by step, and sequences without repetitions.           *)
\* The states a step leads through, from the first one on.
Follows(f, n, base, step) == f[0] = base /\ \A k \in 1..n : f[k] = step[<<k, f[k - 1]>>]

\* What is done step by step can be done up to any number.
LEMMA RunExists ==
    ASSUME NEW n \in Nat, NEW S, NEW base \in S, NEW step \in [(1..n) \X S -> S]
    PROVE  \E f \in [0..n -> S] : Follows(f, n, base, step)
<1>. DEFINE Runs(f, m) == f \in [0..m -> S] /\ f[0] = base /\ \A k \in 1..m : f[k] = step[<<k, f[k - 1]>>]
            B == {m \in 0..n : ~(\E f : Runs(f, m))}
<1>1. 0 \notin B
  <2>1. Runs([k \in 0..0 |-> base], 0)
    OBVIOUS
  <2>. QED
    BY <2>1
<1>2. ASSUME NEW m \in 1..n, m - 1 \notin B PROVE m \notin B
  <2>1. m - 1 \in 0..n
    OBVIOUS
  <2>2. PICK f : Runs(f, m - 1)
    BY <1>2, <2>1
  <2>3. PICK next \in S : next = step[<<m, f[m - 1]>>]
    BY <2>1, <2>2
  <2>. DEFINE h == [k \in 0..m |-> IF k = m THEN next ELSE f[k]]
  <2>4. ASSUME NEW k \in 1..m PROVE h[k] = step[<<k, h[k - 1]>>]
    <3>1. CASE k = m
      <4>1. h[k] = next /\ h[k - 1] = f[m - 1]
        BY <3>1
      <4>. QED
        BY <2>3, <3>1, <4>1
    <3>2. CASE k # m
      <4>1. k \in 1..(m - 1)
        BY <3>2
      <4>2. f[k] = step[<<k, f[k - 1]>>]
        BY <2>2, <4>1
      <4>3. h[k] = f[k] /\ h[k - 1] = f[k - 1]
        BY <3>2
      <4>. QED
        BY <4>2, <4>3
    <3>. QED
      BY <3>1, <3>2
  <2>5. h \in [0..m -> S]
    <3>1. \A k \in 0..m : k # m => k \in 0..(m - 1)
      OBVIOUS
    <3>. QED
      BY <2>2, <2>3, <3>1
  <2>6. h[0] = base
    BY <2>2
  <2>. HIDE DEF h
  <2>7. Runs(h, m)
    BY <2>4, <2>5, <2>6
  <2>. QED
    BY <2>7
<1>3. B = {}
  <2>. HIDE DEF B
  <2>1. B \subseteq 0..n
    BY DEF B
  <2>. QED
    BY <1>1, <1>2, <2>1, CountingUp
<1>4. n \notin B
  BY <1>3
<1>5. PICK f : Runs(f, n)
  BY <1>4
<1>6. f \in [0..n -> S] /\ Follows(f, n, base, step)
  BY <1>5 DEF Follows
<1>. QED
  BY <1>6, Zenon

\* A sequence without repetitions has as many elements as it is long.
LEMMA DistinctAreMany ==
    ASSUME NEW S, NEW s \in Seq(S), \A i, j \in 1..Len(s) : s[i] = s[j] => i = j
    PROVE  IsFiniteSet(ToSet(s)) /\ Cardinality(ToSet(s)) = Len(s)
<1>. PICK n \in Nat : n = Len(s)
  OBVIOUS
<1>1. DOMAIN s = 1..n /\ ToSet(s) = {s[i] : i \in 1..n}
  BY DEF ToSet
<1>. DEFINE at == [i \in 1..n |-> s[i]]
<1>2. at \in Bijection(1..n, ToSet(s))
  <2>1. at \in [1..n -> ToSet(s)]
    BY <1>1
  <2>2. \A i, j \in 1..n : at[i] = at[j] => i = j
    OBVIOUS
  <2>3. \A x \in ToSet(s) : \E i \in 1..n : at[i] = x
    BY <1>1
  <2>. HIDE DEF at
  <2>. QED
    BY <2>1, <2>2, <2>3 DEF Bijection, Injection, IsInjective, Surjection
<1>. HIDE DEF at
<1>3. IsFiniteSet(1..n) /\ Cardinality(1..n) = n
  <2>1. IsFiniteSet(1..n) /\ Cardinality(1..n) = IF 1 > n THEN 0 ELSE n - 1 + 1
    BY FS_Interval, 1 \in Int, n \in Int, Zenon
  <2>. QED
    BY <2>1
<1>4. ExistsBijection(1..n, ToSet(s))
  BY <1>2 DEF ExistsBijection
<1>. QED
  BY <1>3, <1>4, FS_Bijection

\* A sequence that names nothing twice.
Distinct(s) == \A i, j \in 1..Len(s) : s[i] = s[j] => i = j

\* It stays one when what it does not name is appended.
LEMMA AppendNew ==
    ASSUME NEW S, NEW s \in Seq(S), Distinct(s), NEW x \in S, x \notin ToSet(s)
    PROVE  /\ Append(s, x) \in Seq(S) /\ Distinct(Append(s, x)) /\ Len(Append(s, x)) = Len(s) + 1
           /\ \A i \in 1..Len(s) : Append(s, x)[i] = s[i]
           /\ Append(s, x)[Len(s) + 1] = x
<1>. PICK n \in Nat : n = Len(s)
  OBVIOUS
<1>1. \A i \in 1..n : s[i] # x
  BY DEF ToSet
<1>2. PICK t : t = Append(s, x)
  OBVIOUS
<1>3. t \in Seq(S) /\ Len(t) = n + 1 /\ (\A i \in 1..n : t[i] = s[i]) /\ t[n + 1] = x
  BY <1>2
<1>4. Distinct(t)
  <2>1. ASSUME NEW i \in 1..(n + 1), NEW j \in 1..(n + 1), t[i] = t[j] PROVE i = j
    <3>1. CASE i \in 1..n /\ j \in 1..n
      BY <1>3, <2>1, <3>1 DEF Distinct
    <3>2. CASE i = n + 1
      BY <1>1, <1>3, <2>1, <3>2
    <3>3. CASE j = n + 1
      BY <1>1, <1>3, <2>1, <3>3
    <3>. QED
      BY <3>1, <3>2, <3>3
  <2>. QED
    BY <1>3, <2>1 DEF Distinct
<1>. QED
  BY <1>2, <1>3, <1>4

\* The ids of an answer that are candidates' ids, each once.
LEMMA RankedIsDistinct ==
    ASSUME NEW answer, IsSequence(answer), NEW candidates
    PROVE  ranked(answer, candidates) \in Seq(candidates) /\ Distinct(ranked(answer, candidates))
<1>. PICK n \in Nat : n = Len(answer)
  BY DEF IsSequence
<1>0. PICK none \in Seq(candidates) : none = <<>>
  <2>1. <<>> \in Seq(candidates)
    OBVIOUS
  <2>. QED
    BY <2>1, Zenon
<1>. DEFINE Next1(done, a) == IF a \in candidates \ ToSet(done) THEN Append(done, a) ELSE done
            Runs(f) == f = [k \in 0..n |-> IF k = 0 THEN <<>>
                                           ELSE IF answer[k] \in candidates \ ToSet(f[k - 1])
                                                THEN Append(f[k - 1], answer[k]) ELSE f[k - 1]]
            step == [x \in (1..n) \X Seq(candidates) |-> Next1(x[2], answer[x[1]])]
<1>1. \E f : Runs(f)
  <2>1. step \in [(1..n) \X Seq(candidates) -> Seq(candidates)]
    <3>1. ASSUME NEW x \in (1..n) \X Seq(candidates) PROVE Next1(x[2], answer[x[1]]) \in Seq(candidates)
      <4>1. x[2] \in Seq(candidates)
        OBVIOUS
      <4>. QED
        BY <4>1
    <3>. HIDE DEF Next1
    <3>. QED
      BY <3>1
  <2>2. \A k \in 1..n, d \in Seq(candidates) : step[<<k, d>>] = Next1(d, answer[k])
    OBVIOUS
  <2>. HIDE DEF step
  <2>3. PICK S : S = Seq(candidates)
    OBVIOUS
  <2>8. PICK f \in [0..n -> S] : Follows(f, n, none, step)
    <3>1. none \in S /\ step \in [(1..n) \X S -> S]
      BY <1>0, <2>1, <2>3
    <3>. QED
      BY <3>1, n \in Nat, RunExists, Zenon
  <2>4. f[0] = none /\ \A k \in 1..n : f[k] = step[<<k, f[k - 1]>>]
    BY <2>8 DEF Follows
  <2>5. ASSUME NEW k \in 1..n PROVE f[k] = Next1(f[k - 1], answer[k])
    <3>1. f[k - 1] \in Seq(candidates)
      BY <2>3
    <3>. QED
      BY <2>2, <2>4, <3>1
  <2>6. \A k \in 0..n : f[k] = IF k = 0 THEN <<>> ELSE Next1(f[k - 1], answer[k])
    <3>1. \A k \in 0..n : k # 0 => k \in 1..n
      OBVIOUS
    <3>. HIDE DEF Next1
    <3>. QED
      BY <1>0, <2>4, <2>5, <3>1
  <2>7. f = [k \in 0..n |-> IF k = 0 THEN <<>> ELSE Next1(f[k - 1], answer[k])]
    <3>1. f = [k \in 0..n |-> f[k]]
      OBVIOUS
    <3>. HIDE DEF Next1
    <3>. QED
      BY <2>6, <3>1
  <2>. QED
    BY <2>7
<1>2. ranked(answer, candidates) = (CHOOSE f : Runs(f))[n]
  BY DEF ranked
<1>3. PICK f : Runs(f) /\ ranked(answer, candidates) = f[n]
  BY <1>1, <1>2
<1>4. f[0] = <<>> /\ \A k \in 1..n : f[k] = Next1(f[k - 1], answer[k])
  <2>1. f[0] = <<>>
    BY <1>3
  <2>2. ASSUME NEW k \in 1..n PROVE f[k] = Next1(f[k - 1], answer[k])
    <3>1. f = [i \in 0..n |-> IF i = 0 THEN <<>> ELSE Next1(f[i - 1], answer[i])]
      BY <1>3
    <3>2. k \in 0..n /\ k # 0
      OBVIOUS
    <3>. HIDE DEF Next1
    <3>. QED
      BY <3>1, <3>2
  <2>. QED
    BY <2>1, <2>2
<1>. HIDE DEF Runs
<1>. DEFINE Good(s) == s \in Seq(candidates) /\ Distinct(s)
            B == {k \in 0..n : ~Good(f[k])}
<1>5. 0 \notin B
  <2>1. <<>> \in Seq(candidates) /\ Distinct(<<>>)
    BY DEF Distinct
  <2>. QED
    BY <1>4, <2>1
<1>6. ASSUME NEW k \in 1..n, k - 1 \notin B PROVE k \notin B
  <2>1. Good(f[k - 1])
    BY <1>6
  <2>2. PICK d : d = f[k - 1]
    OBVIOUS
  <2>3. CASE answer[k] \in candidates \ ToSet(d)
    <3>1. f[k] = Append(d, answer[k])
      BY <1>4, <2>2, <2>3
    <3>2. Good(Append(d, answer[k]))
      BY <2>1, <2>2, <2>3, AppendNew
    <3>. HIDE DEF Good
    <3>. QED
      BY <3>1, <3>2
  <2>4. CASE answer[k] \notin candidates \ ToSet(d)
    BY <1>4, <2>1, <2>2, <2>4
  <2>. QED
    BY <2>3, <2>4
<1>7. B = {}
  <2>. HIDE DEF B
  <2>1. B \subseteq 0..n
    BY DEF B
  <2>. QED
    BY <1>5, <1>6, <2>1, CountingUp
<1>8. Good(f[n])
  BY <1>7
<1>. QED
  BY <1>3, <1>8

-----------------------------------------------------------------------------
(* The context handed to a model.                                          *)
\* What has been taken of the first k texts of an order.
Taken(c, texts, order, t, k) ==
    /\ t \in [of : Seq(DOMAIN texts), signs : Nat]
    /\ Distinct(t.of) /\ Len(t.of) <= c.max_items
    /\ \A i \in 1..Len(t.of) : texts[t.of[i]] # 0 /\ \E j \in 1..k : t.of[i] = order[j]
    /\ t.signs <= c.max_chars \/ Len(t.of) = 1
    /\ t.of = <<>> => t.signs = 0 /\ \A j \in 1..k : texts[order[j]] = 0

\* What limits the context, and what it is taken from.
Limits(c, texts) ==
    c.max_items \in Nat \ {0} /\ c.max_chars \in Nat \ {0} /\ c.snippet_chars \in Nat \ {0} /\ texts \in Seq(Nat)

\* One more text, and all of that still holds.
LEMMA TakeOneMore ==
    ASSUME NEW c, NEW texts, Limits(c, texts), NEW order \in Seq(DOMAIN texts), Distinct(order),
           NEW k \in 1..Len(order), NEW t, Taken(c, texts, order, t, k - 1)
    PROVE  Taken(c, texts, order, Take(c, t, order[k], texts[order[k]]), k)
<1>1. PICK i \in DOMAIN texts, text \in Nat : i = order[k] /\ text = texts[i]
  BY DEF Limits
<1>2. PICK snippet \in Nat : snippet = Min({text, c.snippet_chars}) /\ (snippet = 0 <=> text = 0)
  <2>. PICK cap \in Nat \ {0} : cap = c.snippet_chars
    BY DEF Limits
  <2>1. Min({text, cap}) = IF text <= cap THEN text ELSE cap
    BY MinOfTwo
  <2>. QED
    BY <2>1
<1>. PICK u : u = Take(c, t, i, text)
  OBVIOUS
<1>3. PICK of \in Seq(DOMAIN texts), signs \in Nat : of = t.of /\ signs = t.signs
  BY DEF Taken
<1>4. u = IF Fits(c, t, snippet) THEN [of |-> Append(of, i), signs |-> signs + snippet] ELSE t
  BY <1>2, <1>3 DEF Take
<1>5. PICK len \in Nat : len = Len(of)
  OBVIOUS
<1>6. PICK most \in Nat \ {0}, room \in Nat \ {0} : most = c.max_items /\ room = c.max_chars
  BY DEF Limits
<1>7. /\ Distinct(of) /\ len <= most
      /\ \A j \in 1..len : texts[of[j]] # 0 /\ \E l \in 1..(k - 1) : of[j] = order[l]
      /\ signs <= room \/ len = 1
      /\ of = <<>> => signs = 0 /\ \A j \in 1..(k - 1) : texts[order[j]] = 0
  BY <1>3, <1>5, <1>6 DEF Taken
<1>8. Fits(c, t, snippet) <=> len < most /\ signs < room /\ snippet # 0 /\ (of = <<>> \/ signs + snippet <= room)
  BY <1>3, <1>5, <1>6 DEF Fits
<1>9. CASE Fits(c, t, snippet)
  <2>1. i \notin ToSet(of)
    <3>1. ASSUME NEW j \in 1..len, of[j] = i PROVE FALSE
      <4>1. PICK l \in 1..(k - 1) : of[j] = order[l]
        BY <1>7
      <4>2. order[l] = order[k] /\ l \in 1..Len(order) /\ l # k
        BY <1>1, <3>1, <4>1
      <4>. QED
        BY <4>2 DEF Distinct
    <3>. QED
      BY <1>5, <3>1 DEF ToSet
  <2>2. PICK new : new = Append(of, i)
    OBVIOUS
  <2>3. /\ new \in Seq(DOMAIN texts) /\ Distinct(new) /\ Len(new) = len + 1
        /\ (\A j \in 1..len : new[j] = of[j]) /\ new[len + 1] = i
    BY <1>5, <1>7, <2>1, <2>2, AppendNew
  <2>4. u = [of |-> new, signs |-> signs + snippet]
    BY <1>4, <1>9, <2>2
  <2>5. u \in [of : Seq(DOMAIN texts), signs : Nat] /\ u.of = new /\ u.signs = signs + snippet
    BY <2>3, <2>4
  <2>6. ASSUME NEW j \in 1..(len + 1) PROVE texts[new[j]] # 0 /\ \E l \in 1..k : new[j] = order[l]
    <3>1. CASE j = len + 1
      BY <1>1, <1>2, <1>8, <1>9, <2>3, <3>1
    <3>2. CASE j \in 1..len
      <4>1. \A l \in 1..(k - 1) : l \in 1..k
        OBVIOUS
      <4>. QED
        BY <1>7, <2>3, <3>2, <4>1
    <3>. QED
      BY <3>1, <3>2
  <2>7. signs + snippet <= room \/ len + 1 = 1
    <3>1. of = <<>> => len = 0
      BY <1>5
    <3>. QED
      BY <1>8, <1>9, <3>1
  <2>8. new # <<>>
    BY <2>3
  <2>9. len + 1 <= most
    BY <1>8, <1>9
  <2>10. Distinct(u.of) /\ Len(u.of) <= c.max_items /\ u.of # <<>>
    BY <1>6, <2>3, <2>5, <2>8, <2>9
  <2>11. ASSUME NEW j \in 1..Len(u.of) PROVE texts[u.of[j]] # 0 /\ \E l \in 1..k : u.of[j] = order[l]
    <3>1. u.of = new /\ j \in 1..(len + 1)
      BY <2>3, <2>5
    <3>2. texts[new[j]] # 0 /\ \E l \in 1..k : new[j] = order[l]
      BY <2>6, <3>1
    <3>. QED
      BY <3>1, <3>2
  <2>12. u.signs <= c.max_chars \/ Len(u.of) = 1
    BY <1>6, <2>3, <2>5, <2>7
  <2>13. Taken(c, texts, order, u, k)
    BY <2>5, <2>10, <2>11, <2>12 DEF Taken
  <2>. QED
    BY <1>1, <2>13
<1>10. CASE ~Fits(c, t, snippet)
  <2>1. u = t
    BY <1>4, <1>10
  <2>2. ASSUME of = <<>>, NEW j \in 1..k PROVE texts[order[j]] = 0
    <3>1. CASE j = k
      <4>1. len = 0 /\ signs = 0
        BY <1>5, <1>7, <2>2
      <4>2. snippet = 0
        BY <1>8, <1>10, <2>2, <4>1
      <4>. QED
        BY <1>1, <1>2, <3>1, <4>2
    <3>2. CASE j \in 1..(k - 1)
      BY <1>7, <2>2, <3>2
    <3>. QED
      BY <3>1, <3>2
  <2>3. \A l \in 1..(k - 1) : l \in 1..k
    OBVIOUS
  <2>4. Taken(c, texts, order, t, k)
    BY <1>3, <2>2, <2>3 DEF Taken
  <2>. QED
    BY <1>1, <1>3, <2>1, <2>4
<1>. QED
  BY <1>9, <1>10

\* What is selected in an order is taken of all of it.
LEMMA SelectedIsTaken ==
    ASSUME NEW c, NEW texts, Limits(c, texts), NEW order \in Seq(DOMAIN texts), Distinct(order)
    PROVE  Taken(c, texts, order, select(c, texts, order), Len(order))
<1>. PICK n \in Nat : n = Len(order)
  OBVIOUS
<1>0. PICK none : none = [of |-> <<>>, signs |-> 0]
  OBVIOUS
<1>. DEFINE S == [of : Seq(DOMAIN texts), signs : Nat]
            Runs(f) == f = [k \in 0..n |-> IF k = 0 THEN [of |-> <<>>, signs |-> 0]
                                           ELSE Take(c, f[k - 1], order[k], texts[order[k]])]
            step == [x \in (1..n) \X S |-> Take(c, x[2], order[x[1]], texts[order[x[1]]])]
<1>1. none \in S /\ Taken(c, texts, order, none, 0)
  BY <1>0 DEF Taken, Distinct, Limits
<1>2. ASSUME NEW t \in S, NEW k \in 1..n PROVE Take(c, t, order[k], texts[order[k]]) \in S
  <2>1. PICK i \in DOMAIN texts, text \in Nat : i = order[k] /\ text = texts[i]
    BY DEF Limits
  <2>2. PICK snippet \in Nat : snippet = Min({text, c.snippet_chars})
    <3>. PICK cap \in Nat \ {0} : cap = c.snippet_chars
      BY DEF Limits
    <3>1. Min({text, cap}) = IF text <= cap THEN text ELSE cap
      BY MinOfTwo
    <3>. QED
      BY <3>1
  <2>3. Append(t.of, i) \in Seq(DOMAIN texts) /\ t.signs + snippet \in Nat
    BY <1>2
  <2>4. Take(c, t, i, text) = IF Fits(c, t, snippet) THEN [of |-> Append(t.of, i), signs |-> t.signs + snippet] ELSE t
    BY <2>2 DEF Take
  <2>. QED
    BY <1>2, <2>1, <2>3, <2>4
<1>3. \E f : Runs(f)
  <2>1. step \in [(1..n) \X S -> S]
    <3>1. ASSUME NEW x \in (1..n) \X S PROVE Take(c, x[2], order[x[1]], texts[order[x[1]]]) \in S
      <4>1. x[1] \in 1..n /\ x[2] \in S
        BY <3>1
      <4>. HIDE DEF S
      <4>. QED
        BY <1>2, <4>1
    <3>. HIDE DEF S
    <3>. QED
      BY <3>1
  <2>. HIDE DEF S
  <2>2. \A k \in 1..n, t \in S : step[<<k, t>>] = Take(c, t, order[k], texts[order[k]])
    OBVIOUS
  <2>. HIDE DEF step
  <2>3. PICK f \in [0..n -> S] : Follows(f, n, none, step)
    BY <1>1, <2>1, n \in Nat, RunExists, Zenon
  <2>4. \A k \in 0..n : f[k] = IF k = 0 THEN none ELSE Take(c, f[k - 1], order[k], texts[order[k]])
    <3>1. f[0] = none
      BY <2>3 DEF Follows
    <3>2. ASSUME NEW k \in 0..n, k # 0 PROVE f[k] = Take(c, f[k - 1], order[k], texts[order[k]])
      <4>1. k \in 1..n /\ f[k - 1] \in S
        BY <3>2
      <4>2. f[k] = step[<<k, f[k - 1]>>]
        BY <2>3, <4>1 DEF Follows
      <4>. QED
        BY <2>2, <4>1, <4>2
    <3>. QED
      BY <3>1, <3>2
  <2>5. f = [k \in 0..n |-> f[k]]
    OBVIOUS
  <2>6. f = [k \in 0..n |-> IF k = 0 THEN none ELSE Take(c, f[k - 1], order[k], texts[order[k]])]
    BY <2>4, <2>5
  <2>. QED
    BY <1>0, <2>6
<1>4. select(c, texts, order) = (CHOOSE f : Runs(f))[n]
  BY DEF select
<1>5. PICK f : Runs(f) /\ select(c, texts, order) = f[n]
  BY <1>3, <1>4
<1>6. f[0] = none
  BY <1>0, <1>5
<1>7. ASSUME NEW k \in 1..n PROVE f[k] = Take(c, f[k - 1], order[k], texts[order[k]])
  <2>1. f = [j \in 0..n |-> IF j = 0 THEN none ELSE Take(c, f[j - 1], order[j], texts[order[j]])]
    BY <1>0, <1>5
  <2>2. k \in 0..n /\ k # 0
    OBVIOUS
  <2>. QED
    BY <2>1, <2>2
<1>. HIDE DEF Runs
<1>. DEFINE B == {k \in 0..n : ~Taken(c, texts, order, f[k], k)}
<1>8. 0 \notin B
  BY <1>1, <1>6
<1>9. ASSUME NEW k \in 1..n, k - 1 \notin B PROVE k \notin B
  <2>1. Taken(c, texts, order, f[k - 1], k - 1)
    BY <1>9
  <2>. QED
    BY <1>7, <2>1, TakeOneMore
<1>10. B = {}
  <2>. HIDE DEF B
  <2>1. B \subseteq 0..n
    BY DEF B
  <2>. QED
    BY <1>8, <1>9, <2>1, CountingUp
<1>. QED
  BY <1>5, <1>10

\* What ContextFitsBudget says of one question.
ContextOk(q) ==
    LET t == compress_evidence_context(q.c, q.texts, q.answer, q.order)
    IN  /\ Cardinality(ToSet(t.of)) = Len(t.of) /\ Len(t.of) <= q.c.max_items
        /\ t.signs <= q.c.max_chars \/ Len(t.of) = 1
        /\ t.of = <<>> <=> \A i \in DOMAIN q.texts : q.texts[i] = 0

\* It holds of every question.
LEMMA ContextIsOk == ASSUME NEW q \in Compressions PROVE ContextOk(q)
<1>1. PICK c, texts, local : c = q.c /\ texts = q.texts /\ local = q.order
  OBVIOUS
<1>2. PICK ids : ids = IF q.answer = Unavailable THEN <<>> ELSE ranked(q.answer, DOMAIN q.texts)
  OBVIOUS
<1>3. Limits(c, texts)
  BY <1>1, CompressionsAssumption DEF Limits
<1>4. local \in Seq(DOMAIN texts) /\ Distinct(local) /\ \A i \in DOMAIN texts : \E k \in 1..Len(local) : local[k] = i
  BY <1>1, CompressionsAssumption DEF Distinct
<1>5. ids \in Seq(DOMAIN texts) /\ Distinct(ids)
  <2>1. CASE q.answer = Unavailable
    BY <1>2, <2>1 DEF Distinct
  <2>2. CASE q.answer # Unavailable
    <3>1. IsSequence(q.answer)
      BY <2>2, CompressionsAssumption
    <3>. QED
      BY <1>1, <1>2, <2>2, <3>1, RankedIsDistinct
  <2>. QED
    BY <2>1, <2>2
<1>6. PICK chosen : chosen = select(c, texts, ids) /\ Taken(c, texts, ids, chosen, Len(ids))
  BY <1>3, <1>5, SelectedIsTaken
<1>7. PICK ranking : ranking = select(c, texts, local) /\ Taken(c, texts, local, ranking, Len(local))
  BY <1>3, <1>4, SelectedIsTaken
<1>8. PICK t : t = compress_evidence_context(q.c, q.texts, q.answer, q.order)
  OBVIOUS
<1>9. t = IF c.use_llm /\ chosen.of # <<>> THEN chosen ELSE ranking
  BY <1>1, <1>2, <1>6, <1>7, <1>8 DEF compress_evidence_context
<1>10. PICK order \in Seq(DOMAIN texts) : Taken(c, texts, order, t, Len(order))
  BY <1>4, <1>5, <1>6, <1>7, <1>9
<1>11. t.of \in Seq(DOMAIN texts) /\ Distinct(t.of) /\ Len(t.of) <= c.max_items /\ (t.signs <= c.max_chars \/ Len(t.of) = 1)
  BY <1>10 DEF Taken
<1>12. Cardinality(ToSet(t.of)) = Len(t.of)
  BY <1>11, DistinctAreMany DEF Distinct
<1>13. ASSUME t.of = <<>> PROVE \A i \in DOMAIN texts : texts[i] = 0
  <2>1. t = ranking
    BY <1>9, <1>13
  <2>. QED
    BY <1>4, <1>7, <1>13, <2>1 DEF Taken
<1>14. ASSUME t.of # <<>> PROVE \E i \in DOMAIN texts : texts[i] # 0
  <2>1. 1 \in 1..Len(t.of)
    BY <1>11, <1>14
  <2>. QED
    BY <1>10, <1>11, <2>1 DEF Taken
<1>. QED
  BY <1>1, <1>8, <1>11, <1>12, <1>13, <1>14 DEF ContextOk

\* However long the texts and whoever chose them, the context takes each once, keeps
\* to its limits, except that its first text alone may be longer, and is empty only
\* when there is nothing to take
\* (context_compressor.compress_evidence_context).
THEOREM ContextStaysInBudget == Questions => []ContextFitsBudget
<1>1. AskedInv => ContextFitsBudget
  <2>1. ASSUME NEW q \in Compressions PROVE ContextOk(q)
    BY ContextIsOk
  <2>. QED
    BY <2>1 DEF AskedInv, ContextFitsBudget, Answers, ContextOk
<1>. QED
  BY <1>1, AskedHolds, PTL

-----------------------------------------------------------------------------
(* Lists in an order, and the hits that are kept of a list.                 *)
\* An order in which everything of S has its place.
LinesUp(before, S) ==
    /\ \A x \in S : <<x, x>> \notin before
    /\ \A x, y, z \in S : <<x, y>> \in before /\ <<y, z>> \in before => <<x, z>> \in before
    /\ \A x, y \in S : x # y => <<x, y>> \in before \/ <<y, x>> \in before

\* A finite set in such an order has each of its members once.
LEMMA InOrderIsAll ==
    ASSUME NEW S, IsFiniteSet(S), NEW before, LinesUp(before, S)
    PROVE  InOrder(S, before) \in Bijection(1..Cardinality(S), S)
<1>. DEFINE Before(x) == {y \in S : <<y, x>> \in before}
            rank == [x \in S |-> Cardinality(Before(x))]
<1>. PICK m \in Nat : m = Cardinality(S)
  BY FS_CardinalityType
<1>1. \A x \in S : IsFiniteSet(Before(x)) /\ Cardinality(Before(x)) \in Nat
  <2>1. ASSUME NEW x \in S PROVE IsFiniteSet(Before(x))
    BY FS_Subset
  <2>. QED
    BY <2>1, FS_CardinalityType
<1>2. \A x \in S : x \notin Before(x)
  BY DEF LinesUp
<1>3. \A x \in S : rank[x] \in 0..(m - 1)
  <2>1. ASSUME NEW x \in S PROVE rank[x] \in 0..(m - 1)
    <3>1. Before(x) \cup {x} \subseteq S
      OBVIOUS
    <3>2. Cardinality(Before(x) \cup {x}) = Cardinality(Before(x)) + 1
      BY <1>1, <1>2, FS_AddElement
    <3>3. Cardinality(Before(x) \cup {x}) <= m
      BY <3>1, FS_Subset
    <3>. QED
      BY <1>1, <3>2, <3>3
  <2>. QED
    BY <2>1
<1>4. \A x, y \in S : <<x, y>> \in before => rank[x] < rank[y]
  <2>1. ASSUME NEW x \in S, NEW y \in S, <<x, y>> \in before PROVE rank[x] < rank[y]
    <3>1. Before(x) \cup {x} \subseteq Before(y)
      BY <2>1 DEF LinesUp
    <3>2. Cardinality(Before(x) \cup {x}) = Cardinality(Before(x)) + 1
      BY <1>1, <1>2, FS_AddElement
    <3>3. Cardinality(Before(x) \cup {x}) <= Cardinality(Before(y))
      BY <1>1, <3>1, FS_Subset
    <3>. QED
      BY <1>1, <3>2, <3>3
  <2>. QED
    BY <2>1
<1>5. rank \in [S -> 0..(m - 1)]
  BY <1>3
<1>6. \A x \in S : Cardinality(Before(x)) = rank[x]
  OBVIOUS
<1>. HIDE DEF rank
<1>7. \A x, y \in S : rank[x] = rank[y] => x = y
  <2>1. ASSUME NEW x \in S, NEW y \in S, x # y PROVE rank[x] # rank[y]
    <3>1. <<x, y>> \in before \/ <<y, x>> \in before
      BY <2>1 DEF LinesUp
    <3>2. rank[x] \in Int /\ rank[y] \in Int
      BY <1>3
    <3>. QED
      BY <1>4, <3>1, <3>2
  <2>. QED
    BY <2>1
<1>8. IsFiniteSet(0..(m - 1)) /\ Cardinality(0..(m - 1)) = m
  <2>. PICK last \in Int : last = m - 1 /\ last >= -1
    OBVIOUS
  <2>1. IsFiniteSet(0..last) /\ Cardinality(0..last) = IF 0 > last THEN 0 ELSE last - 0 + 1
    BY FS_Interval, 0 \in Int, Zenon
  <2>. QED
    BY <2>1
<1>9. rank \in Surjection(S, 0..(m - 1))
  <2>1. rank \in Injection(S, 0..(m - 1))
    BY <1>5, <1>7 DEF Injection, IsInjective
  <2>. QED
    BY <1>8, <2>1, FS_Injection
<1>. DEFINE At(k) == CHOOSE x \in S : Cardinality(Before(x)) = k - 1
<1>10. ASSUME NEW k \in 1..m PROVE At(k) \in S /\ rank[At(k)] = k - 1
  <2>1. k - 1 \in 0..(m - 1)
    OBVIOUS
  <2>2. PICK x \in S : rank[x] = k - 1
    BY <1>9, <2>1 DEF Surjection
  <2>3. Cardinality(Before(x)) = k - 1
    BY <1>6, <2>2
  <2>4. At(k) \in S /\ Cardinality(Before(At(k))) = k - 1
    BY <2>3
  <2>. QED
    BY <1>6, <2>4
<1>11. InOrder(S, before) = [k \in 1..m |-> At(k)]
  BY DEF InOrder
<1>. HIDE DEF At, Before
<1>. DEFINE order == [k \in 1..m |-> At(k)]
<1>12. order \in [1..m -> S]
  BY <1>10
<1>13. \A j, k \in 1..m : order[j] = order[k] => j = k
  <2>1. ASSUME NEW j \in 1..m, NEW k \in 1..m, At(j) = At(k) PROVE j = k
    <3>1. j - 1 = k - 1
      BY <1>10, <2>1
    <3>. QED
      BY <3>1
  <2>. QED
    BY <2>1
<1>14. \A x \in S : \E k \in 1..m : order[k] = x
  <2>1. ASSUME NEW x \in S PROVE \E k \in 1..m : At(k) = x
    <3>1. PICK k \in 1..m : rank[x] = k - 1
      <4>1. rank[x] + 1 \in 1..m /\ rank[x] = (rank[x] + 1) - 1
        BY <1>3
      <4>. QED
        BY <4>1
    <3>2. At(k) \in S /\ rank[At(k)] = rank[x]
      BY <1>10, <3>1
    <3>. QED
      BY <1>7, <3>2
  <2>. QED
    BY <2>1
<1>. HIDE DEF order
<1>15. order \in Bijection(1..m, S)
  BY <1>12, <1>13, <1>14 DEF Bijection, Injection, IsInjective, Surjection
<1>. QED
  BY <1>11, <1>15 DEF order

\* A hit that may be served, and has a text.
MayBeServed(x) == x.allowed /\ x.words # {}

\* A list of so many hits that may be served, of these chunks, none twice.
Serves(items, found, m) ==
    /\ m \in Nat /\ IsSequence(items) /\ Len(items) = m
    /\ \A i \in 1..m : items[i].chunk \in found /\ MayBeServed(items[i])
    /\ \A i, j \in 1..m : items[i].chunk = items[j].chunk => i = j

\* What is listed is a sequence.
LEMMA ListedIsSequence ==
    ASSUME NEW m \in Nat, NEW g
    PROVE  IsSequence([i \in 1..m |-> g[i]]) /\ Len([i \in 1..m |-> g[i]]) = m
<1>. PICK s : s = [i \in 1..m |-> g[i]]
  OBVIOUS
<1>1. DOMAIN s = 1..m /\ \A i \in 1..m : s[i] \in {s[k] : k \in DOMAIN s}
  OBVIOUS
<1>2. s = [i \in 1..m |-> s[i]]
  OBVIOUS
<1>3. s \in Seq({s[k] : k \in DOMAIN s}) /\ Len(s) = m
  BY <1>1, <1>2
<1>. QED
  BY <1>3 DEF IsSequence

\* The k items at some of the m positions, no position twice.
Picks(t, items, m, p, k) ==
    /\ p \in [1..k -> 1..m] /\ \A i, j \in 1..k : p[i] = p[j] => i = j
    /\ t = [i \in 1..k |-> items[p[i]]]

\* Some of the hits, each once, are such a list.
LEMMA SomeServe ==
    ASSUME NEW items, NEW found, NEW m, Serves(items, found, m), NEW k \in Nat,
           NEW p, NEW t, Picks(t, items, m, p, k)
    PROVE  Serves(t, found, k)
<1>1. IsSequence(t) /\ Len(t) = k
  <2>. PICK g : g = [i \in 1..k |-> items[p[i]]]
    OBVIOUS
  <2>1. t = [i \in 1..k |-> g[i]]
    BY DEF Picks
  <2>. QED
    BY <2>1, ListedIsSequence
<1>2. \A i \in 1..k : t[i] = items[p[i]] /\ p[i] \in 1..m
  BY DEF Picks
<1>. QED
  BY <1>1, <1>2 DEF Serves, Picks

\* Their first hits are.
LEMMA FirstServe ==
    ASSUME NEW items, NEW found, NEW m, Serves(items, found, m), NEW k \in Nat, k <= m
    PROVE  Serves(SubSeq(items, 1, k), found, k)
<1>. PICK p : p = [i \in 1..k |-> i]
  OBVIOUS
<1>1. p \in [1..k -> 1..m] /\ \A i, j \in 1..k : p[i] = p[j] => i = j
  BY DEF Serves
<1>2. items \in Seq({items[i] : i \in DOMAIN items}) /\ Len(items) = m /\ m \in Nat
  BY DEF Serves, IsSequence
<1>. PICK S : items \in Seq(S)
  BY <1>2
<1>3. SubSeq(items, 1, k) = [i \in 1..k |-> items[p[i]]]
  <2>1. SubSeq(items, 1, k) = [i \in 1..k |-> items[i]]
    BY <1>2
  <2>. QED
    BY <2>1
<1>4. Picks(SubSeq(items, 1, k), items, m, p, k)
  BY <1>1, <1>3 DEF Picks
<1>. QED
  BY <1>4, k \in Nat, SomeServe, Zenon

\* Items from some of the positions.
From(t, items, positions) == \A i \in DOMAIN t : \E k \in positions : t[i] = items[k]

\* The hits at some positions are.
LEMMA KeptServe ==
    ASSUME NEW items, NEW found, NEW m, Serves(items, found, m), NEW positions, positions \subseteq 1..m
    PROVE  /\ IsFiniteSet(positions) /\ Serves(ItemsAt(items, positions), found, Cardinality(positions))
           /\ From(ItemsAt(items, positions), items, positions)
<1>. DEFINE before == {p \in positions \X positions : p[1] < p[2]}
<1>1. IsFiniteSet(positions)
  <2>1. IsFiniteSet(1..m)
    BY FS_Interval DEF Serves
  <2>. QED
    BY <2>1, FS_Subset
<1>2. PICK k \in Nat : k = Cardinality(positions)
  BY <1>1, FS_CardinalityType
<1>3. LinesUp(before, positions)
  <2>1. positions \subseteq Int
    BY DEF Serves
  <2>2. \A x, y \in positions : <<x, y>> \in before <=> x < y
    OBVIOUS
  <2>. HIDE DEF before
  <2>. QED
    BY <2>1, <2>2 DEF LinesUp
<1>4. PICK order : order = InOrder(positions, before)
  OBVIOUS
<1>5. ItemsAt(items, positions) = [i \in DOMAIN order |-> items[order[i]]]
  BY <1>4 DEF ItemsAt
<1>. HIDE DEF before
<1>6. order \in Bijection(1..k, positions)
  BY <1>1, <1>2, <1>3, <1>4, InOrderIsAll
<1>7. order \in [1..k -> positions] /\ \A i, j \in 1..k : order[i] = order[j] => i = j
  BY <1>6 DEF Bijection, Injection, IsInjective
<1>8. order \in [1..k -> 1..m]
  BY <1>7
<1>9. PICK t : t = ItemsAt(items, positions) /\ t = [i \in 1..k |-> items[order[i]]]
  BY <1>5, <1>7
<1>10. Serves(t, found, k)
  <2>1. Picks(t, items, m, order, k)
    BY <1>7, <1>8, <1>9 DEF Picks
  <2>. QED
    BY <2>1, k \in Nat, SomeServe, Zenon
<1>11. From(t, items, positions)
  BY <1>7, <1>9 DEF From
<1>. QED
  BY <1>1, <1>2, <1>9, <1>10, <1>11

\* The hits of highest score are.
LEMMA BestServe ==
    ASSUME NEW items, NEW found, NEW m, Serves(items, found, m), NEW score \in [1..m -> Int],
           NEW top_k \in Nat
    PROVE  Serves(ByScore(items, score, top_k), found, Min({m, top_k}))
<1>1. m \in Nat /\ Len(items) = m /\ DOMAIN items = 1..m
  BY DEF Serves, IsSequence
<1>. DEFINE before == {p \in (1..m) \X (1..m) : score[p[1]] > score[p[2]] \/ (score[p[1]] = score[p[2]] /\ p[1] < p[2])}
<1>2. LinesUp(before, 1..m)
  <2>1. \A x, y \in 1..m : <<x, y>> \in before <=> score[x] > score[y] \/ (score[x] = score[y] /\ x < y)
    OBVIOUS
  <2>2. \A x \in 1..m : score[x] \in Int /\ x \in Int
    OBVIOUS
  <2>. HIDE DEF before
  <2>3. \A x \in 1..m : <<x, x>> \notin before
    BY <2>1, <2>2
  <2>4. ASSUME NEW x \in 1..m, NEW y \in 1..m, NEW z \in 1..m, <<x, y>> \in before, <<y, z>> \in before
        PROVE  <<x, z>> \in before
    BY <2>1, <2>2, <2>4
  <2>5. ASSUME NEW x \in 1..m, NEW y \in 1..m, x # y PROVE <<x, y>> \in before \/ <<y, x>> \in before
    BY <2>1, <2>2, <2>5
  <2>. QED
    BY <2>3, <2>4, <2>5 DEF LinesUp
<1>3. PICK order : order = InOrder(1..m, before)
  OBVIOUS
<1>4. PICK k \in Nat : k = Min({m, top_k}) /\ k <= m
  BY <1>1, MinOfTwo
<1>5. ByScore(items, score, top_k) = [i \in 1..k |-> items[order[i]]]
  BY <1>1, <1>3, <1>4 DEF ByScore
<1>. HIDE DEF before
<1>6. IsFiniteSet(1..m) /\ Cardinality(1..m) = m
  <2>1. IsFiniteSet(1..m) /\ Cardinality(1..m) = IF 1 > m THEN 0 ELSE m - 1 + 1
    BY <1>1, FS_Interval, 1 \in Int, m \in Int, Zenon
  <2>. QED
    BY <1>1, <2>1
<1>7. order \in Bijection(1..m, 1..m)
  BY <1>2, <1>3, <1>6, InOrderIsAll
<1>8. order \in [1..m -> 1..m] /\ \A i, j \in 1..m : order[i] = order[j] => i = j
  BY <1>7 DEF Bijection, Injection, IsInjective
<1>9. PICK p : p = [i \in 1..k |-> order[i]]
  OBVIOUS
<1>10. p \in [1..k -> 1..m] /\ \A i, j \in 1..k : p[i] = p[j] => i = j
  <2>1. \A i \in 1..k : i \in 1..m
    BY <1>1, <1>4
  <2>. QED
    BY <1>8, <1>9, <2>1
<1>11. PICK t : t = ByScore(items, score, top_k) /\ t = [i \in 1..k |-> items[p[i]]]
  BY <1>5, <1>9
<1>12. Serves(t, found, k)
  <2>1. Picks(t, items, m, p, k)
    BY <1>10, <1>11 DEF Picks
  <2>. QED
    BY <2>1, k \in Nat, SomeServe, Zenon
<1>. QED
  BY <1>4, <1>11, <1>12

-----------------------------------------------------------------------------
(* The hits of a search.                                                   *)
\* A list of numbers.
LEMMA IsNumbers ==
    ASSUME NEW n, NEW score, score = [i \in 1..n |-> score[i]], \A i \in 1..n : score[i] \in Int
    PROVE  score \in [1..n -> Int]
  OBVIOUS

\* Hits that can be given a score.
CanBeScored(items) ==
    \A i \in DOMAIN items : items[i].score \in Int /\ items[i].quality \in Int /\ IsFiniteSet(items[i].words)

\* The local rerank serves the first of the hits, or the best.
LEMMA RerankServes ==
    ASSUME NEW items, NEW found, NEW m, Serves(items, found, m), CanBeScored(items),
           NEW query, IsFiniteSet(query), Unit \in Int, NEW top_k \in Nat
    PROVE  Serves(rerank_hits(query, items, top_k), found, Min({m, top_k}))
<1>1. m \in Nat /\ Len(items) = m /\ DOMAIN items = 1..m
  BY DEF Serves, IsSequence
<1>2. PICK k \in Nat : k = Min({m, top_k}) /\ k <= m
  BY <1>1, MinOfTwo
<1>3. CASE query = {}
  <2>1. rerank_hits(query, items, top_k) = SubSeq(items, 1, k)
    BY <1>1, <1>2, <1>3 DEF rerank_hits
  <2>2. Serves(SubSeq(items, 1, k), found, k)
    BY <1>2, FirstServe
  <2>. QED
    BY <1>2, <2>1, <2>2
<1>4. CASE query # {}
  <2>. DEFINE value(i) == 5500 * Cardinality(query) * items[i].score
                          + 4000 * Unit * Cardinality(query \cap items[i].words)
                          + 5 * Unit * Cardinality(query) * Max({0, Min({100, items[i].quality})})
  <2>. PICK score : score = [i \in 1..m |-> value(i)]
    OBVIOUS
  <2>1. rerank_hits(query, items, top_k) = ByScore(items, score, top_k)
    BY <1>1, <1>4 DEF rerank_hits
  <2>2. ASSUME NEW i \in 1..m PROVE score[i] \in Int
    <3>1. PICK all \in Int, common \in Int : all = Cardinality(query) /\ common = Cardinality(query \cap items[i].words)
      <4>1. IsFiniteSet(query \cap items[i].words)
        BY FS_Subset
      <4>. QED
        BY <4>1, FS_CardinalityType
    <3>2. PICK fused \in Int, quality \in Int : fused = items[i].score /\ quality = items[i].quality
      BY <1>1 DEF CanBeScored
    <3>3. PICK share \in Int : share = Max({0, Min({100, quality})})
      <4>1. PICK most \in Int : most = Min({100, quality})
        <5>1. PICK hundred \in Int : hundred = 100
          OBVIOUS
        <5>2. Min({hundred, quality}) = IF hundred <= quality THEN hundred ELSE quality
          BY MinOfTwo
        <5>. QED
          BY <5>1, <5>2
      <4>2. PICK zero \in Int : zero = 0
        OBVIOUS
      <4>3. Max({zero, most}) = IF zero >= most THEN zero ELSE most
        BY MaxOfTwo
      <4>. QED
        BY <4>1, <4>2, <4>3
    <3>4. PICK unit \in Int : unit = Unit
      OBVIOUS
    <3>5. score[i] = 5500 * all * fused + 4000 * unit * common + 5 * unit * all * share
      BY <3>1, <3>2, <3>3, <3>4
    <3>. QED
      BY <3>5
  <2>. HIDE DEF value
  <2>3. score \in [1..m -> Int]
    <3>1. score = [i \in 1..m |-> score[i]]
      OBVIOUS
    <3>. QED
      BY <2>2, <3>1, IsNumbers, Zenon
  <2>. QED
    <3>1. Serves(ByScore(items, score, top_k), found, Min({m, top_k}))
      BY <2>3, top_k \in Nat, BestServe, Zenon
    <3>. QED
      BY <2>1, <3>1
<1>. QED
  BY <1>3, <1>4

\* And so does a cross encoder, where there is one.
LEMMA CrossServes ==
    ASSUME NEW items, NEW found, NEW m, Serves(items, found, m), CanBeScored(items),
           NEW query, IsFiniteSet(query), Unit \in Int, NEW top_k \in Nat,
           NEW s, NEW model, model # Unavailable => IsSequence(model)
    PROVE  Serves(cross_encoder_rerank_hits(s, query, items, model, top_k), found, Min({m, top_k}))
<1>1. m \in Nat /\ DOMAIN items = 1..m
  BY DEF Serves, IsSequence
<1>2. CASE s.cross_encoder /\ model # Unavailable
  <2>. DEFINE earlier(i) == {k \in DOMAIN model : \A j \in 1..k : model[j] # items[i].chunk}
  <2>. PICK score : score = [i \in 1..m |-> 0 - Cardinality(earlier(i))]
    OBVIOUS
  <2>1. cross_encoder_rerank_hits(s, query, items, model, top_k) = ByScore(items, score, top_k)
    BY <1>1, <1>2 DEF cross_encoder_rerank_hits
  <2>2. IsFiniteSet(DOMAIN model)
    <3>1. PICK n \in Nat : DOMAIN model = 1..n
      BY <1>2 DEF IsSequence
    <3>2. IsFiniteSet(1..n)
      BY FS_Interval
    <3>. QED
      BY ONLY <3>1, <3>2
  <2>3. ASSUME NEW i \in 1..m PROVE score[i] \in Int
    <3>1. IsFiniteSet(earlier(i))
      BY <2>2, FS_Subset
    <3>2. score[i] = 0 - Cardinality(earlier(i))
      OBVIOUS
    <3>. HIDE DEF earlier
    <3>3. Cardinality(earlier(i)) \in Int
      <4>1. Cardinality(earlier(i)) \in Nat
        BY <3>1, FS_CardinalityType, Zenon
      <4>. QED
        BY <4>1
    <3>. QED
      BY <3>2, <3>3
  <2>4. score \in [1..m -> Int]
    <3>1. score = [i \in 1..m |-> score[i]]
      OBVIOUS
    <3>. QED
      BY <2>3, <3>1, IsNumbers, Zenon
  <2>. QED
    <3>1. Serves(ByScore(items, score, top_k), found, Min({m, top_k}))
      BY <2>4, top_k \in Nat, BestServe, Zenon
    <3>. QED
      BY <2>1, <3>1
<1>3. CASE ~(s.cross_encoder /\ model # Unavailable)
  BY <1>3, RerankServes DEF cross_encoder_rerank_hits
<1>. QED
  BY <1>2, <1>3

\* The last position of a chunk in a list, where it has one.
LEMMA RankIsPosition ==
    ASSUME NEW hits, NEW n \in Nat, DOMAIN hits = 1..n, NEW chunk
    PROVE  /\ RankOf(hits, chunk) \in 0..n
           /\ RankOf(hits, chunk) # 0 => hits[RankOf(hits, chunk)].chunk = chunk
           /\ RankOf(hits, chunk) = 0 => \A i \in 1..n : hits[i].chunk # chunk
           /\ \A i \in 1..n : hits[i].chunk = chunk => i <= RankOf(hits, chunk)
<1>. DEFINE at == {i \in 1..n : hits[i].chunk = chunk}
<1>1. RankOf(hits, chunk) = IF at = {} THEN 0 ELSE Max(at)
  BY DEF RankOf
<1>2. at # {} => Max(at) \in at /\ \A i \in at : i <= Max(at)
  <2>1. at \subseteq 1..n
    OBVIOUS
  <2>. HIDE DEF at
  <2>. QED
    BY <2>1, MaxOfPositions
<1>3. CASE at = {}
  BY <1>1, <1>3
<1>4. CASE at # {}
  <2>1. PICK rank \in at : rank = RankOf(hits, chunk) /\ \A i \in at : i <= rank
    BY <1>1, <1>2, <1>4
  <2>. QED
    BY <2>1
<1>. QED
  BY <1>3, <1>4

\* Two sequences joined.
LEMMA Joined ==
    ASSUME NEW S, NEW s \in Seq(S), NEW t \in Seq(S)
    PROVE  /\ s \o t \in Seq(S) /\ Len(s \o t) = Len(s) + Len(t)
           /\ \A i \in 1..(Len(s) + Len(t)) : (s \o t)[i] = IF i <= Len(s) THEN s[i] ELSE t[i - Len(s)]
  OBVIOUS

\* Whatever a model answers, what it leaves out follows, and no hit is lost.
LEMMA LlmServes ==
    ASSUME NEW items, NEW found, NEW m, Serves(items, found, m), NEW top_k \in Nat,
           NEW s, s.llm_candidates \in Int, NEW answer, IsSequence(answer)
    PROVE  Serves(llm_rerank_hits(s, items, answer, top_k), found, Min({m, top_k}))
<1>1. m \in Nat /\ Len(items) = m
  BY DEF Serves
<1>2. PICK c \in Nat : c = Min({m, Max({top_k, s.llm_candidates})}) /\ c <= m /\ (c < m => top_k <= c)
  <2>1. PICK shown \in Int : shown = s.llm_candidates
    OBVIOUS
  <2>2. Max({top_k, shown}) = IF top_k >= shown THEN top_k ELSE shown
    BY MaxOfTwo
  <2>3. PICK most \in Nat : most = Max({top_k, shown}) /\ most >= top_k
    BY <2>2
  <2>4. Min({m, most}) = IF m <= most THEN m ELSE most
    BY <1>1, MinOfTwo
  <2>. QED
    BY <1>1, <2>1, <2>3, <2>4
<1>3. PICK candidates : candidates = SubSeq(items, 1, c)
  OBVIOUS
<1>4. Serves(candidates, found, c)
  BY <1>2, <1>3, FirstServe
<1>5. DOMAIN candidates = 1..c
  BY <1>4 DEF Serves, IsSequence
<1>6. PICK ids : ids = {candidates[i].chunk : i \in 1..c}
  OBVIOUS
<1>7. PICK first \in Seq(ids) : first = ranked(answer, ids) /\ Distinct(first)
  BY RankedIsDistinct
<1>8. PICK f \in Nat : f = Len(first) /\ DOMAIN first = 1..f
  OBVIOUS
<1>9. PICK at : at = [i \in 1..f |-> RankOf(candidates, first[i])]
  OBVIOUS
<1>10. ASSUME NEW i \in 1..f PROVE at[i] \in 1..c /\ candidates[at[i]].chunk = first[i]
  <2>1. PICK id \in ids : id = first[i]
    BY <1>8
  <2>2. PICK rank : rank = RankOf(candidates, id)
    OBVIOUS
  <2>3. /\ rank \in 0..c /\ (rank # 0 => candidates[rank].chunk = id)
        /\ rank = 0 => \A k \in 1..c : candidates[k].chunk # id
    BY <1>5, <2>2, RankIsPosition
  <2>4. rank \in 0..c /\ rank # 0 /\ candidates[rank].chunk = id
    BY <1>6, <2>1, <2>3
  <2>. QED
    BY <1>9, <2>1, <2>2, <2>4
<1>11. PICK positions : positions = {i \in 1..c : candidates[i].chunk \notin ToSet(first)}
  OBVIOUS
<1>12. PICK rest : rest = ItemsAt(candidates, positions)
  OBVIOUS
<1>13. PICK r : r = Cardinality(positions)
  OBVIOUS
<1>14. /\ IsFiniteSet(positions) /\ Serves(rest, found, r)
       /\ From(rest, candidates, positions)
  <2>1. positions \subseteq 1..c
    BY <1>11
  <2>. QED
    <3>1. /\ IsFiniteSet(positions) /\ Serves(ItemsAt(candidates, positions), found, Cardinality(positions))
          /\ From(ItemsAt(candidates, positions), candidates, positions)
      BY <1>4, <2>1, KeptServe, Zenon
    <3>. QED
      BY <1>12, <1>13, <3>1
<1>15. f + r = c
  <2>. DEFINE named == {i \in 1..c : candidates[i].chunk \in ToSet(first)}
  <2>1. at \in Bijection(1..f, named)
    <3>1. \A i \in 1..f : first[i] \in ToSet(first)
      BY <1>8 DEF ToSet
    <3>2. \A i \in 1..f : at[i] \in named
      BY <1>10, <3>1
    <3>3. \A i, j \in 1..f : at[i] = at[j] => i = j
      <4>1. ASSUME NEW i \in 1..f, NEW j \in 1..f, at[i] = at[j] PROVE i = j
        <5>1. first[i] = first[j]
          BY <1>10, <4>1
        <5>. QED
          BY <1>7, <1>8, <5>1 DEF Distinct
      <4>. QED
        BY <4>1
    <3>4. \A k \in named : \E i \in 1..f : at[i] = k
      <4>1. ASSUME NEW k \in 1..c, candidates[k].chunk \in ToSet(first) PROVE \E i \in 1..f : at[i] = k
        <5>1. PICK i \in 1..f : first[i] = candidates[k].chunk
          BY <1>8, <4>1 DEF ToSet
        <5>2. at[i] \in 1..c /\ candidates[at[i]].chunk = candidates[k].chunk
          BY <1>10, <5>1
        <5>3. at[i] = k
          BY <1>4, <5>2 DEF Serves
        <5>. QED
          BY <5>3
      <4>. QED
        BY <4>1
    <3>5. at = [i \in 1..f |-> at[i]]
      BY <1>9
    <3>. HIDE DEF named
    <3>6. at \in [1..f -> named]
      BY <3>2, <3>5
    <3>. QED
      BY <3>3, <3>4, <3>6 DEF Bijection, Injection, IsInjective, Surjection
  <2>2. named \cap positions = {} /\ named \cup positions = 1..c
    BY <1>11
  <2>. HIDE DEF named
  <2>3. IsFiniteSet(1..f) /\ Cardinality(1..f) = f
    <3>1. IsFiniteSet(1..f) /\ Cardinality(1..f) = IF 1 > f THEN 0 ELSE f - 1 + 1
      BY FS_Interval, 1 \in Int, f \in Int, Zenon
    <3>. QED
      BY <3>1
  <2>4. Cardinality(1..c) = c
    <3>1. Cardinality(1..c) = IF 1 > c THEN 0 ELSE c - 1 + 1
      BY FS_Interval, 1 \in Int, c \in Int, Zenon
    <3>. QED
      BY <3>1
  <2>5. IsFiniteSet(named) /\ Cardinality(named) = f
    <3>1. ExistsBijection(1..f, named)
      BY <2>1 DEF ExistsBijection
    <3>. QED
      BY <2>3, <3>1, FS_Bijection
  <2>6. IsFiniteSet(named \cap positions) /\ Cardinality(named \cap positions) = 0
    BY <2>2, FS_EmptySet
  <2>7. Cardinality(named \cup positions) = Cardinality(named) + Cardinality(positions) - Cardinality(named \cap positions)
    BY <1>14, <2>5, FS_Union
  <2>8. c = f + Cardinality(positions) - 0
    BY <2>2, <2>4, <2>5, <2>6, <2>7
  <2>9. r \in Nat
    BY <1>14 DEF Serves
  <2>. QED
    BY <1>13, <2>8, <2>9
<1>16. PICK heads : heads = [i \in 1..f |-> candidates[at[i]]]
  OBVIOUS
<1>17. PICK all : all = heads \o rest
  OBVIOUS
<1>18. IsSequence(heads) /\ Len(heads) = f
  <2>1. heads = [i \in 1..f |-> heads[i]]
    BY <1>16
  <2>. QED
    BY <2>1, ListedIsSequence
<1>19. /\ IsSequence(all) /\ Len(all) = c
       /\ \A i \in 1..f : all[i] = candidates[at[i]]
       /\ \A i \in 1..c : i \notin 1..f => i - f \in 1..r /\ all[i] = rest[i - f]
  <2>1. rest \in Seq({rest[i] : i \in DOMAIN rest}) /\ Len(rest) = r /\ r \in Nat
    BY <1>14 DEF Serves, IsSequence
  <2>2. heads \in Seq({heads[i] : i \in DOMAIN heads})
    BY <1>18 DEF IsSequence
  <2>3. PICK S : heads \in Seq(S) /\ rest \in Seq(S)
    <3>1. \A T, U : heads \in Seq(T) /\ rest \in Seq(U) => heads \in Seq(T \cup U) /\ rest \in Seq(T \cup U)
      OBVIOUS
    <3>. QED
      BY <2>1, <2>2, <3>1
  <2>. PICK joined : joined = heads \o rest
    OBVIOUS
  <2>8. /\ joined \in Seq(S) /\ Len(joined) = f + r
        /\ \A i \in 1..(f + r) : joined[i] = IF i <= f THEN heads[i] ELSE rest[i - f]
    <3>1. f = Len(heads) /\ r = Len(rest)
      BY <1>18, <2>1
    <3>. QED
      BY <2>3, <3>1, Joined
  <2>4. all \in Seq(S) /\ Len(all) = f + r
    BY <1>17, <2>8
  <2>5. \A i \in 1..f : all[i] = heads[i]
    BY <1>17, <2>1, <2>8
  <2>6. \A i \in 1..c : i \notin 1..f => i - f \in 1..r /\ all[i] = rest[i - f]
    BY <1>15, <1>17, <2>1, <2>8
  <2>7. IsSequence(all)
    <3>1. all = [i \in 1..c |-> all[i]]
      BY <1>15, <2>4
    <3>. QED
      BY <3>1, ListedIsSequence
  <2>. QED
    BY <1>15, <1>16, <2>4, <2>5, <2>6, <2>7
<1>20. ASSUME NEW i \in 1..f
       PROVE  /\ all[i].chunk \in found /\ all[i].chunk = first[i] /\ first[i] \in ToSet(first)
              /\ MayBeServed(all[i])
  <2>1. all[i] = candidates[at[i]] /\ at[i] \in 1..c /\ candidates[at[i]].chunk = first[i]
    BY <1>10, <1>19
  <2>2. candidates[at[i]].chunk \in found /\ MayBeServed(candidates[at[i]])
    BY <1>4, <2>1 DEF Serves
  <2>3. first[i] \in ToSet(first)
    BY <1>8 DEF ToSet
  <2>. QED
    BY <2>1, <2>2, <2>3
<1>21. ASSUME NEW i \in 1..c, i \notin 1..f
       PROVE  /\ all[i].chunk \in found /\ all[i].chunk \notin ToSet(first)
              /\ MayBeServed(all[i])
  <2>1. PICK j \in 1..r : all[i] = rest[j]
    BY <1>19, <1>21
  <2>2. j \in DOMAIN rest
    BY <1>14 DEF Serves, IsSequence
  <2>3. PICK k \in positions : rest[j] = candidates[k]
    BY <1>14, <2>2 DEF From
  <2>4. rest[j].chunk \in found /\ MayBeServed(rest[j])
    BY <1>14 DEF Serves
  <2>. QED
    BY <1>11, <2>1, <2>3, <2>4
<1>22. ASSUME NEW i \in 1..c, NEW j \in 1..c, all[i].chunk = all[j].chunk PROVE i = j
  <2>1. CASE i \in 1..f /\ j \in 1..f
    BY <1>7, <1>8, <1>20, <1>22, <2>1 DEF Distinct
  <2>2. CASE i \notin 1..f /\ j \notin 1..f
    <3>1. i - f = j - f
      BY <1>14, <1>19, <1>22, <2>2 DEF Serves
    <3>. QED
      BY <3>1
  <2>3. CASE i \in 1..f /\ j \notin 1..f
    BY <1>20, <1>21, <1>22, <2>3
  <2>4. CASE i \notin 1..f /\ j \in 1..f
    BY <1>20, <1>21, <1>22, <2>4
  <2>. QED
    BY <2>1, <2>2, <2>3, <2>4
<1>23. Serves(all, found, c)
  BY <1>19, <1>20, <1>21, <1>22 DEF Serves
<1>24. PICK k \in Nat : k = Min({m, top_k}) /\ k = Min({c, top_k}) /\ k <= c
  <2>1. Min({m, top_k}) = (IF m <= top_k THEN m ELSE top_k) /\ Min({c, top_k}) = (IF c <= top_k THEN c ELSE top_k)
    BY <1>1, MinOfTwo
  <2>. QED
    BY <1>1, <1>2, <2>1
<1>25. llm_rerank_hits(s, items, answer, top_k) = SubSeq(all, 1, k)
  <2>1. DOMAIN first = 1..f /\ heads = [i \in DOMAIN first |-> candidates[RankOf(candidates, first[i])]]
    BY <1>8, <1>9, <1>16
  <2>2. first = ranked(answer, {candidates[i].chunk : i \in DOMAIN candidates})
    BY <1>5, <1>6, <1>7
  <2>3. rest = ItemsAt(candidates, {i \in DOMAIN candidates : candidates[i].chunk \notin ToSet(first)})
    BY <1>5, <1>11, <1>12
  <2>4. candidates = SubSeq(items, 1, Min({Len(items), Max({top_k, s.llm_candidates})}))
    BY <1>1, <1>2, <1>3
  <2>5. k = Min({Len(all), top_k})
    BY <1>19, <1>24
  <2>. QED
    BY <1>17, <2>1, <2>2, <2>3, <2>4, <2>5 DEF llm_rerank_hits
<1>26. Serves(SubSeq(all, 1, k), found, k)
  BY <1>23, <1>24, FirstServe
<1>. QED
  BY <1>24, <1>25, <1>26

\* How many hits are served when a model may rank them.
Room(s, answer, n) ==
    IF s.llm_enabled /\ answer \notin {Unavailable, <<>>} THEN Max({1, Min({n, s.llm_top_k})}) ELSE n

\* Whichever reranker answers, it serves the first top_k of the hits in some order;
\* a model serves no more than it was asked for.
LEMMA RerankedServe ==
    ASSUME NEW items, NEW found, NEW m, Serves(items, found, m), CanBeScored(items),
           NEW query, IsFiniteSet(query), Unit \in Int, NEW top_k \in Nat \ {0},
           NEW s, s.llm_candidates \in Int, s.llm_top_k \in Int,
           NEW answer, answer # Unavailable => IsSequence(answer),
           NEW model, model # Unavailable => IsSequence(model)
    PROVE  /\ Room(s, answer, top_k) \in 1..top_k
           /\ Serves(rerank_hits_with_optional_llm(s, query, items, answer, model, top_k), found,
                     Min({m, Room(s, answer, top_k)}))
<1>1. CASE s.llm_enabled /\ answer \notin {Unavailable, <<>>}
  <2>1. IsSequence(answer)
    BY <1>1
  <2>2. PICK room \in 1..top_k : room = Max({1, Min({top_k, s.llm_top_k})})
    <3>1. PICK wanted \in Int : wanted = s.llm_top_k
      OBVIOUS
    <3>2. PICK most \in Int : most = Min({top_k, wanted}) /\ most <= top_k
      <4>1. Min({top_k, wanted}) = IF top_k <= wanted THEN top_k ELSE wanted
        BY MinOfTwo
      <4>. QED
        BY <4>1
    <3>3. PICK one \in Int : one = 1
      OBVIOUS
    <3>4. Max({one, most}) = IF one >= most THEN one ELSE most
      BY MaxOfTwo
    <3>. QED
      BY <3>1, <3>2, <3>3, <3>4
  <2>3. PICK t : t = llm_rerank_hits(s, items, answer, room)
    OBVIOUS
  <2>4. room \in Nat
    OBVIOUS
  <2>5. Serves(t, found, Min({m, room}))
    BY <2>1, <2>3, <2>4, LlmServes
  <2>6. rerank_hits_with_optional_llm(s, query, items, answer, model, top_k) = t
    BY <1>1, <2>2, <2>3 DEF rerank_hits_with_optional_llm
  <2>7. Room(s, answer, top_k) = room
    BY <1>1, <2>2 DEF Room
  <2>. QED
    BY <2>5, <2>6, <2>7
<1>2. CASE ~(s.llm_enabled /\ answer \notin {Unavailable, <<>>})
  <2>1. Serves(cross_encoder_rerank_hits(s, query, items, model, top_k), found, Min({m, top_k}))
    BY CrossServes
  <2>2. rerank_hits_with_optional_llm(s, query, items, answer, model, top_k)
          = cross_encoder_rerank_hits(s, query, items, model, top_k)
    BY <1>2 DEF rerank_hits_with_optional_llm
  <2>3. Room(s, answer, top_k) = top_k
    BY <1>2 DEF Room
  <2>. QED
    BY <2>1, <2>2, <2>3
<1>. QED
  BY <1>1, <1>2

\* Two lists of hits of the store.
Returned(v, w, hits) ==
    /\ v \in Seq(hits) /\ w \in Seq(hits)
    /\ \A x \in hits :
         /\ DOMAIN x = {"chunk", "words", "context", "allowed", "quality"}
         /\ IsFiniteSet(x.words) /\ x.quality \in Int

\* The payload of a chunk of one of two lists, and its score.
Payload(v, w, c) == IF RankOf(w, c) # 0 THEN w[RankOf(w, c)] ELSE v[RankOf(v, c)]

\* Their chunks whose payload may be served.
FoundIn(v, w) == {c \in {x.chunk : x \in ToSet(v) \cup ToSet(w)} : MayBeServed(Payload(v, w, c))}

\* It is a hit of that chunk.
LEMMA PayloadIsHit ==
    ASSUME NEW v, NEW w, NEW hits, Returned(v, w, hits), NEW x \in ToSet(v) \cup ToSet(w)
    PROVE  Payload(v, w, x.chunk) \in ToSet(v) \cup ToSet(w) /\ Payload(v, w, x.chunk).chunk = x.chunk
<1>. PICK l \in Nat, n \in Nat : l = Len(v) /\ n = Len(w)
  BY DEF Returned
<1>. PICK c : c = x.chunk
  OBVIOUS
<1>1. DOMAIN v = 1..l /\ DOMAIN w = 1..n
  BY DEF Returned
<1>2. /\ RankOf(v, c) \in 0..l /\ (RankOf(v, c) # 0 => v[RankOf(v, c)].chunk = c)
      /\ RankOf(v, c) = 0 => \A i \in 1..l : v[i].chunk # c
  BY <1>1, RankIsPosition
<1>3. /\ RankOf(w, c) \in 0..n /\ (RankOf(w, c) # 0 => w[RankOf(w, c)].chunk = c)
      /\ RankOf(w, c) = 0 => \A i \in 1..n : w[i].chunk # c
  BY <1>1, RankIsPosition
<1>4. CASE RankOf(w, c) # 0
  <2>1. RankOf(w, c) \in 1..n
    BY <1>3, <1>4
  <2>. QED
    BY <1>1, <1>3, <1>4, <2>1 DEF Payload, ToSet
<1>5. CASE RankOf(w, c) = 0
  <2>1. x \in ToSet(v)
    BY <1>1, <1>3, <1>5 DEF ToSet
  <2>2. RankOf(v, c) # 0
    BY <1>1, <1>2, <2>1 DEF ToSet
  <2>3. RankOf(v, c) \in 1..l
    BY <1>2, <2>2
  <2>. QED
    BY <1>1, <1>2, <1>5, <2>2, <2>3 DEF Payload, ToSet
<1>. QED
  BY <1>4, <1>5

\* The score of a chunk is a number.
LEMMA FusionIsNumber ==
    ASSUME NEW v, NEW w, NEW hits, Returned(v, w, hits), NEW s, s.rrf_k \in Int, Unit \in Int, NEW c
    PROVE  fusion_score(s, v, w, c) \in Int
<1>. PICK l \in Nat, n \in Nat : l = Len(v) /\ n = Len(w)
  BY DEF Returned
<1>1. DOMAIN v = 1..l /\ DOMAIN w = 1..n
  BY DEF Returned
<1>2. PICK first \in Nat, second \in Nat : first = RankOf(v, c) /\ second = RankOf(w, c)
  <2>1. RankOf(v, c) \in 0..l /\ RankOf(w, c) \in 0..n
    BY <1>1, RankIsPosition
  <2>. QED
    BY <2>1
<1>3. PICK base \in Nat \ {0} : base = Max({1, s.rrf_k})
  <2>1. PICK one \in Int, given \in Int : one = 1 /\ given = s.rrf_k
    OBVIOUS
  <2>2. Max({one, given}) = IF one >= given THEN one ELSE given
    BY MaxOfTwo
  <2>. QED
    BY <2>1, <2>2
<1>4. PICK unit \in Int : unit = Unit
  OBVIOUS
<1>5. unit \div (base + first) \in Int /\ unit \div (base + second) \in Int
  OBVIOUS
<1>6. fusion_score(s, v, w, c) = (IF first = 0 THEN 0 ELSE unit \div (base + first))
                                 + (IF second = 0 THEN 0 ELSE unit \div (base + second))
  BY <1>2, <1>3, <1>4 DEF fusion_score
<1>. QED
  BY <1>5, <1>6

\* The place a chunk is first seen at has that chunk.
LEMMA FirstSeenIsPosition ==
    ASSUME NEW hits, NEW n \in Nat, DOMAIN hits = 1..n, NEW i \in 1..n
    PROVE  FirstSeen(hits, hits[i].chunk) \in 1..n /\ hits[FirstSeen(hits, hits[i].chunk)].chunk = hits[i].chunk
<1>1. PICK at : at = {j \in 1..n : hits[j].chunk = hits[i].chunk}
  OBVIOUS
<1>2. at \subseteq Nat /\ at # {}
  BY <1>1
<1>3. Min(at) \in at
  BY <1>2, MinOfPositions
<1>4. FirstSeen(hits, hits[i].chunk) = Min(at)
  BY <1>1 DEF FirstSeen
<1>. QED
  BY <1>1, <1>3, <1>4

\* A hit that is given a score keeps the rest.
LEMMA ScoreIsAdded ==
    ASSUME NEW x, DOMAIN x = {"chunk", "words", "context", "allowed", "quality"}, NEW n, NEW y, y = WithScore(x, n)
    PROVE  y.chunk = x.chunk /\ y.words = x.words /\ y.quality = x.quality /\ y.score = n
  BY DEF WithScore

\* Each of the chunks that may be served is fused into one hit, as far as there
\* is room.
LEMMA FusionServes ==
    ASSUME NEW v, NEW w, NEW hits, Returned(v, w, hits), NEW s, s.rrf_k \in Int, Unit \in Int,
           NEW top_k \in Nat
    PROVE  /\ IsFiniteSet(FoundIn(v, w))
           /\ Serves(fuse_hybrid(s, v, w, top_k), FoundIn(v, w), Min({Cardinality(FoundIn(v, w)), top_k}))
           /\ CanBeScored(fuse_hybrid(s, v, w, top_k))
<1>. DEFINE both == v \o w
            chunks == {both[i].chunk : i \in DOMAIN both}
            before == {p \in chunks \X chunks :
                         \/ fusion_score(s, v, w, p[1]) > fusion_score(s, v, w, p[2])
                         \/ /\ fusion_score(s, v, w, p[1]) = fusion_score(s, v, w, p[2])
                            /\ FirstSeen(both, p[1]) < FirstSeen(both, p[2])}
            servable == {c \in chunks : Payload(v, w, c).allowed /\ Payload(v, w, c).words # {}}
            order == InOrder(servable, before)
            fused(i) == WithScore(Payload(v, w, order[i]), fusion_score(s, v, w, order[i]))
<1>0. fuse_hybrid(s, v, w, top_k) = [i \in 1..Min({Len(order), top_k}) |-> fused(i)]
  BY DEF fuse_hybrid, Payload
<1>. HIDE DEF order, servable, before, chunks
<1>. PICK lv \in Nat, lw \in Nat, l \in Nat : lv = Len(v) /\ lw = Len(w) /\ l = lv + lw
  BY DEF Returned
<1>1. DOMAIN both = 1..l /\ \A i \in 1..l : both[i] \in ToSet(v) \cup ToSet(w)
  <2>1. both \in Seq(hits) /\ Len(both) = l /\ \A i \in 1..l : both[i] = IF i <= lv THEN v[i] ELSE w[i - lv]
    <3>1. v \in Seq(hits) /\ w \in Seq(hits)
      BY DEF Returned
    <3>. QED
      BY <3>1, Joined
  <2>2. ASSUME NEW i \in 1..l PROVE both[i] \in ToSet(v) \cup ToSet(w)
    <3>1. DOMAIN v = 1..lv /\ DOMAIN w = 1..lw
      BY DEF Returned
    <3>2. CASE i <= lv
      BY <2>1, <3>1, <3>2 DEF ToSet
    <3>3. CASE ~(i <= lv)
      <4>1. i - lv \in 1..lw
        BY <3>3
      <4>. QED
        BY <2>1, <3>1, <3>3, <4>1 DEF ToSet
    <3>. QED
      BY <3>2, <3>3
  <2>. QED
    BY <2>1, <2>2
<1>2. \A x \in ToSet(v) \cup ToSet(w) : \E i \in 1..l : both[i] = x
  <2>1. Len(both) = l /\ \A i \in 1..l : both[i] = IF i <= lv THEN v[i] ELSE w[i - lv]
    <3>1. v \in Seq(hits) /\ w \in Seq(hits)
      BY DEF Returned
    <3>. QED
      BY <3>1, Joined
  <2>2. DOMAIN v = 1..lv /\ DOMAIN w = 1..lw
    BY DEF Returned
  <2>3. ASSUME NEW x \in ToSet(v) PROVE \E i \in 1..l : both[i] = x
    <3>1. PICK i \in 1..lv : v[i] = x
      BY <2>2 DEF ToSet
    <3>. QED
      BY <2>1, <3>1
  <2>4. ASSUME NEW x \in ToSet(w) PROVE \E i \in 1..l : both[i] = x
    <3>1. PICK i \in 1..lw : w[i] = x
      BY <2>2 DEF ToSet
    <3>2. i + lv \in 1..l /\ ~(i + lv <= lv) /\ (i + lv) - lv = i
      OBVIOUS
    <3>. QED
      BY <2>1, <3>1, <3>2
  <2>. QED
    BY <2>3, <2>4
<1>2a. chunks = {both[i].chunk : i \in 1..l}
  BY <1>1 DEF chunks
<1>. HIDE DEF both
<1>3. ASSUME NEW c \in chunks PROVE Payload(v, w, c) \in ToSet(v) \cup ToSet(w) /\ Payload(v, w, c).chunk = c
  <2>1. PICK i \in 1..l : both[i].chunk = c
    BY <1>2a
  <2>2. PICK x \in ToSet(v) \cup ToSet(w) : x = both[i]
    BY <1>1
  <2>3. Payload(v, w, x.chunk) \in ToSet(v) \cup ToSet(w) /\ Payload(v, w, x.chunk).chunk = x.chunk
    BY PayloadIsHit
  <2>. QED
    BY <2>1, <2>2, <2>3
<1>. PICK found : found = FoundIn(v, w)
  OBVIOUS
<1>3a. chunks = {x.chunk : x \in ToSet(v) \cup ToSet(w)}
  BY <1>1, <1>2, <1>2a
<1>4. found \subseteq chunks
  BY <1>3a DEF FoundIn
<1>5. servable = found
  BY <1>3a DEF servable, FoundIn, MayBeServed
<1>6. IsFiniteSet(found)
  <2>1. IsFiniteSet(1..l)
    BY FS_Interval
  <2>2. PICK f : f = [i \in 1..l |-> both[i].chunk]
    OBVIOUS
  <2>3. f \in Surjection(1..l, chunks)
    BY <1>2a, <2>2 DEF Surjection
  <2>4. IsFiniteSet(chunks)
    BY <2>1, <2>3, FS_Surjection
  <2>. QED
    BY <1>4, <2>4, FS_Subset
<1>7. \A c \in chunks : fusion_score(s, v, w, c) \in Int
  BY FusionIsNumber
<1>8. \A c \in chunks : FirstSeen(both, c) \in Int /\ both[FirstSeen(both, c)].chunk = c
  <2>1. ASSUME NEW c \in chunks PROVE FirstSeen(both, c) \in Int /\ both[FirstSeen(both, c)].chunk = c
    <3>1. PICK i \in 1..l : both[i].chunk = c
      BY <1>2a
    <3>2. FirstSeen(both, both[i].chunk) \in 1..l /\ both[FirstSeen(both, both[i].chunk)].chunk = both[i].chunk
      BY <1>1, FirstSeenIsPosition
    <3>. QED
      BY <3>1, <3>2
  <2>. QED
    BY <2>1
<1>9. LinesUp(before, found)
  <2>0. PICK sc, fs : sc = [c \in chunks |-> fusion_score(s, v, w, c)] /\ fs = [c \in chunks |-> FirstSeen(both, c)]
    OBVIOUS
  <2>1. \A x, y \in chunks : <<x, y>> \in before <=> sc[x] > sc[y] \/ (sc[x] = sc[y] /\ fs[x] < fs[y])
    BY <2>0 DEF before
  <2>2. sc \in [chunks -> Int] /\ fs \in [chunks -> Int]
    BY <1>7, <1>8, <2>0
  <2>3. ASSUME NEW x \in chunks, NEW y \in chunks, fs[x] = fs[y] PROVE x = y
    <3>1. FirstSeen(both, x) = FirstSeen(both, y)
      BY <2>0, <2>3
    <3>. QED
      BY <1>8, <3>1
  <2>4. \A x \in found : <<x, x>> \notin before
    <3>1. ASSUME NEW x \in chunks PROVE <<x, x>> \notin before
      <4>1. PICK a \in Int, b \in Int : a = sc[x] /\ b = fs[x]
        BY <2>2
      <4>2. ~(a > a \/ (a = a /\ b < b))
        OBVIOUS
      <4>. QED
        BY <2>1, <4>1, <4>2
    <3>. QED
      BY <1>4, <3>1
  <2>5. ASSUME NEW x \in found, NEW y \in found, NEW z \in found, <<x, y>> \in before, <<y, z>> \in before
        PROVE  <<x, z>> \in before
    <3>1. x \in chunks /\ y \in chunks /\ z \in chunks
      BY <1>4
    <3>2. PICK a \in Int, b \in Int, c \in Int, d \in Int, e \in Int, f \in Int :
            a = sc[x] /\ b = sc[y] /\ c = sc[z] /\ d = fs[x] /\ e = fs[y] /\ f = fs[z]
      BY <2>2, <3>1
    <3>3. (a > b \/ (a = b /\ d < e)) /\ (b > c \/ (b = c /\ e < f))
      <4>1. sc[x] > sc[y] \/ (sc[x] = sc[y] /\ fs[x] < fs[y])
        BY <2>1, <2>5, <3>1
      <4>2. sc[y] > sc[z] \/ (sc[y] = sc[z] /\ fs[y] < fs[z])
        BY <2>1, <2>5, <3>1
      <4>. QED
        BY <3>2, <4>1, <4>2
    <3>4. a > c \/ (a = c /\ d < f)
      BY <3>3
    <3>. QED
      BY <2>1, <3>1, <3>2, <3>4
  <2>6. ASSUME NEW x \in found, NEW y \in found, x # y PROVE <<x, y>> \in before \/ <<y, x>> \in before
    <3>1. x \in chunks /\ y \in chunks
      BY <1>4
    <3>2. PICK a \in Int, b \in Int, d \in Int, e \in Int : a = sc[x] /\ b = sc[y] /\ d = fs[x] /\ e = fs[y]
      BY <2>2, <3>1
    <3>3. d # e
      BY <2>3, <2>6, <3>1, <3>2
    <3>4. (a > b \/ (a = b /\ d < e)) \/ (b > a \/ (b = a /\ e < d))
      BY <3>3
    <3>. QED
      BY <2>1, <3>1, <3>2, <3>4
  <2>. QED
    BY <2>4, <2>5, <2>6 DEF LinesUp
<1>. PICK m \in Nat : m = Cardinality(found)
  BY <1>6, FS_CardinalityType
<1>10. order \in [1..m -> found] /\ Len(order) = m /\ \A i, j \in 1..m : order[i] = order[j] => i = j
  <2>1. InOrder(found, before) \in Bijection(1..m, found)
    BY <1>6, <1>9, InOrderIsAll
  <2>1a. order \in Bijection(1..m, found)
    BY <1>5, <2>1 DEF order
  <2>2. order \in [1..m -> found] /\ \A i, j \in 1..m : order[i] = order[j] => i = j
    BY <2>1a DEF Bijection, Injection, IsInjective
  <2>3. Len(order) = m
    BY <2>2
  <2>. QED
    BY <2>2, <2>3
<1>11. PICK k \in Nat : k = Min({m, top_k}) /\ k <= m
  <2>1. Min({m, top_k}) = IF m <= top_k THEN m ELSE top_k
    BY MinOfTwo
  <2>. QED
    BY <2>1
<1>. PICK t : t = [i \in 1..k |-> fused(i)]
  OBVIOUS
<1>12. fuse_hybrid(s, v, w, top_k) = t
  BY <1>0, <1>10, <1>11
<1>13. ASSUME NEW i \in 1..k
       PROVE  /\ t[i].chunk = order[i] /\ order[i] \in found
              /\ t[i].score \in Int /\ t[i].quality \in Int /\ IsFiniteSet(t[i].words)
              /\ MayBeServed(t[i])
  <2>0. i \in 1..m
    BY <1>11
  <2>1. PICK c \in found : c = order[i]
    BY <1>10, <2>0
  <2>2. PICK x \in ToSet(v) \cup ToSet(w) : x = Payload(v, w, c) /\ x.chunk = c
    BY <1>3, <1>4
  <2>3. x \in hits
    BY DEF Returned, ToSet
  <2>4. DOMAIN x = {"chunk", "words", "context", "allowed", "quality"} /\ IsFiniteSet(x.words) /\ x.quality \in Int
    BY <2>3 DEF Returned
  <2>5. PICK n \in Int : n = fusion_score(s, v, w, c)
    BY <1>4, <1>7
  <2>6. t[i] = WithScore(x, n)
    BY <2>1, <2>2, <2>5
  <2>7. /\ t[i].chunk = x.chunk /\ t[i].words = x.words /\ t[i].quality = x.quality /\ t[i].score = n
        /\ t[i].allowed = x.allowed
    <3>1. PICK y : y = t[i]
      OBVIOUS
    <3>. QED
      BY <2>4, <2>6, <3>1 DEF WithScore
  <2>8. MayBeServed(x)
    BY <2>1, <2>2 DEF FoundIn
  <2>9. MayBeServed(t[i])
    BY <2>7, <2>8 DEF MayBeServed
  <2>. QED
    BY <2>1, <2>2, <2>4, <2>5, <2>7, <2>9
<1>14. IsSequence(t) /\ Len(t) = k /\ DOMAIN t = 1..k
  <2>1. PICK g : g = [i \in 1..k |-> fused(i)]
    OBVIOUS
  <2>2. t = [i \in 1..k |-> g[i]]
    BY <2>1
  <2>3. IsSequence([i \in 1..k |-> g[i]]) /\ Len([i \in 1..k |-> g[i]]) = k
    BY ListedIsSequence
  <2>. QED
    BY <2>2, <2>3
<1>15. Serves(t, found, k)
  <2>1. ASSUME NEW i \in 1..k, NEW j \in 1..k, t[i].chunk = t[j].chunk PROVE i = j
    <3>1. i \in 1..m /\ j \in 1..m
      BY <1>11
    <3>2. order[i] = order[j]
      BY <1>13, <2>1
    <3>. QED
      BY <1>10, <3>1, <3>2
  <2>. QED
    BY <1>13, <1>14, <2>1 DEF Serves
<1>16. CanBeScored(t)
  <2>1. ASSUME NEW i \in DOMAIN t PROVE t[i].score \in Int /\ t[i].quality \in Int /\ IsFiniteSet(t[i].words)
    <3>1. i \in 1..k
      BY <1>14
    <3>. QED
      BY <1>13, <3>1, Zenon
  <2>. QED
    BY <2>1 DEF CanBeScored
<1>. QED
  BY <1>6, <1>11, <1>12, <1>15, <1>16

\* The larger of two numbers.
LEMMA MaxIsLarger ==
    ASSUME NEW a \in Int, NEW b \in Int
    PROVE  Max({a, b}) \in {a, b} /\ Max({a, b}) >= a /\ Max({a, b}) >= b
<1>1. Max({a, b}) = IF a >= b THEN a ELSE b
  BY MaxOfTwo
<1>. QED
  BY <1>1

\* The smaller of two numbers.
LEMMA MinIsSmaller ==
    ASSUME NEW a \in Int, NEW b \in Int
    PROVE  Min({a, b}) \in {a, b} /\ Min({a, b}) <= a /\ Min({a, b}) <= b
<1>1. Min({a, b}) = IF a <= b THEN a ELSE b
  BY MinOfTwo
<1>. QED
  BY <1>1

\* The largest of three numbers.
LEMMA MaxOfThree ==
    ASSUME NEW a \in Int, NEW b \in Int, NEW c \in Int
    PROVE  Max({a, b, c}) \in Int /\ Max({a, b, c}) >= a
<1>1. \E x \in {a, b, c} : \A y \in {a, b, c} : x >= y
  <2>1. CASE a >= b /\ a >= c
    BY <2>1
  <2>2. CASE b >= a /\ b >= c
    BY <2>2
  <2>3. CASE c >= a /\ c >= b
    BY <2>3
  <2>. QED
    BY <2>1, <2>2, <2>3
<1>2. Max({a, b, c}) \in {a, b, c} /\ \A y \in {a, b, c} : Max({a, b, c}) >= y
  BY <1>1 DEF Max
<1>. QED
  BY <1>2

\* A prompt has room for a hit, and the store is wanted for no fewer than it has
\* room for.
LEMMA StoreIsAskedForEnough ==
    ASSUME NEW q \in Searches
    PROVE  LET n == prompt_top_n(q.s, q.top_k)
           IN  /\ n \in Nat \ {0}
               /\ candidate_limit(q.s, n) \in Int
               /\ rerank_candidate_limit(q.s, n) \in Nat /\ n <= rerank_candidate_limit(q.s, n)
<1>1. PICK wanted \in Int, most \in Int, least \in Int, cap \in Int, hybrid \in Int, rerank \in Int, llm \in Int :
        /\ wanted = q.top_k /\ most = q.s.topn_max /\ least = q.s.topk_min /\ cap = q.s.topk_max
        /\ hybrid = q.s.hybrid /\ rerank = q.s.rerank /\ llm = q.s.llm_candidates
  BY SearchesAssumption
<1>2. PICK few \in Nat \ {0} : few = q.s.topn_min
  BY SearchesAssumption
<1>3. (few <= least \/ few <= cap) /\ (most <= least \/ most <= cap)
  BY <1>1, <1>2, SearchesAssumption
<1>4. PICK given \in Int : given = Min({wanted, most}) /\ given <= most
  <2>1. Min({wanted, most}) \in {wanted, most} /\ Min({wanted, most}) <= wanted /\ Min({wanted, most}) <= most
    BY wanted \in Int, most \in Int, MinIsSmaller, Zenon
  <2>2. Min({wanted, most}) = wanted \/ Min({wanted, most}) = most
    BY <2>1
  <2>. QED
    BY <2>1, <2>2
<1>5. PICK n \in Nat \ {0} : n = Max({few, given}) /\ (n = few \/ n = given)
  <2>1. few \in Int /\ given \in Int
    OBVIOUS
  <2>2. Max({few, given}) \in {few, given} /\ Max({few, given}) >= few /\ Max({few, given}) >= given
    BY <2>1, MaxIsLarger, Zenon
  <2>3. Max({few, given}) = few \/ Max({few, given}) = given
    BY <2>2
  <2>. QED
    BY <2>1, <2>2, <2>3
<1>6. n = prompt_top_n(q.s, q.top_k)
  BY <1>1, <1>2, <1>4, <1>5 DEF prompt_top_n
<1>7. n <= least \/ n <= cap
  BY <1>3, <1>4, <1>5
<1>8. PICK five \in Int : five = 5 * n /\ n <= five
  OBVIOUS
<1>9. PICK wide \in Int : wide = Max({five, hybrid}) /\ five <= wide
  <2>1. Max({five, hybrid}) \in {five, hybrid} /\ Max({five, hybrid}) >= five /\ Max({five, hybrid}) >= hybrid
    BY five \in Int, hybrid \in Int, MaxIsLarger, Zenon
  <2>2. Max({five, hybrid}) = five \/ Max({five, hybrid}) = hybrid
    BY <2>1
  <2>. QED
    BY <2>1, <2>2
<1>10. PICK fit \in Int : fit = Min({wide, cap}) /\ (fit = wide \/ fit = cap)
  <2>1. Min({wide, cap}) \in {wide, cap} /\ Min({wide, cap}) <= wide /\ Min({wide, cap}) <= cap
    BY wide \in Int, cap \in Int, MinIsSmaller, Zenon
  <2>2. Min({wide, cap}) = wide \/ Min({wide, cap}) = cap
    BY <2>1
  <2>. QED
    BY <2>1, <2>2
<1>11. PICK limit \in Int : limit = Max({least, fit}) /\ limit >= least /\ limit >= fit
  <2>1. least \in Int /\ fit \in Int
    OBVIOUS
  <2>2. Max({least, fit}) \in {least, fit} /\ Max({least, fit}) >= least /\ Max({least, fit}) >= fit
    BY <2>1, MaxIsLarger, Zenon
  <2>3. Max({least, fit}) = least \/ Max({least, fit}) = fit
    BY <2>2
  <2>. QED
    BY <2>1, <2>2, <2>3
<1>12. n <= limit
  BY <1>7, <1>8, <1>9, <1>10, <1>11
<1>13. limit = candidate_limit(q.s, n)
  BY <1>1, <1>8, <1>9, <1>10, <1>11 DEF candidate_limit
<1>14. rerank_candidate_limit(q.s, n) \in Int /\ rerank_candidate_limit(q.s, n) >= limit
  <2>1. CASE q.s.llm_enabled
    <3>1. {limit, rerank} \cup {llm} = {limit, rerank, llm}
      OBVIOUS
    <3>2. rerank_candidate_limit(q.s, n) = Max({limit, rerank, llm})
      BY <1>1, <1>13, <2>1, <3>1 DEF rerank_candidate_limit
    <3>. QED
      BY <3>2, MaxOfThree
  <2>2. CASE ~q.s.llm_enabled
    <3>1. {limit, rerank} \cup {} = {limit, rerank}
      OBVIOUS
    <3>2. rerank_candidate_limit(q.s, n) = Max({limit, rerank})
      BY <1>1, <1>13, <2>2, <3>1 DEF rerank_candidate_limit
    <3>. QED
      BY <3>2, MaxIsLarger
  <2>. QED
    BY <2>1, <2>2
<1>15. rerank_candidate_limit(q.s, n) \in Nat /\ n <= rerank_candidate_limit(q.s, n)
  BY <1>12, <1>14
<1>. QED
  BY <1>6, <1>13, <1>15

\* The first of a sequence.
LEMMA FirstPart ==
    ASSUME NEW S, NEW s \in Seq(S), NEW k \in Int
    PROVE  /\ SubSeq(s, 1, Min({Len(s), k})) \in Seq(S)
           /\ ToSet(SubSeq(s, 1, Min({Len(s), k}))) \subseteq ToSet(s)
<1>1. PICK l \in Nat : l = Len(s)
  OBVIOUS
<1>2. PICK m \in Int : m = Min({l, k}) /\ m <= l
  <2>1. l \in Int /\ k \in Int
    OBVIOUS
  <2>2. Min({l, k}) \in {l, k} /\ Min({l, k}) <= l /\ Min({l, k}) <= k
    BY <2>1, MinIsSmaller, Zenon
  <2>3. Min({l, k}) = l \/ Min({l, k}) = k
    BY <2>2
  <2>. QED
    BY <2>1, <2>2, <2>3
<1>3. SubSeq(s, 1, m) \in Seq(S)
  <2>1. ASSUME NEW i \in 1..m PROVE s[i] \in S
    BY <1>1, <1>2
  <2>2. 1 \in Int /\ m \in Int /\ \A i \in 1..m : s[i] \in S
    BY <2>1
  <2>. QED
    BY <2>2, SubSeqProperties, Zenon
<1>4. ToSet(SubSeq(s, 1, m)) \subseteq ToSet(s)
  <2>1. ASSUME NEW i \in DOMAIN SubSeq(s, 1, m) PROVE i \in 1..l /\ SubSeq(s, 1, m)[i] = s[i]
    BY <1>1, <1>2
  <2>2. DOMAIN s = 1..l
    BY <1>1
  <2>. QED
    BY <2>1, <2>2 DEF ToSet
<1>. QED
  BY <1>1, <1>2, <1>3, <1>4

\* What the store returns to a search are two lists of its hits.
LEMMA StoreReturns ==
    ASSUME NEW q \in Searches, NEW n, candidate_limit(q.s, n) \in Int
    PROVE  Returned(vector_search(q.vector, q.s, n), sparse_search(q.sparse, q.s, n),
                    ToSet(q.vector) \cup ToSet(q.sparse))
<1>. PICK hits : hits = ToSet(q.vector) \cup ToSet(q.sparse)
  OBVIOUS
<1>. PICK v, w : v = vector_search(q.vector, q.s, n) /\ w = sparse_search(q.sparse, q.s, n)
  OBVIOUS
<1>1. q.vector \in Seq(hits) /\ q.sparse \in Seq(hits)
  BY SearchesAssumption
<1>2. v \in Seq(hits)
  <2>1. PICK eight \in Int, limit \in Int : eight = 8 /\ limit = candidate_limit(q.s, n)
    OBVIOUS
  <2>2. PICK k \in Int : k = Max({limit, eight})
    BY MaxIsLarger
  <2>3. v = SubSeq(q.vector, 1, Min({Len(q.vector), k}))
    BY <2>1, <2>2 DEF vector_search
  <2>4. SubSeq(q.vector, 1, Min({Len(q.vector), k})) \in Seq(hits)
    BY <1>1, k \in Int, FirstPart, Zenon
  <2>. QED
    BY <2>3, <2>4
<1>3. w \in Seq(hits)
  <2>1. CASE q.s.sparse
    <3>1. PICK hybrid \in Int, limit \in Int : hybrid = q.s.hybrid /\ limit = candidate_limit(q.s, n)
      BY SearchesAssumption
    <3>2. PICK k \in Int : k = Max({limit, hybrid})
      BY MaxIsLarger
    <3>3. w = SubSeq(q.sparse, 1, Min({Len(q.sparse), k}))
      BY <2>1, <3>1, <3>2 DEF sparse_search
    <3>4. SubSeq(q.sparse, 1, Min({Len(q.sparse), k})) \in Seq(hits)
      BY <1>1, k \in Int, FirstPart, Zenon
    <3>. QED
      BY <3>3, <3>4
  <2>2. CASE ~q.s.sparse
    <3>1. w = <<>>
      BY <2>2 DEF sparse_search
    <3>. QED
      BY <3>1
  <2>. QED
    BY <2>1, <2>2
<1>4. \A x \in hits :
        /\ DOMAIN x = {"chunk", "words", "context", "allowed", "quality"}
        /\ IsFiniteSet(x.words) /\ x.quality \in Int
  BY SearchesAssumption
<1>5. Returned(v, w, hits)
  BY <1>2, <1>3, <1>4 DEF Returned
<1>. QED
  BY <1>5

\* The smaller of two numbers, cut once more.
LEMMA CutTwice ==
    ASSUME NEW m \in Nat, NEW wide \in Nat, NEW room \in Nat, room <= wide
    PROVE  Min({Min({m, wide}), room}) = Min({m, room}) /\ Min({m, room}) \in Nat
<1>1. PICK k \in Nat : k = Min({m, wide}) /\ k = IF m <= wide THEN m ELSE wide
  BY MinOfTwo
<1>2. Min({k, room}) = IF k <= room THEN k ELSE room
  BY MinOfTwo
<1>3. Min({m, room}) = IF m <= room THEN m ELSE room
  BY MinOfTwo
<1>. QED
  BY <1>1, <1>2, <1>3

\* The filter serves all hits, or fewer of them but some, and all of them when
\* the query names no fact.
LEMMA FilterServes ==
    ASSUME NEW items, NEW found, NEW m, Serves(items, found, m), NEW query
    PROVE  \E k \in Nat :
             /\ Serves(apply_key_fact_filter(query, items), found, k) /\ k <= m
             /\ m > 0 => k > 0
             /\ query \cap Facts = {} => k = m
<1>. PICK positions : positions = {i \in DOMAIN items : query \cap Facts \cap (items[i].words \cup items[i].context) # {}}
  OBVIOUS
<1>. PICK stating : stating = ItemsAt(items, positions)
  OBVIOUS
<1>1. m \in Nat /\ DOMAIN items = 1..m
  BY DEF Serves, IsSequence
<1>2. apply_key_fact_filter(query, items) = IF query \cap Facts = {} \/ stating = <<>> THEN items ELSE stating
  BY DEF apply_key_fact_filter
<1>3. CASE query \cap Facts = {} \/ stating = <<>>
  <2>1. apply_key_fact_filter(query, items) = items
    BY <1>2, <1>3
  <2>2. Serves(apply_key_fact_filter(query, items), found, m) /\ m <= m
    BY <1>1, <2>1
  <2>. QED
    BY <1>1, <2>2
<1>4. CASE ~(query \cap Facts = {} \/ stating = <<>>)
  <2>1. positions \subseteq 1..m
    BY <1>1
  <2>2. IsFiniteSet(positions) /\ Serves(stating, found, Cardinality(positions))
    BY <2>1, KeptServe, Zenon
  <2>3. PICK k \in Nat : k = Cardinality(positions)
    BY <2>2, FS_CardinalityType
  <2>4. Len(stating) = k /\ IsSequence(stating)
    BY <2>2, <2>3 DEF Serves
  <2>5. k > 0
    <3>1. k = 0 => stating = <<>>
      BY <2>4 DEF IsSequence
    <3>. QED
      BY <1>4, <3>1
  <2>6. k <= m
    <3>1. IsFiniteSet(1..m) /\ Cardinality(1..m) = IF 1 > m THEN 0 ELSE m - 1 + 1
      BY <1>1, FS_Interval, 1 \in Int, m \in Int, Zenon
    <3>2. Cardinality(positions) <= Cardinality(1..m)
      BY <2>1, <3>1, FS_Subset
    <3>. QED
      BY <1>1, <2>3, <3>1, <3>2
  <2>7. apply_key_fact_filter(query, items) = stating
    BY <1>2, <1>4
  <2>8. Serves(stating, found, k)
    BY <2>2, <2>3
  <2>. QED
    BY <1>4, <2>5, <2>6, <2>7, <2>8
<1>. QED
  BY <1>3, <1>4

\* Hits that are served have each a chunk of its own.
LEMMA ServedAreMany ==
    ASSUME NEW items, NEW found, NEW m, Serves(items, found, m)
    PROVE  LET served == {items[i].chunk : i \in DOMAIN items}
           IN  Cardinality(served) = m /\ served \subseteq found /\ \A i \in DOMAIN items : MayBeServed(items[i])
<1>1. m \in Nat /\ DOMAIN items = 1..m
  BY DEF Serves, IsSequence
<1>. PICK chunks : chunks = [i \in 1..m |-> items[i].chunk]
  OBVIOUS
<1>. PICK served : served = {items[i].chunk : i \in DOMAIN items}
  OBVIOUS
<1>2. chunks \in Seq(found) /\ Len(chunks) = m
  <2>1. ASSUME NEW i \in 1..m PROVE chunks[i] \in found
    BY DEF Serves
  <2>2. chunks \in [1..m -> found]
    BY <2>1
  <2>. QED
    BY <1>1, <2>2
<1>3. ToSet(chunks) = served
  BY <1>1 DEF ToSet
<1>4. ASSUME NEW i \in 1..Len(chunks), NEW j \in 1..Len(chunks), chunks[i] = chunks[j] PROVE i = j
  BY <1>2, <1>4 DEF Serves
<1>5. Cardinality(ToSet(chunks)) = Len(chunks)
  BY <1>2, <1>4, DistinctAreMany
<1>6. Cardinality(served) = m
  BY <1>2, <1>3, <1>5
<1>7. served \subseteq found /\ \A i \in DOMAIN items : MayBeServed(items[i])
  BY <1>1 DEF Serves
<1>. QED
  BY <1>6, <1>7

\* What a search serves before the filter of its facts: all it may, as far as
\* there is room.
LEMMA HitsServe ==
    ASSUME NEW q \in Searches, NEW n \in Nat \ {0}, n = prompt_top_n(q.s, q.top_k),
           NEW v, v = vector_search(q.vector, q.s, n), NEW w, w = sparse_search(q.sparse, q.s, n)
    PROVE  \E hits : \E room \in 1..n :
             /\ IsFiniteSet(FoundIn(v, w))
             /\ search(q.s, q) = apply_key_fact_filter(q.words, hits)
             /\ Serves(hits, FoundIn(v, w), Min({Cardinality(FoundIn(v, w)), room}))
             /\ room = IF q.s.enable_rerank THEN Room(q.s, q.answer, n) ELSE n
<1>. PICK points : points = ToSet(q.vector) \cup ToSet(q.sparse)
  OBVIOUS
<1>. PICK wide \in Nat : wide = rerank_candidate_limit(q.s, n) /\ n <= wide
  BY StoreIsAskedForEnough
<1>1. Returned(v, w, points)
  BY StoreIsAskedForEnough, StoreReturns
<1>2. q.s.rrf_k \in Int /\ Unit \in Int
  BY SearchesAssumption
<1>3. ASSUME NEW k \in Nat
      PROVE  /\ IsFiniteSet(FoundIn(v, w))
             /\ Serves(fuse_hybrid(q.s, v, w, k), FoundIn(v, w), Min({Cardinality(FoundIn(v, w)), k}))
             /\ CanBeScored(fuse_hybrid(q.s, v, w, k))
  BY <1>1, <1>2, k \in Nat, FusionServes, Zenon
<1>4. IsFiniteSet(FoundIn(v, w))
  BY <1>3, n \in Nat
<1>. PICK m \in Nat : m = Cardinality(FoundIn(v, w))
  BY <1>4, FS_CardinalityType
<1>5. CASE q.s.enable_rerank
  <2>1. PICK items : items = fuse_hybrid(q.s, v, w, wide)
    OBVIOUS
  <2>2. Serves(items, FoundIn(v, w), Min({m, wide})) /\ CanBeScored(items)
    BY <1>3, <2>1
  <2>3. PICK k : k = Min({m, wide})
    OBVIOUS
  <2>4. PICK hits : hits = rerank_hits_with_optional_llm(q.s, q.words, items, q.answer, q.model, n)
    OBVIOUS
  <2>5. /\ IsFiniteSet(q.words) /\ q.s.llm_candidates \in Int /\ q.s.llm_top_k \in Int
        /\ q.answer # Unavailable => IsSequence(q.answer)
        /\ q.model # Unavailable => IsSequence(q.model)
    BY SearchesAssumption
  <2>6. Room(q.s, q.answer, n) \in 1..n /\ Serves(hits, FoundIn(v, w), Min({k, Room(q.s, q.answer, n)}))
    <3>1. Serves(items, FoundIn(v, w), k)
      BY <2>2, <2>3
    <3>. QED
      BY <1>2, <2>2, <2>4, <2>5, <3>1, n \in Nat \ {0}, RerankedServe, Zenon
  <2>7. PICK room \in 1..n : room = Room(q.s, q.answer, n)
    BY <2>6
  <2>8. Min({k, room}) = Min({m, room})
    <3>1. room \in Nat /\ room <= wide
      OBVIOUS
    <3>. QED
      BY <2>3, <3>1, CutTwice
  <2>9. search(q.s, q) = apply_key_fact_filter(q.words, hits)
    BY <1>5, <2>1, <2>4 DEF search
  <2>10. Serves(hits, FoundIn(v, w), Min({m, room}))
    BY <2>6, <2>7, <2>8
  <2>. QED
    BY <1>4, <1>5, <2>7, <2>9, <2>10
<1>6. CASE ~q.s.enable_rerank
  <2>1. PICK hits : hits = fuse_hybrid(q.s, v, w, n)
    OBVIOUS
  <2>2. Serves(hits, FoundIn(v, w), Min({m, n}))
    BY <1>3, <2>1
  <2>3. search(q.s, q) = apply_key_fact_filter(q.words, hits)
    BY <1>6, <2>1 DEF search
  <2>4. n \in 1..n
    OBVIOUS
  <2>. QED
    BY <1>4, <1>6, <2>2, <2>3, <2>4
<1>. QED
  BY <1>5, <1>6

\* The chunks whose last point of the two lists may be served.
LastIn(v, w) ==
    LET both == v \o w
        last(i) == \A j \in DOMAIN both : both[j].chunk = both[i].chunk => j <= i
    IN  {both[i].chunk : i \in {k \in DOMAIN both : last(k) /\ MayBeServed(both[k])}}

\* They are those whose payload may be served.
LEMMA LastIsPayload ==
    ASSUME NEW v, NEW w, NEW hits, Returned(v, w, hits)
    PROVE  LastIn(v, w) = FoundIn(v, w)
<1>. PICK l \in Nat, n \in Nat : l = Len(v) /\ n = Len(w)
  BY DEF Returned
<1>. PICK both : both = v \o w
  OBVIOUS
<1>1. DOMAIN v = 1..l /\ DOMAIN w = 1..n
  BY DEF Returned
<1>2. /\ DOMAIN both = 1..(l + n)
      /\ \A i \in 1..l : both[i] = v[i]
      /\ \A i \in 1..n : both[l + i] = w[i]
  <2>1. v \in Seq(hits) /\ w \in Seq(hits)
    BY DEF Returned
  <2>2. /\ both \in Seq(hits) /\ Len(both) = l + n
        /\ \A i \in 1..(l + n) : both[i] = IF i <= l THEN v[i] ELSE w[i - l]
    BY <2>1, Joined
  <2>3. \A i \in 1..n : l + i \in 1..(l + n) /\ ~(l + i <= l) /\ (l + i) - l = i
    OBVIOUS
  <2>. QED
    BY <2>2, <2>3
<1>. DEFINE last(i) == \A j \in 1..(l + n) : both[j].chunk = both[i].chunk => j <= i
            place(c) == IF RankOf(w, c) # 0 THEN l + RankOf(w, c) ELSE RankOf(v, c)
<1>3. ASSUME NEW c, c \in {x.chunk : x \in ToSet(v) \cup ToSet(w)}
      PROVE  /\ place(c) \in 1..(l + n) /\ both[place(c)] = Payload(v, w, c) /\ both[place(c)].chunk = c
             /\ \A j \in 1..(l + n) : both[j].chunk = c => j <= place(c)
  <2>1. /\ RankOf(v, c) \in 0..l /\ (RankOf(v, c) # 0 => v[RankOf(v, c)].chunk = c)
        /\ RankOf(v, c) = 0 => \A i \in 1..l : v[i].chunk # c
        /\ \A i \in 1..l : v[i].chunk = c => i <= RankOf(v, c)
    BY <1>1, RankIsPosition
  <2>2. /\ RankOf(w, c) \in 0..n /\ (RankOf(w, c) # 0 => w[RankOf(w, c)].chunk = c)
        /\ RankOf(w, c) = 0 => \A i \in 1..n : w[i].chunk # c
        /\ \A i \in 1..n : w[i].chunk = c => i <= RankOf(w, c)
    BY <1>1, RankIsPosition
  <2>3. \A j \in 1..(l + n) : j \in 1..l \/ (j - l \in 1..n /\ l + (j - l) = j)
    OBVIOUS
  <2>4. \A j \in 1..(l + n) : \/ j \in 1..l /\ both[j] = v[j]
                              \/ j - l \in 1..n /\ both[j] = w[j - l]
    BY <1>2, <2>3
  <2>5. CASE RankOf(w, c) # 0
    <3>1. PICK rank \in 1..n : rank = RankOf(w, c)
      BY <2>2, <2>5
    <3>2. place(c) = l + rank /\ l + rank \in 1..(l + n) /\ both[l + rank] = w[rank]
      BY <1>2, <2>5, <3>1
    <3>3. Payload(v, w, c) = w[rank] /\ w[rank].chunk = c
      BY <2>2, <2>5, <3>1 DEF Payload
    <3>4. ASSUME NEW j \in 1..(l + n), both[j].chunk = c PROVE j <= l + rank
      <4>1. j - l \in 1..n => w[j - l].chunk # c \/ j - l <= rank
        BY <2>2, <3>1
      <4>. QED
        BY <2>4, <3>4, <4>1
    <3>. QED
      BY <3>2, <3>3, <3>4
  <2>6. CASE RankOf(w, c) = 0
    <3>1. RankOf(v, c) # 0
      BY <1>1, <1>3, <2>1, <2>2, <2>6 DEF ToSet
    <3>2. PICK rank \in 1..l : rank = RankOf(v, c)
      BY <2>1, <3>1
    <3>3. place(c) = rank /\ rank \in 1..(l + n) /\ both[rank] = v[rank]
      BY <1>2, <2>6, <3>2
    <3>4. Payload(v, w, c) = v[rank] /\ v[rank].chunk = c
      BY <2>1, <2>6, <3>2 DEF Payload
    <3>5. ASSUME NEW j \in 1..(l + n), both[j].chunk = c PROVE j <= rank
      BY <2>1, <2>2, <2>4, <2>6, <3>2, <3>5
    <3>. QED
      BY <3>3, <3>4, <3>5
  <2>. QED
    BY <2>5, <2>6
<1>4. \A i \in 1..(l + n) : both[i].chunk \in {x.chunk : x \in ToSet(v) \cup ToSet(w)}
  <2>1. \A i \in 1..l : v[i] \in ToSet(v)
    BY <1>1 DEF ToSet
  <2>2. \A i \in 1..n : w[i] \in ToSet(w)
    BY <1>1 DEF ToSet
  <2>3. \A j \in 1..(l + n) : j \in 1..l \/ (j - l \in 1..n /\ l + (j - l) = j)
    OBVIOUS
  <2>. QED
    BY <1>2, <2>1, <2>2, <2>3
<1>. HIDE DEF place
<1>5. ASSUME NEW i \in 1..(l + n), last(i), NEW c, c = both[i].chunk PROVE i = place(c)
  <2>1. place(c) \in 1..(l + n) /\ both[place(c)].chunk = c /\ i <= place(c)
    BY <1>3, <1>4, <1>5
  <2>2. place(c) <= i
    BY <1>5, <2>1
  <2>. QED
    BY <2>1, <2>2
<1>6. LastIn(v, w) = {both[i].chunk : i \in {k \in 1..(l + n) : last(k) /\ MayBeServed(both[k])}}
  BY <1>2 DEF LastIn
<1>7. ASSUME NEW c \in LastIn(v, w) PROVE c \in FoundIn(v, w)
  <2>1. PICK i \in 1..(l + n) : last(i) /\ MayBeServed(both[i]) /\ c = both[i].chunk
    BY <1>6
  <2>2. i = place(c)
    BY <1>5, <2>1
  <2>. QED
    BY <1>3, <1>4, <2>1, <2>2 DEF FoundIn
<1>8. ASSUME NEW c \in FoundIn(v, w) PROVE c \in LastIn(v, w)
  <2>1. c \in {x.chunk : x \in ToSet(v) \cup ToSet(w)} /\ MayBeServed(Payload(v, w, c))
    BY DEF FoundIn
  <2>2. PICK i \in 1..(l + n) : i = place(c)
    BY <1>3, <2>1
  <2>3. MayBeServed(both[i]) /\ both[i].chunk = c /\ last(i)
    BY <1>3, <2>1, <2>2
  <2>. QED
    BY <1>6, <2>3
<1>. QED
  BY <1>7, <1>8

\* What SearchServesAllowed says of one question.
SearchOk(q) ==
    LET n == prompt_top_n(q.s, q.top_k)
        hits == search(q.s, q)
        served == {hits[i].chunk : i \in DOMAIN hits}
        both == vector_search(q.vector, q.s, n) \o sparse_search(q.sparse, q.s, n)
        may(x) == x.allowed /\ x.words # {}
        last(i) == \A j \in DOMAIN both : both[j].chunk = both[i].chunk => j <= i
        found == {both[i].chunk : i \in {k \in DOMAIN both : last(k) /\ may(both[k])}}
        ranks == q.s.enable_rerank /\ q.s.llm_enabled /\ q.answer \notin {Unavailable, <<>>}
        room == IF ranks THEN Max({1, Min({n, q.s.llm_top_k})}) ELSE n
    IN  /\ Cardinality(served) = Len(hits) /\ served \subseteq found /\ Len(hits) <= n
        /\ \A i \in DOMAIN hits : may(hits[i])
        /\ Cardinality(found) > 0 => Len(hits) > 0
        /\ q.words \cap Facts = {} => Len(hits) = Min({room, Cardinality(found)})

\* It is so of every question.
LEMMA SearchIsOk ==
    ASSUME NEW q \in Searches
    PROVE  SearchOk(q)
<1>. DEFINE n == prompt_top_n(q.s, q.top_k)
            v == vector_search(q.vector, q.s, n)
            w == sparse_search(q.sparse, q.s, n)
            hits == search(q.s, q)
            served == {hits[i].chunk : i \in DOMAIN hits}
            found == FoundIn(v, w)
            ranks == q.s.enable_rerank /\ q.s.llm_enabled /\ q.answer \notin {Unavailable, <<>>}
            most == IF ranks THEN Max({1, Min({n, q.s.llm_top_k})}) ELSE n
<1>00. LastIn(v, w) = found
  BY StoreIsAskedForEnough, StoreReturns, LastIsPayload
<1>0. SearchOk(q)
        <=> /\ Cardinality(served) = Len(hits) /\ served \subseteq found /\ Len(hits) <= n
            /\ \A i \in DOMAIN hits : MayBeServed(hits[i])
            /\ Cardinality(found) > 0 => Len(hits) > 0
            /\ q.words \cap Facts = {} => Len(hits) = Min({most, Cardinality(found)})
  <2>1. SearchOk(q)
          <=> /\ Cardinality(served) = Len(hits) /\ served \subseteq LastIn(v, w) /\ Len(hits) <= n
              /\ \A i \in DOMAIN hits : MayBeServed(hits[i])
              /\ Cardinality(LastIn(v, w)) > 0 => Len(hits) > 0
              /\ q.words \cap Facts = {} => Len(hits) = Min({most, Cardinality(LastIn(v, w))})
    BY DEF SearchOk, LastIn, MayBeServed
  <2>. HIDE DEF found, n, hits, v, w, served, most
  <2>. QED
    BY <1>00, <2>1
<1>0a. n \in Nat \ {0}
  BY StoreIsAskedForEnough
<1>1. \E items : \E room \in 1..n :
        /\ IsFiniteSet(FoundIn(v, w))
        /\ search(q.s, q) = apply_key_fact_filter(q.words, items)
        /\ Serves(items, FoundIn(v, w), Min({Cardinality(FoundIn(v, w)), room}))
        /\ room = IF q.s.enable_rerank THEN Room(q.s, q.answer, n) ELSE n
  BY <1>0a, HitsServe, Zenon
<1>1a. PICK items : \E room \in 1..n :
         /\ IsFiniteSet(found)
         /\ search(q.s, q) = apply_key_fact_filter(q.words, items)
         /\ Serves(items, found, Min({Cardinality(found), room}))
         /\ room = IF q.s.enable_rerank THEN Room(q.s, q.answer, n) ELSE n
  BY <1>1
<1>2. PICK room \in 1..n :
         /\ IsFiniteSet(found)
         /\ search(q.s, q) = apply_key_fact_filter(q.words, items)
         /\ Serves(items, found, Min({Cardinality(found), room}))
         /\ room = IF q.s.enable_rerank THEN Room(q.s, q.answer, n) ELSE n
  BY <1>1a
<1>. PICK m \in Nat : m = Cardinality(found)
  BY <1>2, FS_CardinalityType
<1>3. PICK least \in Nat : least = Min({m, room}) /\ least = IF m <= room THEN m ELSE room
  BY MinOfTwo
<1>3a. Cardinality(found) = m
  OBVIOUS
<1>. HIDE DEF found, v, w, n
<1>4. Serves(items, found, least)
  BY <1>2, <1>3
<1>5. PICK k \in Nat :
         /\ Serves(hits, found, k) /\ k <= least
         /\ least > 0 => k > 0
         /\ q.words \cap Facts = {} => k = least
  BY <1>2, <1>4, FilterServes
<1>6. /\ Cardinality(served) = k /\ served \subseteq found /\ Len(hits) = k
      /\ \A i \in DOMAIN hits : MayBeServed(hits[i])
  <2>1. Serves(hits, found, k)
    BY <1>5
  <2>2. Len(hits) = k
    BY <2>1 DEF Serves
  <2>3. Cardinality(served) = k /\ served \subseteq found /\ \A i \in DOMAIN hits : MayBeServed(hits[i])
    BY <2>1, ServedAreMany, Zenon
  <2>. QED
    BY <2>2, <2>3
<1>. HIDE DEF hits, served
<1>7. k <= n /\ (m > 0 => k > 0)
  BY <1>0a, <1>3, <1>5
<1>8. room = most
  <2>1. CASE q.s.enable_rerank
    BY <1>2, <2>1 DEF Room
  <2>2. CASE ~q.s.enable_rerank
    BY <1>2, <2>2
  <2>. QED
    BY <2>1, <2>2
<1>. HIDE DEF most
<1>9. q.words \cap Facts = {} => k = Min({most, m})
  <2>1. {most, m} = {m, room}
    BY <1>8
  <2>. QED
    BY <1>3, <1>5, <2>1
<1>10. /\ Cardinality(served) = Len(hits) /\ served \subseteq found /\ Len(hits) <= n
       /\ \A i \in DOMAIN hits : MayBeServed(hits[i])
  BY <1>6, <1>7
<1>11. Cardinality(found) > 0 => Len(hits) > 0
  BY <1>3a, <1>6, <1>7
<1>12. q.words \cap Facts = {} => Len(hits) = Min({most, Cardinality(found)})
  BY <1>3a, <1>6, <1>9
<1>. QED
  BY <1>0, <1>10, <1>11, <1>12

\* Whatever the settings, the lists the store returns and what the models answer, a
\* search serves each chunk once, only what may be served, no more than there is
\* room for, and loses, of what it has room for, only what shares its id with a
\* later point that may not be served
\* (qdrant_store.search, _fuse_hybrid, _llm_rerank_hits, _apply_key_fact_filter).
THEOREM SearchesServeAllowed == Questions => []SearchServesAllowed
<1>1. AskedInv => SearchServesAllowed
  <2>1. ASSUME NEW q \in Searches PROVE SearchOk(q)
    BY SearchIsOk
  <2>. QED
    BY <2>1 DEF AskedInv, SearchServesAllowed, Answers, SearchOk
<1>. QED
  BY <1>1, AskedHolds, PTL
=============================================================================
