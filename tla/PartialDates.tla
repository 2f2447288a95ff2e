---------------------------- MODULE PartialDates ----------------------------
(***************************************************************************)
(* The dates of the analysis.  A candidate carries dates as the document   *)
(* wrote them: a year, a year and month or a full day, with dashes or      *)
(* (as the quality guards write them) with dots, a word such as "present", *)
(* or a text that is no date.  Confirmed rows carry full days.  The diff   *)
(* engine, the project matcher and the confirm step read them with three   *)
(* different parsers, all of them defined here.                            *)
(***************************************************************************)
EXTENDS Naturals, Sequences, SequencesExt

CONSTANT Null     \* None

\* p is <<year>>, <<year, month>> or <<year, month, day>>.
Dash(p) == [form |-> "dash", p |-> p]         \* 2020-07
Dot(p)  == [form |-> "dot",  p |-> p]         \* 2020.07, 2020년 7월
Ongoing  == [form |-> "ongoing",  p |-> <<>>] \* 현재, present: of a job or a project
Employed == [form |-> "employed", p |-> <<>>] \* 재직중, current: of a job only
Underway == [form |-> "underway", p |-> <<>>] \* 진행중: of a project only
Junk     == [form |-> "junk",     p |-> <<>>] \* any other text

-----------------------------------------------------------------------------
(* The diff engine's reading *)

\* parse_date_parts knows dashes only.
HasParts(d) == d.form = "dash"

PartsAgree(a, b) == IsPrefix(a.p, b.p) \/ IsPrefix(b.p, a.p)

\* Compatibility that asks for one spelling of the whole date.
DatesEqual(a, b) == Null \in {a, b} \/ a = b

\* dates_compatible
DatesCompatible(a, b) ==
  \/ Null \in {a, b}
  \/ IF HasParts(a) /\ HasParts(b) THEN PartsAgree(a, b) ELSE a = b

\* is_ongoing_end_marker, is_ongoing_project_end_marker
IsOngoingEnd(d) == d # Null /\ d.form \in {"ongoing", "employed"}
IsOngoingProjectEnd(d) == d # Null /\ d.form \in {"ongoing", "underway"}

EmploymentEndKey(d) == IF IsOngoingEnd(d) THEN Null ELSE d

EmploymentEndsCompatible(a, b) ==
  IsOngoingEnd(a) \/ IsOngoingEnd(b) \/ DatesCompatible(a, b)

-----------------------------------------------------------------------------
(* The project matcher's reading: dots are folded into dashes *)

HasProjectParts(d) == d # Null /\ d.form \in {"dash", "dot"}

ProjectDateKey(d) == IF HasProjectParts(d) THEN Dash(d.p) ELSE d

\* _project_date_precision_compatible: the same key, or a candidate month that
\* contains the existing day; a year alone is never enough and a candidate day
\* is never shrunk to a month.
PrecisionCompatible(cand, existing) ==
  \/ ProjectDateKey(cand) = ProjectDateKey(existing)
  \/ /\ HasProjectParts(cand) /\ HasProjectParts(existing)
     /\ Len(cand.p) >= 2 /\ IsPrefix(cand.p, existing.p)

HasMonth(d) == HasProjectParts(d) /\ Len(d.p) >= 2

MonthOrdinal(d) == d.p[1] * 12 + d.p[2]

PeriodsOverlap(cs, ce, rs, re) ==
  /\ \A d \in {cs, ce, rs, re} : HasMonth(d)
  /\ MonthOrdinal(cs) <= MonthOrdinal(ce) /\ MonthOrdinal(rs) <= MonthOrdinal(re)
  /\ MonthOrdinal(cs) <= MonthOrdinal(re) /\ MonthOrdinal(rs) <= MonthOrdinal(ce)

-----------------------------------------------------------------------------
(* The confirm step's reading *)

LastDay(y, m) ==
  CASE m \in {4, 6, 9, 11} -> 30
    [] m = 2 -> IF y % 4 = 0 /\ (y % 100 # 0 \/ y % 400 = 0) THEN 29 ELSE 28
    [] OTHER -> 31

\* parse_partial_date: dashes and dots, and the day must exist.
Confirmable(d) ==
  /\ d.form \in {"dash", "dot"}
  /\ Len(d.p) = 3 => d.p[3] <= LastDay(d.p[1], d.p[2])

\* normalize_confirmed_date: a partial date becomes its first or its last day.
FirstDayOf(d) ==
  Dash(<<d.p[1], IF Len(d.p) > 1 THEN d.p[2] ELSE 1, IF Len(d.p) > 2 THEN d.p[3] ELSE 1>>)

LastDayOf(d) ==
  LET m == IF Len(d.p) > 1 THEN d.p[2] ELSE 12
  IN  Dash(<<d.p[1], m, IF Len(d.p) > 2 THEN d.p[3] ELSE LastDay(d.p[1], m)>>)

Bounded(field, d) == IF field = "end" THEN LastDayOf(d) ELSE FirstDayOf(d)

DayOrdinal(d) == d.p[1] * 10000 + d.p[2] * 100 + d.p[3]

\* assert_date_order
InOrder(start, end) ==
  Null \in {start, end} \/ DayOrdinal(start) <= DayOrdinal(end)

=============================================================================
