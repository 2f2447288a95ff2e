----------------------------- MODULE DiffEngine -----------------------------
(***************************************************************************)
(* build_diffs: what an analysis proposes to a reviewer.  The candidate    *)
(* that was extracted from the documents is compared with the confirmed    *)
(* profile, item by item, and every item becomes one diff (or one per      *)
(* changed field): NEW, SAME, UPDATE (fills a null), CONFLICT (differs     *)
(* from a confirmed value) or REVIEW (a person must decide what it is).    *)
(*                                                                         *)
(* The three career entities and projects share one row shape:             *)
(*   name  company / school / certification / project name                 *)
(*   sub   title / degree / issuer / customer                              *)
(*   start start_date or acquired_date,   end end_date or expiry_date      *)
(* A confirmed profile is a record                                         *)
(*   scalars  PersonProfile columns     jobs   set of <<code, job_type>>   *)
(*   skills   tech_code -> metadata     exps   exp_code -> evidence_type   *)
(*   rows     entity -> (id -> row)     rels   project id -> relations     *)
(*   nextId   the next unused row id                                       *)
(***************************************************************************)
EXTENDS PartialDates

CONSTANTS
  Fold,        \* a name or customer without its whitespace
  Alike,       \* pairs of folded project names that are spellings of one name
  MonthsOf,    \* career_document_value -> the months it states, or Null
  Canonical    \* the career_document_value texts already in canonical form

Entities   == {"EMPLOYMENT", "EDUCATION", "CERTIFICATION", "PROJECT"}
RowFields  == <<"name", "sub", "start", "end">>
DateFields == {"start", "end"}
RelationKinds == {"jobs", "skills", "expertise", "business_domains", "customer_types"}

\* No row has None for an id, and no field or entity for a name.
ASSUME NullAssumption ==
  Null \notin Nat \cup Entities \cup Range(RowFields) \cup RelationKinds
            \cup {"career_start_date", "career_confirmed_months"}

\* One persisted AnalysisDiffItem.  idx is the candidate item it came from, item
\* the position of a project relation; field and target are Null for a root.
Diff(entity, idx, change, new, refs) ==
  [entity |-> entity, idx |-> idx, item |-> 0, field |-> Null, target |-> Null,
   change |-> change, old |-> Null, new |-> new, refs |-> refs,
   status |-> "PENDING", decided |-> Null]

IsList(s) == Len(s) \in Nat /\ s = [i \in 1..Len(s) |-> s[i]]

\* The shape of a confirmed profile: whole rows under the numbers before the next
\* one, and relations for just its projects.
IsProfile(p) ==
  /\ DOMAIN p = {"scalars", "jobs", "skills", "exps", "rows", "rels", "nextId"}
  /\ DOMAIN p.rows = Entities
  /\ \A e \in Entities : \A id \in DOMAIN p.rows[e] : DOMAIN p.rows[e][id] = Range(RowFields)
  /\ DOMAIN p.rels = DOMAIN p.rows["PROJECT"]
  /\ p.nextId \in Nat
  /\ \A e \in Entities : \A id \in DOMAIN p.rows[e] : id \in Nat /\ id < p.nextId

\* A date in figures has one to three parts.
WholeDate(d) == d # Null /\ HasParts(d) => IsList(d.p) /\ Len(d.p) \in 1..3

\* What was extracted, with its evidence.
IsFound(x) == DOMAIN x = {"val", "refs"}

IsScalar(x) == DOMAIN x = {"field", "val", "refs"} /\ x.field # Null

IsItem(x) ==
  /\ IsFound(x) /\ Range(RowFields) \subseteq DOMAIN x.val
  /\ WholeDate(x.val.start) /\ WholeDate(x.val.end)

\* The shape of a candidate: lists of items, and of relations in its projects.
IsCandidate(c) ==
  /\ DOMAIN c = {"scalars", "jobs", "skills", "exps", "rows"} /\ DOMAIN c.rows = Entities
  /\ IsList(c.scalars) /\ \A k \in DOMAIN c.scalars : IsScalar(c.scalars[k])
  /\ IsList(c.jobs) /\ IsList(c.skills) /\ IsList(c.exps)
  /\ \A x \in Range(c.jobs) \cup Range(c.skills) \cup Range(c.exps) : IsFound(x)
  /\ \A e \in Entities : IsList(c.rows[e]) /\ \A k \in DOMAIN c.rows[e] : IsItem(c.rows[e][k])
  /\ \A k \in DOMAIN c.rows["PROJECT"] : IsList(c.rows["PROJECT"][k].val.rels)

\* The elements for which Holds, in order.
Filter(s, Holds(_)) == FlattenSeq([k \in 1..Len(s) |-> IF Holds(s[k]) THEN <<s[k]>> ELSE <<>>])

\* All the diffs of a sequence of items, in order.
DiffsOfEach(items, Op(_, _)) == FlattenSeq([i \in 1..Len(items) |-> Op(items[i], i)])

-----------------------------------------------------------------------------
(* Profile scalars *)

SameScalar(field, old, new) ==
  IF field = "name" THEN old # Null /\ Fold[old] = Fold[new] ELSE old = new

\* _career_document_value_change: a noisy confirmed text may be replaced by the
\* same duration in canonical form.
CleansUp(old, new) == MonthsOf[old] # Null /\ MonthsOf[old] = MonthsOf[new] /\ new \in Canonical

ScalarChange(field, old, new) ==
  IF SameScalar(field, old, new) THEN "SAME"
  ELSE IF old = Null THEN "NEW"
  ELSE IF field = "career_document_value" /\ CleansUp(old, new) THEN "UPDATE"
  ELSE "CONFLICT"

ScalarDiff(field, old, item) ==
  [Diff("PROFILE", 0, ScalarChange(field, old, item.val), item.val, item.refs)
     EXCEPT !.field = field, !.old = old]

\* career_confirmed_months is derived from the document's own total, with the
\* evidence of that total.
DerivedMonths(scalars) ==
  LET Derive(s) == IF s.field = "career_document_value" /\ MonthsOf[s.val] # Null
                   THEN <<[s EXCEPT !.field = "career_confirmed_months", !.val = MonthsOf[s.val]]>>
                   ELSE <<>>
  IN  FlattenSeq([i \in 1..Len(scalars) |-> Derive(scalars[i])])

\* _diff_profile_scalars: the candidate's non-null fields, in order.
ScalarDiffs(scalars, profile) ==
  LET all == scalars \o DerivedMonths(scalars)
  IN  [i \in 1..Len(all) |-> ScalarDiff(all[i].field, profile.scalars[all[i].field], all[i])]

-----------------------------------------------------------------------------
(* Codes: jobs, skills and expertise are matched by code only *)

CodeChange(code, known, same, unlike) ==
  IF code = Null THEN "REVIEW" ELSE IF ~known THEN "NEW" ELSE IF same THEN "SAME" ELSE unlike

JobDiff(job, i, jobs) ==
  LET known == <<job.val.code, job.val.type>> \in jobs
  IN  [Diff("JOB", i, CodeChange(job.val.code, known, TRUE, "SAME"), job.val, job.refs)
         EXCEPT !.old = IF known THEN job.val ELSE Null]

\* A person has a skill or an expertise at most once; unlike is the change when
\* the code is known with other data.
CodedDiff(entity, item, i, known, data, unlike) ==
  LET code   == item.val.code
      old    == IF code \in DOMAIN known THEN known[code] ELSE Null
      change == CodeChange(code, code \in DOMAIN known, old = data, unlike)
  IN  [Diff(entity, i, change, item.val, item.refs) EXCEPT !.old = old]

SkillDiff(skill, i, skills) == CodedDiff("TECH", skill, i, skills, skill.val.meta, "UPDATE")

ExpertiseDiff(exp, i, exps) == CodedDiff("EXP", exp, i, exps, exp.val.evidence, "REVIEW")

-----------------------------------------------------------------------------
(* Employment, education and certification records *)

NaturalKey(entity, r) ==
  CASE entity = "EMPLOYMENT"    -> <<r.name, r.start, EmploymentEndKey(r.end)>>
    [] entity = "EDUCATION"     -> <<r.name, r.sub, r.start, r.end>>
    [] entity = "CERTIFICATION" -> <<r.name, r.sub, r.start>>

OptionalAgree(a, b) == Null \in {a, b} \/ a = b

\* _employment_similar, _education_similar, _certification_similar
Similar(entity, cand, r) ==
  /\ cand.name = r.name
  /\ DatesCompatible(cand.start, r.start)
  /\ CASE entity = "EMPLOYMENT"    -> EmploymentEndsCompatible(cand.end, r.end)
       [] entity = "EDUCATION"     -> /\ OptionalAgree(cand.sub, r.sub)
                                      /\ DatesCompatible(cand.end, r.end)
       [] entity = "CERTIFICATION" -> OptionalAgree(cand.sub, r.sub)

\* employment_candidate_dates_need_review: a present date that the confirm step
\* would not take, or a period that ends before it starts.
DatesNeedReview(cand) ==
  \/ cand.start # Null /\ (IsOngoingEnd(cand.start) \/ ~Confirmable(cand.start))
  \/ cand.end # Null /\ ~IsOngoingEnd(cand.end) /\ ~Confirmable(cand.end)
  \/ /\ Null \notin {cand.start, cand.end} /\ ~IsOngoingEnd(cand.end)
     /\ Confirmable(cand.start) /\ Confirmable(cand.end)
     /\ ~InOrder(FirstDayOf(cand.start), LastDayOf(cand.end))

\* _compare_fields: a null in the candidate never changes anything.
Changes(old, cand, f) == cand[f] # Null /\ old[f] # cand[f]

ChangedFields(old, cand) == Filter(RowFields, LAMBDA f : Changes(old, cand, f))

FieldChange(old, f) == IF old[f] = Null THEN "UPDATE" ELSE "CONFLICT"

FieldDiffs(entity, i, id, old, cand, fields) ==
  [k \in 1..Len(fields) |->
     [Diff(entity, i, FieldChange(old, fields[k]), cand.val[fields[k]], cand.refs)
        EXCEPT !.field = fields[k], !.target = id, !.old = old[fields[k]]]]

RootDiff(entity, i, change, cand, target) ==
  [Diff(entity, i, change, cand.val, cand.refs) EXCEPT !.target = target]

TheOnly(S) == IF Cardinality(S) = 1 THEN CHOOSE x \in S : TRUE ELSE Null

\* A unique similar school that only lacks values is filled in without review.
FillsOnly(entity, old, cand) ==
  entity = "EDUCATION" /\ \A f \in Range(ChangedFields(old, cand)) : FieldChange(old, f) = "UPDATE"

\* A diff per changed field of the linked row, or SAME.
LinkedDiffs(entity, cand, i, id, old, fields) ==
  IF fields = <<>>
  THEN <<[RootDiff(entity, i, "SAME", cand, id) EXCEPT !.old = old]>>
  ELSE FieldDiffs(entity, i, id, old, cand, fields)

\* A REVIEW of the whole item; it names the row it may be when there is just one.
ReviewDiff(entity, cand, i, rows, target) ==
  <<[RootDiff(entity, i, "REVIEW", cand, target)
       EXCEPT !.old = IF target = Null THEN Null ELSE rows[target]]>>

\* _diff_keyed_records for one candidate row.
CareerDiffs(entity, cand, i, rows) ==
  LET c         == cand.val
      exact     == {id \in DOMAIN rows : NaturalKey(entity, rows[id]) = NaturalKey(entity, c)}
      similar   == {id \in DOMAIN rows : Similar(entity, c, rows[id])}
      ambiguous == c.name = Null \/ Cardinality(exact) > 1
      fills     == exact = {} /\ Cardinality(similar) = 1 /\ FillsOnly(entity, rows[TheOnly(similar)], c)
      linked    == IF ambiguous THEN Null ELSE IF fills THEN TheOnly(similar) ELSE TheOnly(exact)
      unknown   == ~ambiguous /\ similar = {} /\ ~(entity = "EMPLOYMENT" /\ DatesNeedReview(c))
  IN  IF linked # Null
      THEN LinkedDiffs(entity, cand, i, linked, rows[linked], ChangedFields(rows[linked], c))
      ELSE IF unknown THEN <<RootDiff(entity, i, "NEW", cand, Null)>>
      ELSE ReviewDiff(entity, cand, i, rows, IF ambiguous THEN Null ELSE TheOnly(similar))

-----------------------------------------------------------------------------
(* Projects *)

ProjectKey(r) == <<r.name, r.sub, ProjectDateKey(r.start), ProjectDateKey(r.end)>>

SameCustomer(a, b) == a = b \/ (Null \notin {a, b} /\ Fold[a] = Fold[b])

\* _project_names_identity_compatible
NamesAlike(a, b) == Null \notin {a, b} /\ (Fold[a] = Fold[b] \/ <<Fold[a], Fold[b]>> \in Alike)

Dated(r) == Null \notin {r.start, r.end}

SamePeriod(cand, r) ==
  /\ Dated(cand) /\ Dated(r)
  /\ PrecisionCompatible(cand.start, r.start) /\ PrecisionCompatible(cand.end, r.end)

\* _project_identity_fallback_matches: the only inexact match that links.
IdentityMatch(cand, r) ==
  /\ SamePeriod(cand, r)
  /\ Null \in {cand.sub, r.sub} \/ Fold[cand.sub] = Fold[r.sub]
  /\ NamesAlike(cand.name, r.name)

SameNameMatch(cand, r) == cand.name = r.name /\ OptionalAgree(cand.sub, r.sub)

NameDateMatch(cand, r) == cand.name = r.name /\ SamePeriod(cand, r)

CustomerDateMatch(cand, r) ==
  cand.sub # Null /\ SameCustomer(cand.sub, r.sub) /\ SamePeriod(cand, r)

CustomerOverlapMatch(cand, r) ==
  /\ Null \notin {cand.sub, r.sub} /\ SameCustomer(cand.sub, r.sub)
  /\ HasMonth(cand.start) /\ HasMonth(r.start) /\ PrecisionCompatible(cand.start, r.start)
  /\ PeriodsOverlap(cand.start, cand.end, r.start, r.end)

\* The projects a person must look at, by the first rule that finds any.
Suspects(cand, rows) ==
  LET Found(M(_, _)) == {id \in DOMAIN rows : M(cand, rows[id])}
      tiers == <<Found(SameNameMatch), Found(NameDateMatch),
                 Found(CustomerDateMatch), Found(CustomerOverlapMatch)>>
      hits  == {k \in DOMAIN tiers : tiers[k] # {}}
  IN  IF hits = {} THEN {} ELSE tiers[CHOOSE k \in hits : \A j \in hits : k <= j]

\* Differences that only restate the confirmed value more coarsely or in another
\* spelling are not shown.
Restates(f, old, new) ==
  \/ f \in DateFields /\ PrecisionCompatible(new, old)
  \/ f = "sub"  /\ SameCustomer(old, new)
  \/ f = "name" /\ NamesAlike(old, new)

ProjectFields(old, cand) ==
  Filter(RowFields, LAMBDA f : Changes(old, cand, f) /\ ~Restates(f, old[f], cand[f]))

\* _diff_project_relations: additive; a code the project has is not shown, and a
\* value without a code goes to review.
RelationDiffs(cand, i, id, known, unmappedOnly) ==
  LET Propose(rel, k) ==
        LET change == IF rel.val.code = Null THEN "REVIEW" ELSE "UPDATE"
            shown  == /\ rel.val.kind \in RelationKinds
                      /\ IF rel.val.code = Null THEN rel.val.raw # Null
                         ELSE ~unmappedOnly /\ <<rel.val.kind, rel.val.code>> \notin known
        IN  IF ~shown THEN <<>>
            ELSE <<[Diff("PROJECT", i, change, rel.val, rel.refs)
                      EXCEPT !.item = k, !.field = rel.val.kind, !.target = id]>>
  IN  DiffsOfEach(cand.val.rels, Propose)

\* _diff_projects for one candidate project.
ProjectDiffs(cand, i, rows, rels) ==
  LET c        == cand.val
      exact    == {id \in DOMAIN rows : ProjectKey(rows[id]) = ProjectKey(c)}
      identity == {id \in DOMAIN rows : IdentityMatch(c, rows[id])}
      matches  == IF exact = {} THEN identity ELSE exact
      linked   == TheOnly(matches)
      unmapped == RelationDiffs(cand, i, Null, {}, TRUE)
  IN  IF c.name = Null
      THEN ReviewDiff("PROJECT", cand, i, rows, Null) \o unmapped
      ELSE IF linked # Null
      THEN LET fields == ProjectFields(rows[linked], c)
               more   == RelationDiffs(cand, i, linked, rels[linked], FALSE)
           IN  IF fields = <<>> /\ more # <<>> THEN more
               ELSE LinkedDiffs("PROJECT", cand, i, linked, rows[linked], fields) \o more
      ELSE IF matches = {} /\ Suspects(c, rows) = {}
      THEN <<RootDiff("PROJECT", i, "NEW", cand, Null)>> \o unmapped
      ELSE ReviewDiff("PROJECT", cand, i, rows,
                      IF matches = {} THEN TheOnly(Suspects(c, rows)) ELSE Null)

-----------------------------------------------------------------------------
(* build_diffs: it never proposes a removal *)

BuildDiffs(cand, profile) ==
  LET Job(x, i)   == <<JobDiff(x, i, profile.jobs)>>
      Skill(x, i) == <<SkillDiff(x, i, profile.skills)>>
      Exp(x, i)   == <<ExpertiseDiff(x, i, profile.exps)>>
      Career(entity) ==
        LET Row(x, i) == CareerDiffs(entity, x, i, profile.rows[entity])
        IN  DiffsOfEach(cand.rows[entity], Row)
      Project(x, i) == ProjectDiffs(x, i, profile.rows["PROJECT"], profile.rels)
  IN  ScalarDiffs(cand.scalars, profile)
      \o DiffsOfEach(cand.jobs, Job) \o DiffsOfEach(cand.skills, Skill) \o DiffsOfEach(cand.exps, Exp)
      \o Career("EMPLOYMENT") \o Career("EDUCATION") \o Career("CERTIFICATION")
      \o DiffsOfEach(cand.rows["PROJECT"], Project)

=============================================================================
