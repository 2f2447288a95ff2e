---------------------------- MODULE QualityGuards ----------------------------
(***************************************************************************)
(* apply_candidate_quality_guards: what is done to an extracted candidate  *)
(* before it is compared with the profile, and again when a reviewer asks  *)
(* for a guard refresh.  The guards drop items that are plainly something  *)
(* else, merge duplicates that the source rows prove to be one item, and   *)
(* turn end dates the documents disagree about into a conflict that only a *)
(* person can settle.                                                      *)
(*                                                                         *)
(* The pages of the documents are a sequence of source rows                *)
(*   doc, kosa (is it a KOSA career certificate), section, name, sub,      *)
(*   start, end                                                            *)
(* one for each table row or line that carries a name and a period.        *)
(***************************************************************************)
EXTENDS DiffEngine

CONSTANTS
  Employer,      \* company name -> the employer it names, or Null
  Marked,        \* company names that carry a corporate form
  CertName,      \* certificate name -> its spelling without OCR errors
  Width,         \* text -> its length
  PersonNames,   \* texts that are names of people
  Leaked         \* <<field, value>>: a scalar that cannot belong to its field

Key(text) == IF text = Null THEN Null ELSE Fold[text]

-----------------------------------------------------------------------------
(* Dates *)

\* _date_for_compat: dots and dashes are one spelling.
Plain(d) == IF HasProjectParts(d) THEN Dash(d.p) ELSE d

\* _normalize_date_token: the spelling with dots; a year has no separator.
Dotted(d) == IF HasProjectParts(d) /\ Len(d.p) > 1 THEN Dot(d.p) ELSE Plain(d)

Detail(d) == IF HasProjectParts(d) THEN Len(d.p) ELSE 0

\* _prefer_date: the more precise one, the first of two equals.
PreferDate(a, b) ==
  IF a = Null THEN b ELSE IF b = Null THEN a ELSE IF Detail(b) > Detail(a) THEN b ELSE a

\* _employment_end_conflict_token: all the alternatives, none chosen.
Alternatives(d) == IF d = Null THEN {} ELSE IF d.form = "conflict" THEN d.alts ELSE {d}
Conflict(ends)  == [form |-> "conflict", alts |-> UNION {Alternatives(d) : d \in ends}]
IsConflict(d)   == d # Null /\ d.form = "conflict"

\* _resolve_employment_end_merge
MergedEnd(a, b) ==
  IF Null \in {a, b} \/ a = b THEN PreferDate(a, b)
  ELSE IF IsConflict(a) \/ IsConflict(b) THEN Conflict({a, b})
  ELSE IF IsOngoingEnd(a) /\ IsOngoingEnd(b) THEN a
  ELSE IF IsOngoingEnd(a) \/ IsOngoingEnd(b) \/ ~DatesCompatible(Plain(a), Plain(b))
       THEN Conflict({a, b})
  ELSE PreferDate(a, b)

-----------------------------------------------------------------------------
(* Merging duplicates *)

PreferText(a, b) ==
  IF a = Null THEN b ELSE IF b = Null THEN a ELSE IF Width[b] > Width[a] THEN b ELSE a

First(a, b) == IF a # Null THEN a ELSE b

-----------------------------------------------------------------------------
(* Employment: what the source rows say *)

\* The row names the company as the candidate writes it.
Names(row, company) == row.name = company \/ (Employer[row.name] = company /\ company # Null)

SameEmployer(a, b) == Employer[a] # Null /\ Employer[a] = Employer[b]

\* _employment_period_compatible
PeriodFits(start, end, row) ==
  /\ row.start # Null
  /\ DatesCompatible(Plain(start), Plain(row.start))
  /\ \/ Null \in {end, row.end}
     \/ IsOngoingEnd(end) /\ IsOngoingEnd(row.end)
     \/ ~IsOngoingEnd(end) /\ ~IsOngoingEnd(row.end) /\ DatesCompatible(Plain(end), Plain(row.end))

\* _clear_employment_evidence_hits: the employment rows that carry this period;
\* none when they are of periods that exclude each other.
Hits(pages, c) ==
  LET hits == {i \in DOMAIN pages :
                 /\ pages[i].section = "employment" /\ SameEmployer(pages[i].name, c.name)
                 /\ c.start # Null /\ PeriodFits(c.start, c.end, pages[i])}
      apart == \E i, j \in hits : ~PeriodFits(pages[i].start, pages[i].end, pages[j])
  IN  IF apart THEN {} ELSE hits

\* _has_independent_employment_evidence: two different rows prove the two items.
IndependentEvidence(ha, hb) ==
  \/ Cardinality(ha \cap hb) >= 2
  \/ ha \ hb # {} /\ hb \ ha # {}

\* _employment_duplicates_mergeable
SameEmployment(pages, a, b) ==
  /\ SameEmployer(a.name, b.name)
  /\ Null \notin {a.start, b.start} /\ DatesCompatible(Plain(a.start), Plain(b.start))
  /\ IndependentEvidence(Hits(pages, a), Hits(pages, b))

\* _prefer_company_display
CompanyDisplay(a, b) ==
  IF (a \in Marked) = (b \in Marked) THEN IF Width[b] > Width[a] THEN b ELSE a
  ELSE IF a \in Marked THEN a ELSE b

MergeEmployment(pages, a, b) ==
  [val  |-> [name |-> CompanyDisplay(a.val.name, b.val.name), sub |-> First(a.val.sub, b.val.sub),
             start |-> PreferDate(a.val.start, b.val.start), end |-> MergedEnd(a.val.end, b.val.end)],
   refs |-> a.refs \cup b.refs \cup {pages[i].doc : i \in Hits(pages, a.val) \cup Hits(pages, b.val)}]

-----------------------------------------------------------------------------
(* Employment: an end date the documents disagree about *)

\* _linked_source_ends: no spelling is folded here, so a start written with
\* dashes is linked to no row.
LinkedEnds(pages, c) ==
  {pages[i].end : i \in {k \in DOMAIN pages :
     /\ pages[k].section = "employment" /\ Names(pages[k], c.name)
     /\ Null \notin {c.start, pages[k].start, pages[k].end} /\ ~IsOngoingEnd(pages[k].end)
     /\ DatesCompatible(c.start, pages[k].start)}}

\* A conflict that is composed again from its own text.
ReviewedEndOfText(c, ends) ==
  LET against == c.end # Null /\ \A e \in ends : ~DatesCompatible(c.end, e)
  IN  IF ends = {} \/ (Cardinality(ends) = 1 /\ ~against) THEN c.end
      ELSE [form |-> "conflict", alts |-> ends \cup (IF against THEN {c.end} ELSE {})]

\* _resolve_end_date_for_review: the candidate's own end is added unless some
\* row agrees with it.
ReviewedEnd(c, ends) ==
  LET against == c.end # Null /\ \A e \in ends : ~DatesCompatible(c.end, e)
  IN  IF IsConflict(c.end) \/ ends = {} THEN c.end
      ELSE IF Cardinality(ends) > 1 THEN Conflict(ends \cup (IF against THEN {c.end} ELSE {}))
      ELSE IF against THEN Conflict(ends \cup {c.end}) ELSE c.end

NextDay(p) ==
  IF p[3] < LastDay(p[1], p[2]) THEN <<p[1], p[2], p[3] + 1>>
  ELSE IF p[2] < 12 THEN <<p[1], p[2] + 1, 1>> ELSE <<p[1] + 1, 1, 1>>

IsDay(d) == HasProjectParts(d) /\ Len(d.p) = 3 /\ Confirmable(d)

\* _collect_kosa_exact_day_employment_periods
KosaPeriods(pages, company) ==
  {i \in DOMAIN pages :
     /\ pages[i].kosa /\ pages[i].section = "employment" /\ SameEmployer(pages[i].name, company)
     /\ IsDay(pages[i].start) /\ IsDay(pages[i].end) /\ InOrder(pages[i].start, pages[i].end)}

\* _contiguous_kosa_chain_from_start: the periods of one certificate that follow
\* each other day by day from the candidate's start; none when two could follow.
Chain(pages, periods, start) ==
  LET anchors == {i \in periods : IsDay(start) /\ pages[i].start.p = start.p}
      Extend(chain, n) ==
        LET next == {i \in periods \ Range(chain) :
                       chain # <<>> /\ pages[i].start.p = NextDay(pages[Last(chain)].end.p)}
        IN  IF next = {} THEN chain
            ELSE IF Cardinality(next) > 1 THEN <<>> ELSE Append(chain, TheOnly(next))
      chain == IF Cardinality(anchors) # 1 THEN <<>>
               ELSE FoldLeft(Extend, <<TheOnly(anchors)>>, [n \in 1..Cardinality(periods) |-> n])
  IN  IF Len(chain) < 2 THEN <<>> ELSE chain

\* _leftover_kosa_periods_conflict_with_chain
Disturbs(pages, chain, i) ==
  /\ i \notin Range(chain)
  /\ InOrder(pages[i].start, pages[Last(chain)].end)
  /\ InOrder(pages[Head(chain)].start, pages[i].end)

\* _try_resolve_kosa_contiguous_employment_end: the end of the only undisturbed
\* chain, when it explains every end that anybody claims; else none.
ExplainingChain(pages, c) ==
  LET periods == KosaPeriods(pages, c.name)
      Of(doc) == {i \in periods : pages[i].doc = doc}
      chains  == {ch \in {Chain(pages, Of(pages[i].doc), c.start) : i \in periods} :
                    ch # <<>> /\ ~\E i \in Of(pages[Head(ch)].doc) : Disturbs(pages, ch, i)}
      chain   == TheOnly(chains)
      ends    == {pages[chain[k]].end : k \in DOMAIN chain}
      claimed == (IF IsOngoingEnd(c.end) THEN {} ELSE Alternatives(c.end)) \cup LinkedEnds(pages, c)
  IN  IF chain = Null THEN <<>>
      ELSE IF \/ \E i \in periods : Disturbs(pages, chain, i)
              \/ \E d \in claimed : Plain(d) \notin {Plain(e) : e \in ends}
           THEN <<>> ELSE chain

\* _guard_employment_history for one row that is kept.
EndFrom(pages, row, chain) ==
  IF row.val.name = Null THEN row
  ELSE IF chain # <<>>
  THEN [row EXCEPT !.val.end = Dot(pages[Last(chain)].end.p),
                   !.refs = @ \cup {pages[i].doc : i \in Range(chain)}]
  ELSE [row EXCEPT !.val.end = ReviewedEnd(row.val, LinkedEnds(pages, row.val))]

SettleEnd(pages, row) == EndFrom(pages, row, ExplainingChain(pages, row.val))

\* A project's customer that was taken for an employer: no employment row names
\* it, and a project row or a project of the same period does.
IsCustomer(pages, c, projects) ==
  LET Mentioned(section) == \E i \in DOMAIN pages : pages[i].section = section /\ Names(pages[i], c.name)
      customerOf == {p \in Range(projects) : Key(p.val.sub) = Key(c.name)}
      Mirrors(p) == DatesCompatible(c.start, p.val.start) /\ DatesCompatible(c.end, p.val.end)
  IN  /\ c.name # Null /\ customerOf # {} /\ ~Mentioned("employment")
      /\ Mentioned("project") \/ \E p \in customerOf : Mirrors(p)

-----------------------------------------------------------------------------
(* Education and certificates *)

SameSchool(a, b) ==
  /\ a.name # Null /\ Key(a.name) = Key(b.name)
  /\ OptionalAgree(Key(a.sub), Key(b.sub))
  /\ DatesCompatible(a.start, b.start) /\ DatesCompatible(a.end, b.end)

MergeSchool(a, b) ==
  [val  |-> [a.val EXCEPT !.sub = First(@, b.val.sub), !.start = PreferDate(@, b.val.start),
                          !.end = PreferDate(@, b.val.end)],
   refs |-> a.refs \cup b.refs]

\* _enrich_education_from_pages: the first education row of the school that has
\* anything to say about it; a date it contradicts stays.
Enrich(pages, row) ==
  LET Filled(i, f) ==
        IF pages[i][f] = Null THEN row.val[f]
        ELSE IF row.val[f] = Null THEN pages[i][f]
        ELSE IF f \in DateFields /\ DatesCompatible(row.val[f], pages[i][f])
        THEN PreferDate(row.val[f], pages[i][f]) ELSE row.val[f]
      With(i) == [row.val EXCEPT !.sub = Filled(i, "sub"), !.start = Filled(i, "start"),
                                 !.end = Filled(i, "end")]
      Adds(i) == /\ pages[i].section = "education" /\ pages[i].name = row.val.name
                 /\ \E f \in {"sub", "start", "end"} :
                      /\ pages[i][f] # Null
                      /\ \/ row.val[f] = Null
                         \/ f \in DateFields /\ DatesCompatible(row.val[f], pages[i][f])
      at == {i \in DOMAIN pages : Adds(i)}
  IN  IF row.val.name = Null \/ at = {} THEN row
      ELSE [row EXCEPT !.val = With(CHOOSE i \in at : \A j \in at : i <= j)]

\* _cert_row_evidence: the literal name and its date on one certificate row.
CertRow(pages, c) ==
  \E i \in DOMAIN pages :
    /\ pages[i].section = "certification" /\ pages[i].name = c.name
    /\ pages[i].start # Null /\ DatesCompatible(Dotted(c.start), Dotted(pages[i].start))

\* _certs_mergeable: an OCR spelling needs a row of its own for each side.  Dates
\* with dots are compared as texts.
SameCertificate(pages, a, b) ==
  /\ Null \notin {a.name, b.name, a.start, b.start}
  /\ Key(CertName[a.name]) = Key(CertName[b.name])
  /\ DatesCompatible(Dotted(a.start), Dotted(b.start))
  /\ IF Key(a.name) = Key(b.name)
     THEN pages = <<>> \/ CertRow(pages, a) \/ CertRow(pages, b)
     ELSE CertRow(pages, a) /\ CertRow(pages, b)

CertDisplay(a, b) ==
  IF (CertName[a] = a) = (CertName[b] = b) THEN PreferText(a, b)
  ELSE IF CertName[a] = a THEN a ELSE b

\* _merge_cert_pair: issuers that differ are cleared.
MergeCertificate(a, b) ==
  [val  |-> [name |-> CertDisplay(a.val.name, b.val.name),
             sub  |-> IF OptionalAgree(Key(a.val.sub), Key(b.val.sub)) THEN First(a.val.sub, b.val.sub) ELSE Null,
             start |-> PreferDate(a.val.start, b.val.start), end |-> PreferDate(a.val.end, b.val.end)],
   refs |-> a.refs \cup b.refs]

-----------------------------------------------------------------------------
(* Duplicates *)

Duplicates(entity, pages, a, b) ==
  CASE entity = "EMPLOYMENT"    -> SameEmployment(pages, a.val, b.val)
    [] entity = "EDUCATION"     -> SameSchool(a.val, b.val)
    [] entity = "CERTIFICATION" -> SameCertificate(pages, a.val, b.val)

Merged(entity, pages, a, b) ==
  CASE entity = "EMPLOYMENT"    -> MergeEmployment(pages, a, b)
    [] entity = "EDUCATION"     -> MergeSchool(a, b)
    [] entity = "CERTIFICATION" -> MergeCertificate(a, b)

\* Each row joins the first kept row it duplicates.
PlaceAt(entity, pages, kept, row, duplicates) ==
  IF duplicates = {} THEN Append(kept, row)
  ELSE [kept EXCEPT ![Min(duplicates)] = Merged(entity, pages, @, row)]

Place(entity, pages, kept, row) ==
  PlaceAt(entity, pages, kept, row, {i \in DOMAIN kept : Duplicates(entity, pages, kept[i], row)})

Dedupe(entity, pages, rows) ==
  LET kept[n \in 0..Len(rows)] ==
        IF n = 0 THEN <<>> ELSE Place(entity, pages, kept[n - 1], rows[n])
  IN  kept[Len(rows)]

-----------------------------------------------------------------------------
(* The guarded lists *)

GuardEmployment(cand, pages) ==
  LET Keep(row) == ~IsCustomer(pages, row.val, cand.rows["PROJECT"])
      kept      == Filter(cand.rows["EMPLOYMENT"], Keep)
  IN  IF pages = <<>> THEN cand.rows["EMPLOYMENT"]
      ELSE Dedupe("EMPLOYMENT", pages, [k \in DOMAIN kept |-> SettleEnd(pages, kept[k])])

EnrichAll(pages, rows) == [k \in DOMAIN rows |-> Enrich(pages, rows[k])]

GuardEducation(cand, pages) == EnrichAll(pages, Dedupe("EDUCATION", pages, cand.rows["EDUCATION"]))

\* A school is not the issuer unless the certificate's own row says so.
ClearIssuers(rows, schools, pages) ==
  LET Issued(c)   == \E i \in DOMAIN pages : pages[i].section = "certification"
                                             /\ pages[i].name = c.name /\ pages[i].sub = c.sub
      Clean(row)  == IF row.val.sub # Null /\ Key(row.val.sub) \in schools /\ ~Issued(row.val)
                     THEN [row EXCEPT !.val.sub = Null] ELSE row
  IN  [k \in DOMAIN rows |-> Clean(rows[k])]

GuardCertificates(cand, schools, pages) ==
  ClearIssuers(Dedupe("CERTIFICATION", pages, cand.rows["CERTIFICATION"]), schools, pages)

-----------------------------------------------------------------------------
(* apply_candidate_quality_guards *)

\* The person's own name, or a customer's name with nothing else, is no project.
GuardProjects(cand, confirmedName) ==
  LET said      == {k \in DOMAIN cand.scalars : cand.scalars[k].field = "name"}
      names     == {confirmedName} \cup {cand.scalars[k].val : k \in said}
      customers == {Key(p.val.sub) : p \in Range(cand.rows["PROJECT"])} \ {Null}
      Bare(c)   == Null = c.start /\ Null = c.end /\ c.rels = <<>>
      Keep(p)   == /\ ~(p.val.name \in PersonNames
                        /\ Key(p.val.name) \in {Key(n) : n \in names \cap PersonNames})
                   /\ ~(Key(p.val.name) \in customers /\ Bare(p.val))
  IN  Filter(cand.rows["PROJECT"], Keep)

Guarded(cand, confirmedName, pages) ==
  LET schools == GuardEducation(cand, pages)
      Sound(s) == <<s.field, s.val>> \notin Leaked
  IN  [cand EXCEPT
         !.scalars = Filter(@, Sound),
         !.rows = [EMPLOYMENT    |-> GuardEmployment(cand, pages),
                   EDUCATION     |-> schools,
                   CERTIFICATION |-> GuardCertificates(cand, {Key(s.val.name) : s \in Range(schools)} \ {Null}, pages),
                   PROJECT       |-> GuardProjects(cand, confirmedName)]]

=============================================================================
