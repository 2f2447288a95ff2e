----------------------------- MODULE CoreEvidence -----------------------------
(***************************************************************************)
(* The CORE half of a candidate: what one answer of the language model     *)
(* says of the person, checked against the source (_normalize_core in      *)
(* analysis/service.py with the functions of compact_v8.py and             *)
(* normalize.py), and the evidence that projects lend to it after the      *)
(* merge.                                                                  *)
(*                                                                         *)
(* A core answer is a record of sequences: jobs, skills, exps (items with  *)
(* a code, the raw value and references), work, schools and certs (rows    *)
(* with a name and references) and of the profile scalars.                 *)
(***************************************************************************)
EXTENDS ProjectSpans

CONSTANTS
    CodeOrder,   \* the codes of the catalog in their order
    Activities,  \* raw values that name an activity, never a technology
    StatusWords  \* education status -> the words that prove it

Mapped(rows, Op(_)) == [i \in DOMAIN rows |-> Op(rows[i])]

Codes(rows) == {rows[i].code : i \in DOMAIN rows} \ {NoText}

\* Codes in the order the code goes through them.
InOrder(all, chosen) == RowsAt(all, Places({i \in DOMAIN all : all[i] \in chosen}))

ExpOrder == <<"EXP-INFRA", "EXP-MGT", "EXP-SEC-OPS", "EXP-SEC-BUILD">>
TechOrder == InOrder(CodeOrder, DOMAIN Techs)

(* -------------------------------- normalise ---------------------------- *)

\* _ensure_single_primary_job: the most confident one stays, or the first.
SinglePrimary(jobs) ==
    LET primaries == {i \in DOMAIN jobs : jobs[i].primary}
        keep == CHOOSE i \in primaries : \A j \in primaries \ {i} :
                    jobs[i].conf > jobs[j].conf \/ (jobs[i].conf = jobs[j].conf /\ i < j)
    IN  IF Cardinality(primaries) <= 1 THEN jobs
        ELSE [i \in DOMAIN jobs |-> [jobs[i] EXCEPT !.primary = (i = keep)]]

\* expand_compact_core and normalize_candidate.
NormalRow(src, x) == [x EXCEPT !.refs = NormalRefs(src, ExpandRefs(@))]
NormalItem(src, x, type) == [NormalRow(src, x) EXCEPT !.code = Lookup(@, type)]

NormalCore(src, raw) ==
    LET row(x) == NormalRow(src, x)
        job(x) == NormalItem(src, x, "JOB")
        skill(x) == NormalItem(src, x, "TECH")
        exp(x) == NormalItem(src, x, "EXP")
    IN  [profile |-> [f \in DOMAIN raw.profile |-> row(raw.profile[f])],
         jobs    |-> SinglePrimary(Mapped(raw.jobs, job)),
         skills  |-> Mapped(raw.skills, skill),
         exps    |-> Mapped(raw.exps, exp),
         work    |-> Mapped(raw.work, row),
         schools |-> Mapped(raw.schools, row),
         certs   |-> Mapped(raw.certs, row)]

\* promote_exact_root_catalog_codes: a raw value that is a code.
Promoted(rows, type) ==
    LET one(x) == IF x.code = NoText THEN [x EXCEPT !.code = Lookup(x.raw, type)] ELSE x
    IN  Mapped(rows, one)

PromoteCodes(core) ==
    [core EXCEPT !.jobs = Promoted(@, "JOB"), !.skills = Promoted(@, "TECH"),
                 !.exps = Promoted(@, "EXP")]

(* ------------------------- evidence from the source -------------------- *)

\* backfill_exact_core_evidence: where nothing is quoted, the first page with the
\* raw value or the name of the row.
Exact(src, rows) ==
    LET one(x) == IF Quoted(x.refs) \/ ExactMatch(src, x.raw) = {} THEN x
                  ELSE [x EXCEPT !.refs = ExactMatch(src, x.raw)]
    IN  Mapped(rows, one)

ExactEvidence(src, core) == [part \in DOMAIN core |-> Exact(src, core[part])]

\* The raw value of an item that a match adds: what the match quotes.
RawOf(match) == CHOOSE w \in UNION {r.quote : r \in match} : TRUE

\* backfill_literal_core_tech_from_source
LiteralSkills(src, core) ==
    LET repair(x) ==
            IF x.code \in DOMAIN Techs /\ ~Quoted(x.refs) /\ LiteralMatch(src, x.code) # {}
            THEN [x EXCEPT !.refs = LiteralMatch(src, x.code)] ELSE x
        missing == {c \in (DOMAIN Techs) \ Codes(core.skills) : LiteralMatch(src, c) # {}}
        add(c) == [code |-> c, raw |-> RawOf(LiteralMatch(src, c)), refs |-> LiteralMatch(src, c)]
    IN  [core EXCEPT !.skills = Mapped(@, repair) \o Mapped(InOrder(TechOrder, missing), add)]

\* drop_generic_activity_core_skills and drop_core_skills_without_quote_evidence
DropSkills(core) ==
    LET keeps(x) == x.raw \notin Activities /\ Quoted(x.refs)
    IN  [core EXCEPT !.skills = Kept(@, keeps)]

\* clear_education_status_without_literal_evidence
ClearStatus(core) ==
    LET proved(x) == /\ x.status \in DOMAIN StatusWords
                     /\ \E r \in x.refs : StatusWords[x.status] \cap r.quote # {}
        one(x) == IF x.status = NoText \/ proved(x) THEN x ELSE [x EXCEPT !.status = NoText]
    IN  [core EXCEPT !.schools = Mapped(@, one)]

(* ------------------------- phrases of the catalog ---------------------- *)

Strength(code, text) ==
    Max({0} \cup {CorePatterns[code][i].strength :
                  i \in {i \in DOMAIN PatternsFor(CorePatterns, code) :
                         Matches(CorePatterns[code][i], text)}})

\* The first of the pages with the strongest phrase.
StrongestPage(src, code) ==
    LET at(page) == Strength(code, WordsOf(PageText(src[page])))
        best == {a \in DOMAIN src : at(a) > 0 /\ \A b \in DOMAIN src : at(a) >= at(b)}
    IN  IF best = {} THEN {} ELSE {FirstPage(best)}

\* _semantic_exp_page_match quotes the strongest phrase of the page without its
\* companion, _semantic_core_exp_span_page_match the first with it.
PhraseMatch(src, code) ==
    {RefAt(page, LET text == WordsOf(PageText(src[page]))
                     best == CHOOSE i \in DOMAIN CorePatterns[code] :
                                 /\ Matches(CorePatterns[code][i], text)
                                 /\ CorePatterns[code][i].strength = Strength(code, text)
                 IN  OneOf(CorePatterns[code][best].words \cap text))
     : page \in StrongestPage(src, code)}

SpanMatch(src, code) ==
    {RefAt(page, Extract(CorePatterns, code, WordsOf(PageText(src[page]))))
     : page \in StrongestPage(src, code)}

\* _semantic_core_job_page_match
JobMatch(src, code) ==
    LET named == {at \in DOMAIN src : Named(code, WordsOf(PageText(src[at])))}
    IN  IF code = "JOB-OPS-SYS" THEN SpanMatch(src, "EXP-INFRA")
        ELSE IF code \notin RequiredJobs \/ named = {} THEN {}
        ELSE {RefAt(page, OneOf(Literal[code] \cap WordsOf(PageText(src[page])))) :
              page \in {FirstPage(named)}}

\* backfill_semantic_core_expertise_evidence and _job_evidence
FillFrom(rows, MatchOf(_)) ==
    LET one(x) == IF Quoted(x.refs) \/ MatchOf(x.code) = {} THEN x
                  ELSE [x EXCEPT !.refs = MatchOf(x.code)]
    IN  Mapped(rows, one)

PhraseEvidence(src, core) ==
    LET exp(code) == PhraseMatch(src, code)
    IN  [core EXCEPT !.exps = FillFrom(@, exp)]

JobEvidence(src, core) ==
    LET job(code) == JobMatch(src, code)
    IN  [core EXCEPT !.jobs = FillFrom(@, job)]

\* supplement_semantic_core_expertise_from_source
MoreExps(src, core) ==
    LET missing == {c \in SemanticExps \ Codes(core.exps) : SpanMatch(src, c) # {}}
        add(c) == [code |-> c, raw |-> RawOf(SpanMatch(src, c)), refs |-> SpanMatch(src, c)]
    IN  [core EXCEPT !.exps = @ \o Mapped(InOrder(ExpOrder, missing), add)]

\* With any quotation for a proof.
DropUnquotedJobs(core) ==
    LET keeps(x) == x.code \notin ForbiddenJobs /\ (x.code \in RequiredJobs => Quoted(x.refs))
    IN  [core EXCEPT !.jobs = Kept(@, keeps)]

\* drop_root_jobs_without_semantic_evidence
DropJobs(core) ==
    LET keeps(x) == /\ x.code \notin ForbiddenJobs
                    /\ x.code \in RequiredJobs => \E r \in x.refs : SupportsCoreJob(x.code, r.quote)
    IN  [core EXCEPT !.jobs = Kept(@, keeps)]

\* _normalize_core
NormalizeCore(src, raw) ==
    LET read   == ExactEvidence(src, PromoteCodes(NormalCore(src, raw)))
        skills == ClearStatus(DropSkills(LiteralSkills(src, read)))
    IN  DropJobs(JobEvidence(src, MoreExps(src, PhraseEvidence(src, skills))))

(* ---------------------- evidence that projects lend -------------------- *)

\* _quote_supports_root_job_from_project and _exp: the rules for projects.
LendsJob(code, text) ==
    \/ code \in RequiredJobs /\ SupportsJob(code, text)
    \/ code \in ExtraJobs /\ SupportsExtra(code, text)

LendsExp(code, text) ==
    \/ code \in SemanticExps /\ SupportsExp(code, text)
    \/ code \in ExtraExps /\ SupportsExtra(code, text)

\* _pick_supporting_project_relation_ref: the first reference of a relation of the
\* same code that its project owns and that supports the code.
Lent(src, projects, kind, code, Lends(_, _)) ==
    LET of(p) == {r \in UNION {p.rels[kind][i].refs : i \in {i \in DOMAIN p.rels[kind] :
                                                            p.rels[kind][i].code = code}} :
                  /\ Attributable(src, p, r, Titles(projects))
                  /\ Lends(code, r.quote)}
        lenders == {i \in DOMAIN projects : of(projects[i]) # {}}
    IN  IF lenders = {} THEN {} ELSE {CHOOSE r \in of(projects[Min(lenders)]) : TRUE}

\* _apply_root_ref_supplement: references without a quotation keep their place; one
\* of another page or document forbids the loan.
WithLoan(refs, loan) ==
    IF refs = {} THEN {loan}
    ELSE IF \E r \in refs : r.doc # loan.doc \/ r.page \notin {NoPage, loan.page} THEN refs
    ELSE (refs \ {CHOOSE r \in refs : TRUE}) \cup {loan}

Lend(x, loans) ==
    LET refs == UNION {WithLoan(x.refs, loan) : loan \in loans}
    IN  IF x.code = NoText \/ Quoted(x.refs) \/ loans = {} \/ ~Quoted(refs) THEN x
        ELSE [x EXCEPT !.refs = refs, !.raw = IF @ = x.code THEN RawOf(loans) ELSE @]

\* supplement_root_job_exp_evidence_from_project_relations
Borrow(src, rows, projects, kind, Lends(_, _)) ==
    LET one(x) == Lend(x, Lent(src, projects, kind, x.code, Lends)) IN Mapped(rows, one)

SupplementRoot(src, core, projects) ==
    [core EXCEPT !.jobs = Borrow(src, @, projects, "job", LendsJob),
                 !.exps = Borrow(src, @, projects, "exp", LendsExp)]
================================================================================
