---------------------------- MODULE ProjectEvidence ----------------------------
(***************************************************************************)
(* The PROJECTS half of a candidate: what one answer of the language model *)
(* says of the projects, checked against the source (_normalize_projects   *)
(* in analysis/service.py with the functions of compact_v8.py).            *)
(*                                                                         *)
(* A project has a name, a customer, its first and last month, references  *)
(* and, for every kind, a sequence of relations: a code with references.   *)
(* In an answer the codes of a kind are a sequence, and rm gives           *)
(* references to some of them.                                             *)
(***************************************************************************)
EXTENDS CoreEvidence

Kinds == {"job", "tech", "exp", "biz", "cust"}
Strict == {"job", "tech", "exp"}  \* kinds without evidence of the project's own
TypeOf == [job |-> "JOB", tech |-> "TECH", exp |-> "EXP", biz |-> "BIZ", cust |-> "CUSTOMER_TYPE"]

JobOrder == <<"JOB-OPS-SYS", "JOB-MGT", "JOB-ARC-TA", "JOB-MGT-PM", "JOB-MGT-PL">>

(* --------------------------- expand and normalise ---------------------- *)

\* _relation_refs_for_code and _expand_code_array: jobs, skills and expertise need
\* references of their own, the other kinds fall back on those of the project.
ExpandRels(raw, kind) ==
    LET own(code)  == IF code \in DOMAIN raw.rm[kind] THEN ExpandRefs(raw.rm[kind][code]) ELSE {}
        refs(code) == IF own(code) # {} \/ kind \in Strict THEN own(code) ELSE ExpandRefs(raw.refs)
        kept(code) == kind \in Strict => refs(code) # {}
        rel(code)  == [code |-> code, refs |-> refs(code)]
    IN  Mapped(Kept(raw.codes[kind], kept), rel)

\* _expand_project: a customer that is a code of a domain or a customer type is none.
ExpandProject(raw) ==
    [name |-> raw.name, start |-> raw.start, end |-> raw.end,
     customer |-> IF \E type \in {"BIZ", "CUSTOMER_TYPE"} : Lookup(raw.customer, type) # NoText
                  THEN NoText ELSE raw.customer,
     refs |-> ExpandRefs(raw.refs),
     rels |-> [kind \in Kinds |-> ExpandRels(raw, kind)]]

\* repair_whitespace_project_evidence: the references of domains and customer types
\* are left as they are.
RepairProject(src, p) ==
    LET repair(x) == [x EXCEPT !.refs = RepairSpacing(src, @)]
    IN  [repair(p) EXCEPT !.rels = [kind \in Kinds |->
            IF kind \in Strict THEN Mapped(@[kind], repair) ELSE @[kind]]]

\* normalize_candidate: a code that is inactive or of another type is cleared, its
\* relation stays.
NormalProject(src, p) ==
    [NormalRow(src, p) EXCEPT !.rels = [kind \in Kinds |->
        LET rel(x) == NormalItem(src, x, TypeOf[kind]) IN Mapped(@[kind], rel)]]

(* ------------------------ evidence of the project itself --------------- *)

\* backfill_exact_project_evidence: a missing quotation is the name or the customer.
RootEvidence(src, p) ==
    LET onPage(r) == {w \in {p.name, p.customer} \ {NoText} :
                          Verified(src, [r EXCEPT !.quote = {w}])}
        anchor(r) == IF p.name \in onPage(r) THEN {p.name} ELSE onPage(r)
        found == IF UniqueMatch(src, p.name) # {} THEN UniqueMatch(src, p.name)
                 ELSE UniqueMatch(src, p.customer)
    IN  [p EXCEPT !.refs = IF @ = {} THEN found
                           ELSE {IF r.quote # {} THEN r ELSE [r EXCEPT !.quote = anchor(r)] : r \in @}]

PeriodsIn(words) == {Periods[w] : w \in words \cap DOMAIN Periods}

\* _unique_owned_root_project_period: the period of the only row that holds the
\* quotation, the name and the customer, the same for every reference.
PeriodsHolding(p, quote, text, titles) ==
    LET block(k) == SubSeq(text, BlockStart(text, k),
                           Min({Len(text) + 1} \cup {j \in FullPeriods(text) : j > k}) - 1)
        owned(k) == SpanText(block(k), OwnedSpan([p EXCEPT !.start = Periods[text[k]].start],
                                                 block(k), titles))
        holds(k) == \E row \in owned(k) : /\ quote \cup {p.name, p.customer} \subseteq WordsOf(row)
                                         /\ PeriodsIn(WordsOf(row)) = {Periods[text[k]]}
    IN  {Periods[text[k]] : k \in {k \in FullPeriods(text) : holds(k)}}

OwnedPeriods(src, projects, i) ==
    LET p == projects[i]
        pages(q) == {<<r.doc, r.page>> : r \in q.refs}
        rival(q) == q.name = p.name /\ q.customer = p.customer /\ pages(q) \cap pages(p) # {}
        hits(r) == PeriodsHolding(p, r.quote, PageText(src[<<r.doc, r.page>>]), Titles(projects))
    IN  IF \/ NoText \in {p.name, p.customer} \/ p.refs = {}
           \/ \E r \in p.refs : ~Verified(src, r) \/ Cardinality(hits(r)) # 1
           \/ \E j \in DOMAIN projects \ {i} : rival(projects[j])
        THEN {} ELSE UNION {hits(r) : r \in p.refs}

\* backfill_project_dates_from_root_evidence: the only period that the quotations
\* name completes the dates; the owned period repairs two equal dates.
DatedProjects(src, projects) ==
    LET quoted(p) == PeriodsIn(UNION {r.quote : r \in p.refs})
        filled(p, d) ==
            CASE p.start = NoMonth /\ p.end = NoMonth -> [p EXCEPT !.start = d.start, !.end = d.end]
              [] p.start = NoMonth /\ p.end = d.end   -> [p EXCEPT !.start = d.start]
              [] p.end = NoMonth /\ p.start = d.start -> [p EXCEPT !.end = d.end]
              [] OTHER -> p
        spread(p, d) == IF p.start = d.end THEN [p EXCEPT !.start = d.start]
                        ELSE IF p.start = d.start THEN [p EXCEPT !.end = d.end] ELSE p
        the(periods) == CHOOSE d \in periods : TRUE
        dated(i) ==
            LET p == projects[i]
            IN  IF NoMonth \in {p.start, p.end}
                THEN IF Cardinality(quoted(p)) = 1 THEN filled(p, the(quoted(p))) ELSE p
                ELSE IF p.start = p.end /\ Cardinality(OwnedPeriods(src, projects, i)) = 1
                THEN spread(p, the(OwnedPeriods(src, projects, i))) ELSE p
    IN  [i \in DOMAIN projects |-> dated(i)]

(* ---------------------- evidence of the relations ---------------------- *)

\* _quote_supports_semantic_project_job and _exp, for one of the references
Evident(rel, Says(_, _)) == \E r \in rel.refs : Says(rel.code, r.quote)

\* backfill_semantic_project_expertise_evidence and _job_evidence: references that
\* support nothing give way to those of the row of the project.
Backed(rel, refs) == IF refs = {} THEN rel ELSE [rel EXCEPT !.refs = refs]

BackExps(src, p, titles) ==
    LET bare(x) == x.code \in SemanticExps /\ ~Evident(x, SupportsExp)
    IN  [p EXCEPT !.rels.exp = [i \in DOMAIN @ |->
            IF bare(@[i]) THEN Backed(@[i], ExpRef(src, p, @[i].code, titles)) ELSE @[i]]]

BackJobs(src, p, titles) ==
    LET bare(x) == x.code \in SemanticJobs /\ ~Evident(x, SupportsJob)
    IN  [p EXCEPT !.rels.job = [i \in DOMAIN @ |->
            IF bare(@[i]) THEN Backed(@[i], JobRef(src, p, @[i].code, titles)) ELSE @[i]]]

\* _biz_ref_is_same_project_row
SameRow(p, r) ==
    /\ r.quote \cap (DOMAIN Periods \cup DOMAIN OpenPeriods) # {}
    /\ r.quote \cap Sections = {}
    /\ p.start # NoMonth /\ HasMonth(r.quote, p.start)
    /\ ({p.name, p.customer} \ {NoText}) \cap r.quote # {}

\* backfill_project_biz_evidence: the reference of the domain, or of the project, or
\* the whole row.
BackBiz(src, p, titles) ==
    LET any(span) == TRUE
        root == {r \in p.refs : SameRow(p, r)}
        row  == {RefAt(x.at, WordsOf(x.text)) : x \in SourceRow(src, p, titles, any)}
        one(x) == IF \E r \in x.refs : SameRow(p, r) THEN x
                  ELSE IF root # {} THEN [x EXCEPT !.refs = {CHOOSE r \in root : TRUE}]
                  ELSE IF row # {} THEN [x EXCEPT !.refs = row] ELSE x
    IN  [p EXCEPT !.rels.biz = Mapped(@, one)]

\* repair_project_pm_pl_to_ops_sys and repair_project_mgt_to_ops_sys: a management
\* job that is not named becomes the operation of systems if the row is about that.
Operating(rels, codes, ops) ==
    LET one(x) == IF x.code \notin codes \/ Evident(x, SupportsJob) \/ ops = {} THEN x
                  ELSE [x EXCEPT !.code = "JOB-OPS-SYS", !.refs = ops]
    IN  Mapped(rels, one)

ToOperations(src, p, titles, codes) ==
    [p EXCEPT !.rels.job = Operating(@, codes, JobRef(src, p, "JOB-OPS-SYS", titles))]

\* The relations with those added that have a reference and whose code is new.
Supplemented(rels, order, refs) ==
    LET missing == {c \in WordsOf(order) \ Codes(rels) : refs[c] # {}}
        add(c) == [code |-> c, refs |-> refs[c]]
    IN  rels \o Mapped(InOrder(order, missing), add)

\* supplement_semantic_project_relations_from_source
MoreRelations(src, p, titles) ==
    [p EXCEPT
        !.rels.job = Supplemented(@, JobOrder, [c \in WordsOf(JobOrder) |-> JobRef(src, p, c, titles)]),
        !.rels.exp = Supplemented(@, ExpOrder, [c \in WordsOf(ExpOrder) |-> ExpRef(src, p, c, titles)])]

\* supplement_literal_project_tech_from_source, with _ambiguous_project_tech_title_keys:
\* two projects of one title get no technologies.
MoreTechs(src, projects) ==
    LET shared(i) == /\ projects[i].name # NoText
                     /\ \E j \in DOMAIN projects \ {i} :
                            KeyOf(projects[j].name) = KeyOf(projects[i].name)
        refs(p) == [c \in WordsOf(TechOrder) |-> TechRef(src, p, c, Titles(projects))]
    IN  [i \in DOMAIN projects |->
            IF shared(i) THEN projects[i]
            ELSE [projects[i] EXCEPT !.rels.tech = Supplemented(@, TechOrder, refs(projects[i]))]]

(* ------------------------------- the filters --------------------------- *)

\* apply_normalized_quote_evidence
QuotedOnly(projects) ==
    LET own(p)  == Quoted(p.refs)
        keep(x) == Quoted(x.refs)
        one(p)  == [p EXCEPT !.rels = [kind \in Kinds |->
                        IF kind \in Strict THEN Kept(@[kind], keep) ELSE @[kind]]]
    IN  Mapped(Kept(projects, own), one)

\* _project_job_has_semantic_guard_evidence and drop_project_expertise_without_
\* semantic_evidence: the extra codes must be quoted from the project's own row.
OwnAndSupported(src, p, rel, titles) ==
    \E r \in rel.refs : SupportsExtra(rel.code, r.quote) /\ Attributable(src, p, r, titles)

GuardedJobs == {"JOB-MGT", "JOB-OPS-SYS", "JOB-ARC-TA"}

\* drop_project_jobs_without_semantic_evidence, ..._without_literal_pm_pl_evidence
\* and drop_project_expertise_without_semantic_evidence
DropUnsupported(src, p, titles) ==
    LET job(x) == /\ x.code \in ExtraJobs => OwnAndSupported(src, p, x, titles)
                  /\ x.code \in GuardedJobs \cup {"JOB-MGT-PM", "JOB-MGT-PL"} => Evident(x, SupportsJob)
        exp(x) == /\ x.code \in ExtraExps => OwnAndSupported(src, p, x, titles)
                  /\ x.code \in SemanticExps => Evident(x, SupportsExp)
    IN  [p EXCEPT !.rels.job = Kept(@, job), !.rels.exp = Kept(@, exp)]

\* _normalize_projects, up to the dates and from there on
DatedAnswer(src, answer) ==
    LET one(raw) == RootEvidence(src, NormalProject(src, RepairProject(src, ExpandProject(raw))))
    IN  DatedProjects(src, Mapped(answer, one))

Repaired(src, p, titles) ==
    LET operating == ToOperations(src, BackBiz(src, BackExps(src, p, titles), titles),
                                  titles, {"JOB-MGT-PM", "JOB-MGT-PL"})
    IN  MoreRelations(src, BackJobs(src, ToOperations(src, operating, titles, {"JOB-MGT"}), titles), titles)

RepairedProjects(src, projects) ==
    [i \in DOMAIN projects |-> Repaired(src, projects[i], Titles(projects))]

SupportedProjects(src, projects) ==
    [i \in DOMAIN projects |-> DropUnsupported(src, projects[i], Titles(projects))]

NormalizeProjects(src, answer) ==
    SupportedProjects(src, QuotedOnly(MoreTechs(src, RepairedProjects(src, DatedAnswer(src, answer)))))
================================================================================
