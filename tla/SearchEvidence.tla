---------------------------- MODULE SearchEvidence ----------------------------
(***************************************************************************)
(* How a result is explained: which conditions a person matches            *)
(* (_build_matches in modules/search/query_service.py), by which rows      *)
(* (modules/search/result_enrichment.py), and the evidence that documents  *)
(* give for them (modules/search/search_evidence_repository.py).           *)
(*                                                                         *)
(* The conditions and the specifications of their evidence are two lists   *)
(* that different functions build and that belong together by position.    *)
(*                                                                         *)
(* A target is a place of the profile or of a project that evidence can be *)
(* linked to: table, row, field and value. base.links has, for each link   *)
(* in the order of the pages, its evidence, target, person and live (the   *)
(* document is READY and neither it nor its group is deleted). An item of  *)
(* type DOCUMENT_CHUNK is readable under the same condition.               *)
(***************************************************************************)
EXTENDS SearchRanking

CONSTANT EvidenceLimit  \* SEARCH_EVIDENCE_LIMIT, 8

TopEvidence == 5        \* TOP_PROJECT_EVIDENCE_CAP

-----------------------------------------------------------------------------
(* The two lists.                                                          *)

\* A match item: a field, the values that are asked for, and its status.
Match(type, f, values, met) == [type |-> type, field |-> f, values |-> values,
                                status |-> IF met THEN "MATCH" ELSE "NO_MATCH"]

\* _req_or_group: one item for the alternatives of a field.
Required(r, f) == When(r.required[f] # <<>>, Match("REQUIRED", f, Range(r.required[f]), TRUE))

\* One item for each skill if all of them are required.
SkillItems(r) ==
    IF r.mode = "ALL"
    THEN [n \in DOMAIN r.required["skills"] |-> Match("REQUIRED", "skills", {r.required["skills"][n]}, TRUE)]
    ELSE Required(r, "skills")

\* Preferred conditions are looked up code by code.
PreferredItems(base, p, r, f) ==
    [n \in DOMAIN r.preferred[f] |->
        LET c == r.preferred[f][n]
        IN  Match("PREFERRED", f, {c}, Has(base, p, f, IF f = "jobs" THEN JobGroup(c) ELSE {c}))]

\* _build_matches for person p: required conditions are met since p was found.
Scaffold(base, p, r) ==
    Required(r, "jobs") \o SkillItems(r) \o Required(r, "expertise")
    \o Required(r, "business_domains") \o Required(r, "customer_types") \o Required(r, "grade")
    \o When(r.min # None \/ r.max # None, Match("REQUIRED", "career", {}, TRUE))
    \o Required(r, "affiliations") \o Required(r, "certifications") \o Required(r, "project_keywords")
    \o FlattenSeq([n \in DOMAIN CodeFields |-> PreferredItems(base, p, r, CodeFields[n])])

\* build_match_evidence_specs: the field and the codes evidence is sought for.
Spec1(f, codes) == [field |-> f, codes |-> codes]
Group(f, values) == IF f = "jobs" THEN UNION {JobGroup(c) : c \in values} ELSE values

OneSpec(r, f) == When(r.required[f] # <<>>, Spec1(f, Group(f, Range(r.required[f]))))
EachSpec(f, codes) == [n \in DOMAIN codes |-> Spec1(f, Group(f, {codes[n]}))]

\* Like the other fields, whatever the mode.
SkillSpecsOnce(r) == OneSpec(r, "skills")

\* One for each skill if all of them are required.
SkillSpecs(r) ==
    IF r.mode = "ALL" THEN EachSpec("skills", r.required["skills"]) ELSE OneSpec(r, "skills")

EvidenceSpecs(r) ==
    OneSpec(r, "jobs") \o SkillSpecs(r) \o OneSpec(r, "expertise")
    \o OneSpec(r, "business_domains") \o OneSpec(r, "customer_types") \o OneSpec(r, "grade")
    \o When(r.min # None \/ r.max # None, Spec1("career", {}))
    \o OneSpec(r, "affiliations") \o OneSpec(r, "certifications") \o OneSpec(r, "project_keywords")
    \o FlattenSeq([n \in DOMAIN CodeFields |-> EachSpec(CodeFields[n], r.preferred[CodeFields[n]])])

-----------------------------------------------------------------------------
(* Rows and evidence.                                                      *)

OnRow(p, f, value) == [table |-> "person", row |-> p, field |-> f, value |-> value]
OnProject(j, f, value) == [table |-> "project", row |-> j, field |-> f, value |-> value]

\* _career_evidence_targets: the one of the two figures that the filter used.
CareerTargets(person, p) ==
    IF person.confirmed # None THEN {OnRow(p, "career_confirmed_months", "")}
    ELSE IF person.calculated # None THEN {OnRow(p, "career_calculated_months", "")}
    ELSE {}

\* The rows of a person with a value that meets a condition.
RowsMeeting(test, base, p, f, asked) ==
    LET meeting(held) == {v \in held : Meets(test, f, v, asked)}
    IN  (IF f \in OnProfile THEN {OnRow(p, f, v) : v \in meeting(base.people[p].own[f])} ELSE {})
        \cup (IF f \in OnProjects
              THEN UNION {{OnProject(j, f, v) : v \in meeting(base.projects[j].has[f])} : j \in LiveProjects(base, p)}
              ELSE {})

\* _resolve_spec_targets: grade and affiliation are one field of the profile that
\* is not compared again; other texts are, here in Python; a project found by a
\* keyword can also be backed as a whole.
Targets(base, p, spec) ==
    LET f == spec.field
        rows == RowsMeeting(Substring, base, p, f, spec.codes)
    IN  CASE f \in {"grade", "affiliations"} -> {OnRow(p, f, "")}
          [] f = "career" -> CareerTargets(base.people[p], p)
          [] f = "project_keywords" -> rows \cup {OnProject(t.row, "", "") : t \in rows}
          [] OTHER -> rows

\* list_supporting_evidence
Links(base, p, targets) ==
    {l \in DOMAIN base.links :
        /\ base.links[l].live /\ base.links[l].person = p
        /\ base.links[l].target \in targets}

EvidenceOf(base, links) == {base.links[l].evidence : l \in links}

\* list_supporting_project_evidence: any field of the project.
ProjectLinks(base, p, j) ==
    {l \in DOMAIN base.links :
        /\ base.links[l].live /\ base.links[l].person = p
        /\ base.links[l].target.table = "project" /\ base.links[l].target.row = j}

\* list_document_chunks: the chunks that the channels found for the person.
Chunks(base, p, hits) ==
    InOrder({i \in Range(hits) : /\ base.items[i].person = p /\ base.items[i].type = "DOCUMENT_CHUNK"
                                 /\ base.items[i].readable},
            [i \in DOMAIN base.items |-> <<i>>])

\* Append what is new, up to the limit.
Take(chosen, seq, limit) ==
    FoldLeft(LAMBDA acc, x : IF x \in Range(acc) \/ Len(acc) >= limit THEN acc ELSE Append(acc, x), chosen, seq)

\* Rows of the profile come before projects, pages in order within a row; in which
\* order projects come the code leaves to the database.
InPages(base, links) ==
    LET key == [l \in links |->
                  <<IF base.links[l].target.table = "project" THEN base.links[l].target.row ELSE 0, l>>]
        order == InOrder(links, key)
    IN  [n \in DOMAIN order |-> <<"E", base.links[order[n]].evidence>>]

\* _select_evidence: required conditions first, then preferred ones, then the
\* projects that were ranked best, then the chunks.
SelectEvidence(base, p, matches, targets, top, chunks) ==
    LET of(type) == FoldLeft(LAMBDA acc, n : IF matches[n].type = type /\ matches[n].status = "MATCH"
                                             THEN Take(acc, InPages(base, Links(base, p, targets[n])), EvidenceLimit)
                                             ELSE acc,
                             <<>>, [n \in DOMAIN matches |-> n])
        matched == Take(of("REQUIRED"), of("PREFERRED"), EvidenceLimit)
        backed == FoldLeft(LAMBDA acc, j : Take(acc, InPages(base, ProjectLinks(base, p, j)), EvidenceLimit),
                           matched, top)
    IN  Take(backed, [n \in DOMAIN chunks |-> <<"C", chunks[n]>>], EvidenceLimit)

\* Projects that were deleted since they were ranked are not shown.
StillThere(base, top) == SelectSeq(top, LAMBDA j : base.projects[j].live)

\* enrich for one person: the targets of each condition that is matched, the
\* evidence they have, the projects that still exist, and the evidence shown. If
\* the projects were not ranked, the latest are shown.
ExplainWith(base, p, specs, scaffold, top, hits) ==
    LET targets == [n \in DOMAIN scaffold |->
                      IF n \in DOMAIN specs /\ scaffold[n].status = "MATCH" THEN Targets(base, p, specs[n]) ELSE {}]
        shown == StillThere(base, top)
    IN  [matches |-> scaffold,
         targets |-> targets,
         counts |-> [n \in DOMAIN scaffold |-> Cardinality(EvidenceOf(base, Links(base, p, targets[n])))],
         projects |-> [n \in DOMAIN shown |->
                         [id |-> shown[n],
                          evidence |-> Take(<<>>, InPages(base, ProjectLinks(base, p, shown[n])), TopEvidence)]],
         evidence |-> SelectEvidence(base, p, scaffold, targets, top, Chunks(base, p, hits))]
Explain(base, p, r, scaffold, top, hits) ==
    ExplainWith(base, p, EvidenceSpecs(r), scaffold,
                IF top = <<>> THEN RecentProjects(base, p) ELSE top, hits)
=============================================================================
