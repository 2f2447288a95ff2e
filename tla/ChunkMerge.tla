------------------------------- MODULE ChunkMerge -------------------------------
(***************************************************************************)
(* How the answers for the chunks of a source become one candidate         *)
(* (analysis/compact_v8.py, kosa_project_recall.py): the merge of the CORE *)
(* parts, the merge of the PROJECTS parts with its joining of a KOSA       *)
(* career certificate and a profile, what a second pass over the source    *)
(* adds, and the rows of KOSA tables.                                      *)
(***************************************************************************)
EXTENDS ProjectEvidence

CONSTANTS
    Null,        \* no date
    DocType,     \* document -> its type
    Anchors,     \* sets of one or two titles that share a distinctive part
    Collation,        \* title or customer -> its place in the sorting order
    Tables       \* pages that are wholly the rows of a KOSA table

D == INSTANCE PartialDates

Kosa == "DOC-KOSA"
Profile == "DOC-PROFILE"

(* --------------------------- CORE: rows of a kind ---------------------- *)

NoKey == <<>>

\* The rows of each known key merged, where the first of them stood.
Grouped(rows, Key(_), Merge(_)) ==
    LET heads == {i \in DOMAIN rows :
                     Key(rows[i]) # NoKey /\ \A j \in DOMAIN rows : j < i => Key(rows[j]) # Key(rows[i])}
        group(i) == RowsAt(rows, Places({j \in DOMAIN rows : Key(rows[j]) = Key(rows[i])}))
        merged(i) == Merge(group(i))
    IN  Mapped(Places(heads), merged)

Keyless(rows, Key(_)) ==
    LET none(x) == Key(x) = NoKey IN Kept(rows, none)

AllRefs(rows) == UNION {rows[i].refs : i \in DOMAIN rows}

Or(a, b) == IF a # NoText THEN a ELSE b

\* _core_code_ref_key, _merge_core_job_lists, _merge_core_skill_lists and
\* _merge_core_expertise_lists
ItemKey(x) == IF x.code # NoText THEN <<"code", x.code>>
              ELSE IF x.raw # NoText THEN <<"raw", x.raw>> ELSE NoKey

FirstRaw(rows) ==
    LET given == {i \in DOMAIN rows : rows[i].raw # NoText}
    IN  IF given = {} THEN NoText ELSE rows[Min(given)].raw

MergeItems(rows) == [rows[1] EXCEPT !.refs = AllRefs(rows), !.raw = FirstRaw(rows)]

MergeJobs(rows) ==
    [MergeItems(rows) EXCEPT !.conf = Max({rows[i].conf : i \in DOMAIN rows})]

\* The end that came first stands.
FirstEnd(a, b) == IF a = {} THEN b ELSE a

\* _resolve_employment_end: an end is the set of the dates it names, more than one
\* of them in the text that asks for a review.
ResolvedEnd(a, b) ==
    LET x == CHOOSE d \in a : TRUE
        y == CHOOSE d \in b : TRUE
    IN  IF a = {} \/ b = {} THEN a \cup b
        ELSE IF Cardinality(a) > 1 \/ Cardinality(b) > 1 THEN a \cup b
        ELSE IF D!IsOngoingEnd(x) /\ D!IsOngoingEnd(y) THEN a
        ELSE IF D!IsOngoingEnd(x) \/ D!IsOngoingEnd(y) \/ ~D!DatesCompatible(x, y) THEN a \cup b
        ELSE IF Len(y.p) > Len(x.p) THEN b ELSE a

\* _employment_identity_key, _merge_employment_pair and _merge_core_employment
WorkKey(x) == IF x.raw = NoText \/ x.start = Null THEN NoKey ELSE <<x.raw, x.start>>

EndOf(rows) ==
    LET end[n \in 1 .. Len(rows)] ==
            IF n = 1 THEN rows[n].end ELSE ResolvedEnd(end[n - 1], rows[n].end)
    IN  end[Len(rows)]

MergeWork(rows) == [rows[1] EXCEPT !.refs = AllRefs(rows), !.end = EndOf(rows)]

\* _cert_identity_key and _merge_core_certifications: raw stands for the name and
\* the issuer of a certificate, which are both in the key.
CertKey(x) == IF x.raw = NoText \/ x.date = Null THEN NoKey ELSE <<x.raw, x.date>>

\* _education_rows_compatible and _merge_core_education: the major stands for the
\* degree and the dates too.
SameSchool(x, y) ==
    x.raw # NoText /\ x.raw = y.raw /\ (NoText \in {x.major, y.major} \/ x.major = y.major)

SchoolPair(x, y) ==
    [x EXCEPT !.major = Or(@, y.major), !.status = Or(@, y.status), !.refs = @ \cup y.refs]

MergeSchools(rows) ==
    LET place(kept, row) ==
            LET same == {i \in DOMAIN kept : SameSchool(kept[i], row)}
            IN  IF same = {} THEN Append(kept, row)
                ELSE [kept EXCEPT ![Min(same)] = SchoolPair(@, row)]
    IN  FoldLeft(place, <<>>, rows)

\* _merge_core_profile: the first value of a field, with the references of the
\* chunks that gave the same one.
MergeProfiles(parts) ==
    [f \in DOMAIN parts[1] |->
        LET given == {i \in DOMAIN parts : parts[i][f].raw # NoText}
            value == IF given = {} THEN NoText ELSE parts[Min(given)][f].raw
        IN  [raw  |-> value,
             refs |-> UNION {parts[i][f].refs : i \in {i \in given : parts[i][f].raw = value}}]]

\* merge_core_chunk_candidates
MergeCores(parts) ==
    LET all(part) == FlattenSeq([i \in DOMAIN parts |-> parts[i][part]])
    IN  [profile |-> MergeProfiles([i \in DOMAIN parts |-> parts[i].profile]),
         jobs    |-> SinglePrimary(Grouped(all("jobs"), ItemKey, MergeJobs)),
         skills  |-> Grouped(all("skills"), ItemKey, MergeItems),
         exps    |-> Grouped(all("exps"), ItemKey, MergeItems),
         work    |-> Grouped(all("work"), WorkKey, MergeWork) \o Keyless(all("work"), WorkKey),
         schools |-> MergeSchools(all("schools")),
         certs   |-> Grouped(all("certs"), CertKey, MergeItems) \o Keyless(all("certs"), CertKey)]

(* ------------------------- PROJECTS: what is alike --------------------- *)

Docs(p) == {r.doc : r \in p.refs}

\* _projects_are_cross_document
CrossDocument(p, q) == Docs(p) # {} /\ Docs(q) # {} /\ Docs(p) \cap Docs(q) = {}

\* _project_names_have_strong_lexical_anchor
Anchored(p, q) == NoText \notin {p.name, q.name} /\ {p.name, q.name} \in Anchors

SameName(p, q) == p.name # NoText /\ p.name = q.name
SameCustomer(p, q) == p.customer # NoText /\ p.customer = q.customer
Dated(p) == NoMonth \notin {p.start, p.end}

\* _project_period_compatible and _project_periods_month_overlap
SamePeriod(p, q) == Dated(p) /\ Dated(q) /\ p.start = q.start /\ p.end = q.end

Overlapping(p, q) ==
    /\ Dated(p) /\ Dated(q) /\ p.start <= p.end /\ q.start <= q.end
    /\ Max({p.start, q.start}) <= Min({p.end, q.end})

(* ----------------------- PROJECTS: merging rows ------------------------ *)

\* _union_source_refs: what is quoted with its page.
UnionRefs(refs) == {r \in refs : r.quote # {} /\ r.page # NoPage}

\* _union_code_ref_lists
UnionRels(rows) ==
    LET all == FlattenSeq(rows)
        rel(code) == [code |-> code,
                      refs |-> UnionRefs(UNION {all[i].refs : i \in {i \in DOMAIN all : all[i].code = code}})]
    IN  Mapped(InOrder(CodeOrder, Codes(all)), rel)

\* _merge_project_relations_and_refs
MergeRows(rows, name, customer, start, end) ==
    [name |-> name, customer |-> customer, start |-> start, end |-> end,
     refs |-> UnionRefs(AllRefs(rows)),
     rels |-> [kind \in Kinds |-> UnionRels([i \in DOMAIN rows |-> rows[i].rels[kind]])]]

\* _chunk_project_sort_key: months (none last), then title and customer.  The code
\* goes on to compare the whole content, which the place of the row stands for.
RankOf(text) == IF text \in DOMAIN Collation THEN Collation[text] ELSE 0

Sooner(p, q) ==
    LET late(m) == IF m = NoMonth THEN 999999 ELSE m
        keys == << <<late(p.start), late(q.start)>>, <<late(p.end), late(q.end)>>,
                   <<RankOf(p.name), RankOf(q.name)>>, <<RankOf(p.customer), RankOf(q.customer)>> >>
    IN  \E i \in DOMAIN keys : keys[i][1] < keys[i][2] /\ \A j \in 1 .. i - 1 : keys[j][1] = keys[j][2]

Sorted(projects) ==
    LET before(i, j) == \/ Sooner(projects[i], projects[j])
                        \/ ~Sooner(projects[j], projects[i]) /\ i < j
    IN  RowsAt(projects, Ordered(DOMAIN projects,
            {p \in (DOMAIN projects) \X (DOMAIN projects) : before(p[1], p[2])}))

\* _chunk_project_identity_key and _merge_same_identity_projects: a project alone in
\* its group stays as it is.
IdentityKey(p) ==
    IF NoText \in {p.name, p.customer} \/ ~Dated(p) THEN NoKey
    ELSE <<p.name, p.customer, p.start, p.end>>

FirstOfSame(rows) == rows[1]  \* instead of uniting the rows

MergeSame(rows) ==
    LET p == rows[1]
    IN  IF Len(rows) = 1 THEN p ELSE MergeRows(rows, p.name, p.customer, p.start, p.end)

IdentityMerge(projects) ==
    Grouped(projects, IdentityKey, MergeSame) \o Keyless(projects, IdentityKey)

(* ------------------- PROJECTS: certificate and profile ----------------- *)

\* _project_is_single_doc_type
Only(p, type) == Docs(p) # {} /\ \A d \in Docs(p) : DocType[d] = type

\* _kosa_profile_complementary_1to1_match
Complementary(k, p) ==
    /\ Only(k, Kosa) /\ Only(p, Profile)
    /\ Anchored(k, p) /\ SamePeriod(k, p)

\* _merge_kosa_profile_1to1
MergePair(k, p) ==
    MergeRows(<<k, p>>, k.name, Or(p.customer, k.customer), k.start, k.end)

\* _kosa_profile_aggregate_segment_indices: the certificate rows that begin with the
\* project of the profile and follow each other without a gap to its end, give or
\* take a month; a row is linked when it begins with the project or when a row that
\* begins before it reaches it.
Segments(work, p) ==
    LET parts == {i \in DOMAIN work :
                     /\ Only(work[i], Kosa) /\ Anchored(work[i], p) /\ Dated(work[i])
                     /\ p.start <= work[i].start /\ work[i].start <= work[i].end
                     /\ work[i].end <= p.end + 1}
        linked(i) == \/ work[i].start = p.start
                     \/ \E h \in parts : work[h].start < work[i].start
                                         /\ work[i].start <= work[h].end + 1
        chain == {i \in parts : \A j \in parts : work[j].start <= work[i].start => linked(j)}
    IN  IF /\ Only(p, Profile) /\ Dated(p) /\ p.start <= p.end /\ Cardinality(chain) >= 2
           /\ Max({work[i].end : i \in chain}) \in {p.end - 1, p.end, p.end + 1}
        THEN chain ELSE {}

\* _pick_canonical_scalar: the longest text, and the smallest of those; one choice
\* for a set of texts, whatever their order.
Canonical(texts) == CHOOSE text \in texts : TRUE

\* _merge_kosa_profile_aggregate
MergeSegments(p, rows) ==
    LET named == {rows[i].customer : i \in DOMAIN rows} \ {NoText}
    IN  MergeRows(<<p>> \o rows, p.name,
                  IF p.customer # NoText \/ named = {} THEN p.customer ELSE Canonical(named),
                  Min({rows[i].start : i \in DOMAIN rows}), Max({rows[i].end : i \in DOMAIN rows}))

\* _apply_kosa_profile_complementary_merge: pairs that are each other's only match,
\* then profiles whose rows no other profile claims.
Pairs(work) ==
    LET match == {m \in (DOMAIN work) \X (DOMAIN work) : Complementary(work[m[1]], work[m[2]])}
    IN  {m \in match : \A n \in match \ {m} : m[1] # n[1] /\ m[2] # n[2]}

Claims(work, paired) == [p \in (DOMAIN work) \ paired |-> Segments(work, work[p]) \ paired]

Owners(claim) ==
    LET claimants == {p \in DOMAIN claim : Cardinality(claim[p]) >= 2}
    IN  {p \in claimants : \A q \in claimants \ {p} : claim[p] \cap claim[q] = {}}

Joined(work, pairs, claim, owners) ==
    LET taken == owners \cup UNION ({{m[1], m[2]} : m \in pairs} \cup {claim[p] : p \in owners})
        joined(k) == MergePair(work[k], work[CHOOSE p \in DOMAIN work : <<k, p>> \in pairs])
        summed(p) == MergeSegments(work[p], RowsAt(work, Places(claim[p])))
    IN  Mapped(Places({m[1] : m \in pairs}), joined) \o Mapped(Places(owners), summed)
        \o RowsAt(work, Places((DOMAIN work) \ taken))

JoinClaimed(work, pairs, claim) == Joined(work, pairs, claim, Owners(claim))

JoinSorted(work, pairs) ==
    JoinClaimed(work, pairs, Claims(work, UNION {{m[1], m[2]} : m \in pairs}))

JoinProfiles(projects) ==
    LET work == Sorted(projects) IN JoinSorted(work, Pairs(work))

\* merge_project_chunk_candidates
MergeProjects(parts) == Sorted(JoinProfiles(IdentityMerge(FlattenSeq(parts))))

(* ----------------------------- second pass ----------------------------- *)

\* _second_is_near_period_title_variant, _project_name_customer_start_overlap_match
\* and the first clause of _classify_second_project_match
SameProject(p, q) ==
    \/ SameName(p, q) /\ SamePeriod(p, q)
    \/ SameName(p, q) /\ SameCustomer(p, q) /\ p.start = q.start /\ Overlapping(p, q)
    \/ /\ SameCustomer(p, q) /\ CrossDocument(p, q) /\ Anchored(p, q)
       /\ p.end = q.end /\ p.start - q.start \in {-1, 0, 1} /\ Overlapping(p, q)

\* _aggregate_contained_first_indices: of the rows within the period of the project
\* those of the first run without a gap from its start to its end.
Contained(pool, q) ==
    LET parts == {i \in DOMAIN pool :
                     /\ SameCustomer(pool[i], q) /\ CrossDocument(pool[i], q)
                     /\ Anchored(pool[i], q) /\ Dated(pool[i])
                     /\ q.start <= pool[i].start /\ pool[i].start <= pool[i].end
                     /\ pool[i].end <= q.end}
        before(i, j) == \/ pool[i].start < pool[j].start
                        \/ pool[i].start = pool[j].start /\ pool[i].end < pool[j].end
                        \/ pool[i].start = pool[j].start /\ pool[i].end = pool[j].end /\ i < j
        line == Ordered(parts, {p \in parts \X parts : before(p[1], p[2])})
        reach(i, j) == Max({pool[line[k]].end : k \in i .. j})
        chains == {c \in (DOMAIN line) \X (DOMAIN line) :
                     /\ c[1] < c[2] /\ pool[line[c[1]]].start = q.start /\ reach(c[1], c[2]) = q.end
                     /\ \A k \in c[1] + 1 .. c[2] : pool[line[k]].start <= reach(c[1], k - 1) + 1}
        best == CHOOSE c \in chains : \A d \in chains : c[1] < d[1] \/ (c[1] = d[1] /\ c[2] <= d[2])
    IN  IF ~Dated(q) \/ q.end < q.start \/ chains = {} THEN {}
        ELSE {line[k] : k \in best[1] .. best[2]}

\* _second_job_relation_mergeable and _second_exp_relation_mergeable: by the phrases
\* for the person, not those for projects.
PhrasesOf == [job \in {"JOB-OPS-SYS", "JOB-MGT"} |-> IF job = "JOB-MGT" THEN "EXP-MGT" ELSE "EXP-INFRA"]

Mergeable(kind, x) ==
    \E r \in x.refs :
        \/ kind = "exp" /\ x.code \in SemanticExps /\ Supports(CorePatterns, x.code, r.quote)
        \/ kind = "job" /\ x.code \in DOMAIN PhrasesOf /\ Supports(CorePatterns, PhrasesOf[x.code], r.quote)
        \/ kind = "job" /\ x.code \in LiteralJobs /\ Named(x.code, r.quote)

\* _merge_missing_supported_job_exp_relations: the first relation of a new code.
WithMissing(p, q) ==
    LET new(kind) == {i \in DOMAIN q.rels[kind] :
                         /\ q.rels[kind][i].code \notin Codes(p.rels[kind])
                         /\ Mergeable(kind, q.rels[kind][i])}
        first(kind) == {i \in new(kind) : \A j \in new(kind) :
                           j < i => q.rels[kind][j].code # q.rels[kind][i].code}
        more(kind) == RowsAt(q.rels[kind], Places(first(kind)))
    IN  IF ~CrossDocument(p, q) THEN p
        ELSE [p EXCEPT !.rels.job = @ \o more("job"), !.rels.exp = @ \o more("exp")]

\* supplement_projects_from_second_pass: a project that matches by its customer and
\* its period alone is neither added nor merged.
TakeSecond(pool, q) ==
    LET same == {i \in DOMAIN pool : SameProject(pool[i], q)}
        into == IF same # {} THEN {Min(same)} ELSE Contained(pool, q)
        alike == \E i \in DOMAIN pool : SameCustomer(pool[i], q) /\ SamePeriod(pool[i], q)
    IN  IF into # {}
        THEN [i \in DOMAIN pool |-> IF i \in into THEN WithMissing(pool[i], q) ELSE pool[i]]
        ELSE IF alike THEN pool ELSE Append(pool, q)

SecondPass(first, second) ==
    LET pool[n \in 0 .. Len(second)] ==
            IF n = 0 THEN first ELSE TakeSecond(pool[n - 1], second[n])
    IN  pool[Len(second)]

(* ----------------------------- KOSA tables ----------------------------- *)

\* supplement_kosa_table_projects: a row <<title, period, customer, ...>> of a table
\* adds its reference to the first project of that title, customer and period, or itself.
AddRow(projects, at, row) ==
    LET ref  == RefAt(at, WordsOf(row))
        same == {i \in DOMAIN projects :
                    /\ KeyOf(projects[i].name) = KeyOf(row[1]) /\ projects[i].customer = row[3]
                    /\ projects[i].start = Periods[row[2]].start
                    /\ projects[i].end = Periods[row[2]].end}
    IN  IF same # {} THEN [projects EXCEPT ![Min(same)].refs = @ \cup {ref}]
        ELSE Append(projects, [name |-> row[1], customer |-> row[3],
                               start |-> Periods[row[2]].start, end |-> Periods[row[2]].end,
                               refs |-> {ref}, rels |-> [kind \in Kinds |-> <<>>]])

TableRows(src) ==
    LET tables == {at \in DOMAIN src : at \in Tables /\ DocType[at[1]] = Kosa}
        rows(at) == [i \in DOMAIN src[at] |-> [at |-> at, row |-> src[at][i]]]
    IN  FlattenSeq(Mapped(Ordered(tables, {p \in tables \X tables : Earlier(p[1], p[2])}), rows))

RecallTables(src, projects) ==
    LET rows == TableRows(src)
        kept[n \in 0 .. Len(rows)] ==
            IF n = 0 THEN projects ELSE AddRow(kept[n - 1], rows[n].at, rows[n].row)
    IN  kept[Len(rows)]
================================================================================
