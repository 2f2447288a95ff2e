---------------------------- MODULE SearchRanking ----------------------------
(***************************************************************************)
(* How found people are ranked: the keyword and the vector channel         *)
(* (query_repository.py), ranking policy rank-v2 (modules/search/ranking.py)*)
(* and the relevance of a person's projects                                *)
(* (modules/search/project_ranking.py).                                    *)
(*                                                                         *)
(* An item of the index has person, type, object, active, text (how well   *)
(* its text matches the keyword: exact flag, full-text rank and trigram    *)
(* similarity in this order, 0 if none reaches its threshold), near (the   *)
(* similarity to the query vector) and vector (it has one of the current   *)
(* model and version). Numbers are fractions of One, rounded down; dates   *)
(* are months.                                                             *)
(***************************************************************************)
EXTENDS SearchConditions

CONSTANTS
    MinCandidates,  \* MIN_CHANNEL_CANDIDATE_ITEMS, 500
    MaxCandidates,  \* MAX_CHANNEL_CANDIDATE_ITEMS, 5000
    PageDepth,      \* pages of candidates behind the one asked for, 10
    Today           \* the month of date.today()

ASSUME RankingAssumption ==
    /\ {MinCandidates, MaxCandidates, PageDepth, Today} \subseteq Nat
    /\ 0 < MinCandidates /\ MinCandidates =< MaxCandidates

One == 1000000
Percent == One \div 100

Atmost(a, b) == IF a < b THEN a ELSE b
AtLeast(a, b) == IF a > b THEN a ELSE b

\* a precedes b lexicographically: the first difference decides.
Precedes(a, b) == \E i \in 1..Len(a) : a[i] < b[i] /\ \A k \in 1..(i - 1) : a[k] = b[k]

\* The members of S, the smallest key first; no two have the same key.
InOrder(S, key) ==
    [i \in 1..Cardinality(S) |->
        CHOOSE x \in S : Cardinality({y \in S : Precedes(key[y], key[x])}) = i - 1]

Total(values) ==
    LET sum[n \in 0..Len(values)] == IF n = 0 THEN 0 ELSE sum[n - 1] + values[n]
    IN  sum[Len(values)]

-----------------------------------------------------------------------------
(* Channels.                                                               *)

\* SOURCE_WEIGHT_*: a document chunk counts less than a profile or a project.
Weight(item) == IF item.type = "DOCUMENT_CHUNK" THEN 70 ELSE 100

\* Each item that matches, with what it is ordered by: the smallest is the best.
KeywordKeys(base) ==
    [i \in {i \in DOMAIN base.items : base.items[i].active /\ base.items[i].text > 0} |->
        <<-base.items[i].text, -Weight(base.items[i]), i>>]
VectorKeys(base) ==
    [i \in {i \in DOMAIN base.items : base.items[i].active /\ base.items[i].vector} |->
        <<-(base.items[i].near * Weight(base.items[i])), i>>]

\* channel_candidate_limit
CandidateLimit(r) == Atmost(MaxCandidates, AtLeast(MinCandidates, r.page * r.size * PageDepth))

\* One more row than the limit is read, to see whether there is one.
TruncatedNever(ranked, limit) == Len(SubSeq(ranked, 1, Atmost(limit, Len(ranked)))) > limit
Truncated(ranked, limit) == Len(SubSeq(ranked, 1, Atmost(limit + 1, Len(ranked)))) > limit

\* The best item of each of these people, in order.
Ranked(base, keys, people) ==
    LET mine(p) == {i \in DOMAIN keys : base.items[i].person = p}
        best(p) == CHOOSE i \in mine(p) : \A o \in mine(p) \ {i} : Precedes(keys[i], keys[o])
    IN  InOrder({best(p) : p \in {p \in people : mine(p) # {}}}, keys)

\* No more of them than the limit; cut says that somebody was left out.
Channel(base, keys, people, limit) ==
    LET ranked == Ranked(base, keys, people)
    IN  [hits |-> SubSeq(ranked, 1, Atmost(limit, Len(ranked))), cut |-> Truncated(ranked, limit)]

\* Without the subquery of the people who meet the conditions.
KeywordHitsOfAll(base, r) == Channel(base, KeywordKeys(base), DOMAIN base.people, CandidateLimit(r))

\* keyword_channel_hits, _semantic_channel_hits_exact
KeywordHits(base, r) == Channel(base, KeywordKeys(base), Eligible(base, r), CandidateLimit(r))
VectorHits(base, r) == Channel(base, VectorKeys(base), Eligible(base, r), CandidateLimit(r))

HitPeople(base, hits) == {base.items[i].person : i \in Range(hits)}

\* The rank of a person in a channel, if it found the person.
RanksIn(base, hits, p) ==
    LET at == {n \in DOMAIN hits : base.items[hits[n]].person = p}
    IN  When(at # {}, CHOOSE n \in at : TRUE)

\* rrf_score: reciprocal rank fusion with k = 60.
Rrf(rank) == (61 * One) \div (60 + rank)

-----------------------------------------------------------------------------
(* Weighted means of the parts that are active.                            *)

\* normalize_weighted_parts: a part is a weight in percent and a value.
WeightedMean(parts) ==
    IF parts = <<>> THEN 0
    ELSE Total([n \in DOMAIN parts |-> parts[n][1] * parts[n][2]])
         \div Total([n \in DOMAIN parts |-> parts[n][1]])

Mean(values) == IF values = <<>> THEN 0 ELSE Total(values) \div Len(values)

-----------------------------------------------------------------------------
(* The projects of a person.                                               *)

\* has_structured, active: what a project can be related by.
Structured(r) ==
    (\E f \in Range(CodeFields) : r.required[f] \o r.preferred[f] # <<>>) \/ r.required["project_keywords"] # <<>>
ProjectsCount(r) == Structured(r) \/ r.keyword \/ r.semantic

\* How far a project meets one value: an inferred expertise counts for 70 %, a
\* keyword is looked for as in _keyword_blob_ratio, here in each text by itself.
ValueMet(project, f, value) ==
    CASE f = "jobs" -> IF project.has[f] \cap JobGroup(value) # {} THEN One ELSE 0
      [] f = "expertise" /\ value \in project.inferred -> IF value \in project.has[f] THEN 70 * Percent ELSE 0
      [] OTHER -> IF \E v \in project.has[f] : Meets(Substring, f, v, {value}) THEN One ELSE 0

FieldRatio(project, f, values) == Mean([n \in DOMAIN values |-> ValueMet(project, f, values[n])])

\* compute_project_structured_score: the mean over the fields that are asked
\* for; a preferred one counts half.
StructuredScore(project, r) ==
    LET required(f) == When(r.required[f] # <<>>, FieldRatio(project, f, r.required[f]))
        preferred(f) == When(r.preferred[f] # <<>>, FieldRatio(project, f, r.preferred[f]) \div 2)
    IN  Mean(FlattenSeq([n \in DOMAIN CodeFields |-> required(CodeFields[n]) \o preferred(CodeFields[n])])
             \o required("project_keywords"))

\* _project_keyword_scores, _project_semantic_scores: the best item of the project.
BestOfProject(base, scores, j) ==
    LET its == {i \in DOMAIN scores : base.items[i].type = "PROJECT" /\ base.items[i].object = j}
    IN  IF its = {} THEN 0 ELSE Max({scores[i] : i \in its})

\* compute_project_base_score
ProjectScore(base, r, j) ==
    WeightedMean(
        When(Structured(r), <<60, StructuredScore(base.projects[j], r)>>)
        \o When(r.keyword, <<20, BestOfProject(base, [i \in DOMAIN KeywordKeys(base) |->
                                                  base.items[i].text * Percent], j)>>)
        \o When(r.semantic, <<20, BestOfProject(base, [i \in DOMAIN VectorKeys(base) |->
                                                  (base.items[i].near * Weight(base.items[i]) * Percent) \div 100], j)>>))

\* COALESCE(end_date, start_date), and the projects in its order (project_recent_sort_key)
Latest(project) == IF project.end # None THEN project.end ELSE project.start

DateKey(project) == IF Latest(project) = None THEN 0 ELSE -Latest(project)
TopProjects == 3
FirstThree(order) == SubSeq(order, 1, Atmost(TopProjects, Len(order)))

RecentProjects(base, p) ==
    FirstThree(InOrder(LiveProjects(base, p), [j \in DOMAIN base.projects |-> <<DateKey(base.projects[j]), j>>]))

\* resolve_project_duration_months
Duration(project) ==
    IF project.months # None THEN project.months
    ELSE IF project.start = None THEN 0
    ELSE AtLeast(0, (IF project.end # None THEN project.end ELSE Today) - project.start)

\* Old work counts for nothing.
RecencyOfRecent(latest) ==
    IF latest = None THEN 60 * Percent
    ELSE LET age == Today - latest
         IN  CASE age =< 24 -> One
               [] age > 24 /\ age =< 60 -> 85 * Percent
               [] OTHER -> 0

\* compute_recency_score: related projects without dates count for 60 %.
Recency(latest) ==
    IF latest = None THEN 60 * Percent
    ELSE LET age == Today - latest
         IN  CASE age =< 24 -> One
               [] age > 24 /\ age =< 60 -> 85 * Percent
               [] age > 60 /\ age =< 120 -> 70 * Percent
               [] OTHER -> 55 * Percent

\* compute_person_project_relevance
ProjectRelevance(best, count, months) ==
    WeightedMean(<<<<70, best>>,
                   <<20, (Atmost(count, 3) * One) \div 3>>,
                   <<10, (Atmost(months, 36) * One) \div 36>>>>)

\* The projects to show, the best first.
BestProjects(base, score, pool) ==
    FirstThree(InOrder(pool, [j \in pool |-> <<-score[j], DateKey(base.projects[j]), j>>]))

\* summarize_persons, from the score of each of the projects: relevance and
\* recency come from the related ones.
SummaryOf(base, score, related) ==
    LET dates == {Latest(base.projects[j]) : j \in related} \ {None}
    IN  [relevance |-> IF related = {} THEN 0
                       ELSE ProjectRelevance(Max({score[j] : j \in related}), Cardinality(related),
                                             Total([j \in DOMAIN base.projects |->
                                                      IF j \in related THEN Duration(base.projects[j]) ELSE 0])),
         related |-> related # {},
         recency |-> Recency(IF dates = {} THEN None ELSE Max(dates)),
         top |-> BestProjects(base, score, IF related = {} THEN DOMAIN score ELSE related)]

Summarised(base, score) == SummaryOf(base, score, {j \in DOMAIN score : score[j] > 0})

NoSummary == [relevance |-> 0, related |-> FALSE, recency |-> 0, top |-> <<>>]

Summary(base, r, p) ==
    IF ProjectsCount(r)
    THEN Summarised(base, [j \in LiveProjects(base, p) |-> ProjectScore(base, r, j)])
    ELSE NoSummary

-----------------------------------------------------------------------------
(* The score of a person and the order of the results.                     *)

\* compute_final_relevance, relevance_to_score; ranks are those in the channels
\* that found the person.
FinalScore(r, ranks, ratio, summary) ==
    LET relevance == WeightedMean(
            When(RequiredPresent(r), <<20, One>>)
            \o When(ranks # <<>>, <<45, Mean([n \in DOMAIN ranks |-> Rrf(ranks[n])])>>)
            \o When(PreferredFields(r) # {}, <<10, ratio>>)
            \o When(ProjectsCount(r), <<20, summary.relevance>>)
            \o When(ProjectsCount(r) /\ summary.related, <<5, summary.recency>>))
    IN  (relevance * 100 + One \div 2) \div One

\* _sort_candidates: a row is a candidate with its score and sort keys.
SortKey(sort, row) ==
    LET score == -row.score
        latest == IF row.recent = None THEN <<1, 0>> ELSE <<0, -row.recent>>
        months == IF row.months = None THEN <<1, 0>> ELSE <<0, -row.months>>
    IN  CASE sort = "RELEVANCE" -> <<score, -row.ratio, -row.updated, row.person>>
          [] sort = "CAREER_DESC" -> months \o <<score, row.person>>
          [] sort = "UPDATED_DESC" -> <<-row.updated, score, row.person>>
          [] sort = "NAME_ASC" -> <<row.name, row.person>>
          [] sort = "RECENT_PROJECT_DESC" -> latest \o <<score, row.person>>

\* Ties are left to the identity of the person.
Sorted(rows, sort) == InOrder(rows, [row \in rows |-> SortKey(sort, row)])
=============================================================================
