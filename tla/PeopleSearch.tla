----------------------------- MODULE PeopleSearch -----------------------------
(***************************************************************************)
(* A user searches for people and walks through the pages of the result    *)
(* (search_people in modules/search/query_service.py, POST /search/people).*)
(*                                                                         *)
(* A search takes no lock. Each of its statements sees what is committed   *)
(* when it runs (READ COMMITTED), so that profiles, projects, documents    *)
(* and the index may change between any two of them. Each page is a search *)
(* of its own.                                                             *)
(***************************************************************************)
EXTENDS SearchEvidence

CONSTANTS
    Bases,     \* bases to search in
    Requests,  \* what may be asked for, from page 1
    MaxEdits   \* bound: changes while the user searches

ASSUME SearchAssumption ==
    /\ MaxEdits \in Nat /\ EvidenceLimit \in Nat /\ None \notin Int
    /\ Bases \subseteq Base /\ Requests \subseteq {r \in Request : r.page = 1}

VARIABLES
    base,      \* the database
    request,   \* the request of the page that is being made
    step,      \* the statement that comes next
    read,      \* what the statements of this page have read
    pages,     \* the responses so far, one per page
    edits,     \* changes since the first page was asked for
    everMet    \* the people who met the conditions at some time during this page

vars == <<base, request, step, read, pages, edits, everMet>>

People == DOMAIN base.people
HasRetrieval(r) == r.keyword \/ r.semantic

Nothing == [keyword |-> <<>>, vector |-> <<>>, cut |-> FALSE, people |-> {}, ratio |-> <<>>,
            total |-> 0, results |-> <<>>, top |-> <<>>, matches |-> <<>>]

Init ==
    /\ base \in Bases
    /\ request \in Requests
    /\ step = "check" /\ read = Nothing /\ pages = <<>>
    /\ edits = 0 /\ everMet = Eligible(base, request)

Page == UNCHANGED <<base, request, pages, edits, everMet>>

-----------------------------------------------------------------------------
(* The statements of a search.                                             *)

\* validate_and_expand_codes
CheckCodes ==
    /\ step = "check"
    /\ step' = IF ~CodesKnown(request) THEN "refused"
               ELSE IF request.keyword THEN "keyword" ELSE IF request.semantic THEN "embed" ELSE "list"
    /\ UNCHANGED read /\ Page

\* What a row of the result shows and is sorted by.
Row(b, p) == [person |-> p, name |-> b.people[p].name, updated |-> b.people[p].updated,
              months |-> CareerMonths(b.people[p]), score |-> 0, ratio |-> 0,
              recent |-> LET dates == {Latest(b.projects[j]) : j \in LiveProjects(b, p)} \ {None}
                         IN  IF dates = {} THEN None ELSE Max(dates)]

\* list_eligible_persons, if there is neither a keyword nor a text.
ListEligible ==
    /\ step = "list"
    /\ read' = [read EXCEPT !.people = {Row(base, p) : p \in Eligible(base, request)}]
    /\ step' = "preferred" /\ Page

ReadKeyword ==
    /\ step = "keyword"
    /\ LET channel == KeywordHits(base, request)
       IN  read' = [read EXCEPT !.keyword = channel.hits, !.cut = channel.cut]
    /\ step' = IF request.semantic THEN "embed" ELSE "load"
    /\ Page

\* _embed_semantic_query: the provider answers, or the search fails with 503.
Embed ==
    /\ step = "embed"
    /\ step' \in {"vector", "failed"}
    /\ UNCHANGED read /\ Page

ReadVector ==
    /\ step = "vector"
    /\ LET channel == VectorHits(base, request)
       IN  read' = [read EXCEPT !.vector = channel.hits, !.cut = @ \/ channel.cut]
    /\ step' = "load" /\ Page

\* merge_channel_hits, load_eligible_persons_by_ids: only that the person is
\* still active is looked at again.
LoadPeople ==
    /\ step = "load"
    /\ read' = [read EXCEPT !.people =
                  {Row(base, p) : p \in {p \in HitPeople(base, read.keyword) \cup HitPeople(base, read.vector) :
                                            base.people[p].active}}]
    /\ step' = "preferred" /\ Page

ReadPreferred ==
    /\ step = "preferred"
    /\ read' = [read EXCEPT !.ratio =
                  [p \in {row.person : row \in read.people} |->
                      IF PreferredFields(request) = {} THEN 0
                      ELSE (Cardinality(PreferredMet(base, p, request)) * One)
                           \div Cardinality(PreferredFields(request))]]
    /\ step' = "projects" /\ Page

PageOf(ordered, r) ==
    SubSeq(ordered, (r.page - 1) * r.size + 1, Atmost(r.page * r.size, Len(ordered)))

\* summarize_persons, the score of each person, the order and the page.
RankPeople ==
    /\ step = "projects"
    /\ LET summary == [p \in DOMAIN read.ratio |-> Summary(base, request, p)]
           ranks(p) == RanksIn(base, read.keyword, p) \o RanksIn(base, read.vector, p)
           scored == {[row EXCEPT !.score = FinalScore(request, ranks(row.person), read.ratio[row.person],
                                                      summary[row.person]),
                                  !.ratio = read.ratio[row.person]] :
                        row \in read.people}
           ordered == Sorted(scored, request.sort)
       IN  read' = [read EXCEPT !.total = Len(ordered),
                                !.results = PageOf(ordered, request),
                                !.top = [p \in DOMAIN read.ratio |-> summary[p].top]]
    /\ step' = "match" /\ Page

ReadMatches ==
    /\ step = "match"
    /\ read' = [read EXCEPT !.matches =
                  [n \in DOMAIN read.results |-> Scaffold(base, read.results[n].person, request)]]
    /\ step' = "explain" /\ Page

\* enrich, and the response: with suggestions if nobody was found.
Respond ==
    /\ step = "explain"
    /\ pages' = Append(pages,
          [results |-> read.results,
           explained |-> [n \in DOMAIN read.results |->
                            LET p == read.results[n].person
                            IN  Explain(base, p, request, read.matches[n], read.top[p],
                                        read.keyword \o read.vector)],
           total |-> read.total,
           cut |-> read.cut,
           suggestions |-> IF read.total = 0 THEN Relaxations(request) ELSE <<>>])
    /\ step' = "done" /\ read' = Nothing
    /\ UNCHANGED <<base, request, edits, everMet>>

\* The user asks for the next page, which is a new search.
NextPage ==
    /\ step = "done"
    /\ request.page * request.size < Last(pages).total
    /\ request' = [request EXCEPT !.page = @ + 1]
    /\ step' = "check" /\ everMet' = Eligible(base, request)
    /\ UNCHANGED <<base, read, pages, edits>>

-----------------------------------------------------------------------------
(* What others commit meanwhile.                                           *)

Edit(new) ==
    /\ edits < MaxEdits
    /\ step \notin {"refused", "failed"}
    /\ base' = new /\ base' # base
    /\ edits' = edits + 1
    /\ everMet' = everMet \cup Eligible(new, request)
    /\ UNCHANGED <<request, step, read, pages>>

PersonDeleted == \E p \in People : Edit([base EXCEPT !.people[p].active = FALSE])

ProfileEdited ==
    \E p \in People, f \in {"skills", "grade"} : Edit([base EXCEPT !.people[p].own[f] = {}])

ProjectDeleted == \E j \in DOMAIN base.projects : Edit([base EXCEPT !.projects[j].live = FALSE])

\* A document goes: its evidence is not shown any more, its chunks leave the index.
DocumentDeleted ==
    \E p \in People :
        Edit([base EXCEPT
               !.links = [l \in DOMAIN @ |-> IF @[l].person = p THEN [@[l] EXCEPT !.live = FALSE] ELSE @[l]],
               !.items = [i \in DOMAIN @ |-> IF @[i].person = p /\ @[i].type = "DOCUMENT_CHUNK"
                                             THEN [@[i] EXCEPT !.readable = FALSE, !.active = FALSE] ELSE @[i]]])

\* The index catches up with a change of the text: its vector has to be made anew.
Reindexed == \E i \in DOMAIN base.items : Edit([base EXCEPT !.items[i].text = 0, !.items[i].vector = FALSE])

Next ==
    \/ CheckCodes \/ ListEligible \/ ReadKeyword \/ Embed \/ ReadVector \/ LoadPeople
    \/ ReadPreferred \/ RankPeople \/ ReadMatches \/ Respond \/ NextPage
    \/ PersonDeleted \/ ProfileEdited \/ ProjectDeleted \/ DocumentDeleted \/ Reindexed

Spec == Init /\ [][Next]_vars

-----------------------------------------------------------------------------
(* Properties.                                                             *)

TypeOK ==
    /\ base \in Base /\ request \in Request
    /\ step \in {"check", "list", "keyword", "embed", "vector", "load", "preferred", "projects",
                "match", "explain", "done", "refused", "failed"}
    /\ DOMAIN read = DOMAIN Nothing
    /\ everMet \subseteq People /\ edits \in 0..MaxEdits
    /\ pages \in Seq(Range(pages))

Answered == step = "done"
Answer == Last(pages)

\* Nobody is returned who did not meet every required condition at some time
\* while the page was made, however near the text is: the channels filter by
\* themselves, and what they found is not checked against the conditions again
\* (load_eligible_persons_by_ids).
FiltersAreHard ==
    Answered => \A n \in DOMAIN Answer.results : Answer.results[n].person \in everMet

\* Everybody the channels can find, or everybody who is eligible if there is no channel.
Having(b, keys, people) == {p \in people : \E i \in DOMAIN keys : b.items[i].person = p}
Findable(b, r) ==
    IF HasRetrieval(r)
    THEN (IF r.keyword THEN Having(b, KeywordKeys(b), Eligible(b, r)) ELSE {})
         \cup (IF r.semantic THEN Having(b, VectorKeys(b), Eligible(b, r)) ELSE {})
    ELSE Eligible(b, r)

\* Without changes, and as long as no page says that its candidates were cut,
\* the pages show everybody who can be found, each once, and agree on how many
\* they are, although each page ranks candidates of a number of its own
\* (channel_candidate_limit).
PagesTileTheResult ==
    Answered /\ edits = 0 /\ (\A n \in DOMAIN pages : ~pages[n].cut) =>
        LET places == UNION {{n} \X DOMAIN pages[n].results : n \in DOMAIN pages}
            shown(at) == pages[at[1]].results[at[2]].person
        IN  /\ \A a, b \in places : shown(a) = shown(b) => a = b
            /\ \A n \in DOMAIN pages : pages[n].total = Cardinality(Findable(base, request))
            /\ request.page * request.size >= Answer.total =>
                  {shown(at) : at \in places} = Findable(base, request)

\* Grade and affiliation are one field of the profile.
Place(t) == IF t.field \in {"grade", "affiliations"} THEN OnRow(t.row, t.field, "") ELSE t

\* The row is about the condition.
Justifies(t, item, rows) ==
    \/ /\ t.field = item.field
       /\ t.field \in {"grade", "affiliations"} \/ Meets(Substring, t.field, t.value, Wanted(t.field, item.values))
    \/ item.field = "career" /\ t.field \in {"career_confirmed_months", "career_calculated_months"}
    \/ /\ item.field = "project_keywords" /\ t.field = ""
       /\ \E u \in rows : u.field = item.field /\ u.table = t.table /\ u.row = t.row

\* The text of the row is found with wildcards only.
PatternOnly(t, item) ==
    /\ item.field \in {"certifications", "project_keywords"}
    /\ ~Meets(Substring, item.field, t.value, item.values)

\* What is said of a person about a condition, and the rows sought for it, agree
\* with what the database finds.
Agree(b, p, item, rows) ==
    LET met == RowsMeeting(Ilike, b, p, item.field, Wanted(item.field, item.values))
    IN  /\ \A t \in rows : Justifies(t, item, rows)
        /\ IF item.field = "career" THEN item.status = "MATCH" /\ rows # {}
           ELSE /\ (item.status = "MATCH") <=> (met # {})
                /\ met = {} => rows = {}
                /\ \A t \in met : Place(t) \in rows \/ PatternOnly(t, item)

\* Without changes, the filters (SQL), the list of conditions, the list of
\* evidence specifications and the search for rows (four functions, two lists
\* that belong together by position) agree. A condition is said to be matched
\* exactly if the database finds a row of the person that meets it; every such
\* row is among those that evidence is sought for, and none is that is about
\* another condition; a condition that is not matched has none. They disagree
\* about a certificate or a keyword that only SQL finds, by a wildcard in the
\* text asked for: such a row is left out, and where a person has no others, a
\* match has no row at all.
MatchesAreJustified ==
    Answered /\ edits = 0 =>
        \A n \in DOMAIN Answer.results :
            LET told == Answer.explained[n]
            IN  \A m \in DOMAIN told.matches :
                    Agree(base, Answer.results[n].person, told.matches[m], told.targets[m])

\* To have done one more related project never lowers a score: the weights are
\* spread over the parts that are there, so a part that appears could. It does,
\* where three related projects without dates are joined by an old one that
\* has a date, and the benefit of the doubt is lost.
RelatedWorkNeverHurts ==
    Answered =>
        \A n \in DOMAIN Answer.results :
            LET p == Answer.results[n].person
                ranks == RanksIn(base, KeywordHits(base, request).hits, p)
                         \o RanksIn(base, VectorHits(base, request).hits, p)
                ratio == Answer.results[n].ratio
                score(b) == FinalScore(request, ranks, ratio, Summary(b, request, p))
            IN  \A j \in LiveProjects(base, p) :
                    LET without == [base EXCEPT !.projects[j].live = FALSE]
                        others == {o \in LiveProjects(without, p) : ProjectScore(base, request, o) > 0}
                    IN  \/ ProjectScore(base, request, j) = 0
                        \/ score(base) >= score(without)
                        \/ Cardinality(others) >= 3 /\ \A o \in others : Latest(base.projects[o]) = None

\* A suggestion is a relaxation: in any base it finds whoever the request finds.
SuggestionsRelax ==
    Answered =>
        \A n \in DOMAIN Answer.suggestions : \A b \in Bases :
            Findable(b, request) \subseteq Findable(b, Answer.suggestions[n])
=============================================================================
