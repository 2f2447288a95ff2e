--------------------------- MODULE SearchConditions ---------------------------
(***************************************************************************)
(* What a search for people asks and who meets it: the request             *)
(* (modules/search/query_schemas.py), the hard filters and the preferred   *)
(* conditions (modules/search/query_repository.py), and the suggestions    *)
(* made when nobody is found (build_search_relaxations in                  *)
(* modules/search/query_service.py).                                       *)
(*                                                                         *)
(* A condition value is a code, which a field holds or not, or a text that *)
(* is looked for in the stored texts. The filters and the search for rows  *)
(* look for a text in two ways: SQL ILIKE '%text%' and Python's `in` after *)
(* casefold. A % or _ in the text is a wildcard to the first and a         *)
(* character to the second.                                                *)
(***************************************************************************)
EXTENDS SequencesExt, FiniteSetsExt, Integers

CONSTANTS
    Parent,     \* code_master: the parent of each known JOB code, or None
    Codes,      \* the other codes of the catalogue, by field
    Values,     \* codes and texts that fields hold and conditions ask for
    Ilike,      \* stored texts that ILIKE finds, each with the text asked for
    Substring,  \* stored texts that `in` finds after casefold, likewise
    Evidence,   \* pieces of evidence
    None        \* SQL NULL; a career bound that is not given

ASSUME CatalogueAssumption == IsFiniteSet(DOMAIN Parent)
ASSUME TextsAssumption == Ilike \subseteq Values \X Values /\ Substring \subseteq Values \X Values

CodeFields == <<"jobs", "skills", "expertise", "business_domains", "customer_types">>
TextFields == <<"affiliations", "certifications", "project_keywords">>
Fields == Range(CodeFields) \cup Range(TextFields) \cup {"grade"}

\* Where a condition of a field is looked for.
OnProfile == {"jobs", "skills", "expertise", "grade", "affiliations", "certifications"}
OnProjects == {"jobs", "skills", "expertise", "business_domains", "customer_types", "project_keywords"}

-----------------------------------------------------------------------------
(* A base is what the search reads of the database. Numbers identify        *)
(* people, projects and items; dates are months.                           *)

Nullable(S) == S \cup {None}

\* The profile of a person: the values each field holds, the months of career
\* that a reviewer confirmed or that were calculated, and the order of names.
Person == [active : BOOLEAN, own : [OnProfile -> SUBSET Values],
           confirmed : Nullable(Int), calculated : Nullable(Int), name : Int, updated : Int]

\* Some expertise of a project was only inferred. No project has a negative
\* number of months (project_duration_months_check).
Project == [person : Nat, live : BOOLEAN, has : [OnProjects -> SUBSET Values], inferred : SUBSET Values,
            start : Nullable(Int), end : Nullable(Int), months : Nullable(Nat)]

\* A row of the search index, see SearchRanking.
Item == [person : Nat, type : {"PROFILE", "PROJECT", "DOCUMENT_CHUNK"}, object : Nat, active : BOOLEAN,
         text : Int, near : Int, vector : BOOLEAN, readable : BOOLEAN]

\* A link from a field to evidence, see SearchEvidence.
Target == [table : {"person", "project"}, row : Nat,
           field : Fields \cup {"career_confirmed_months", "career_calculated_months", ""},
           value : Values \cup {""}]
Link == [evidence : Evidence, person : Nat, target : Target, live : BOOLEAN]

Base == [people : Seq(Person), projects : Seq(Project), items : Seq(Item), links : Seq(Link)]

Sorts == {"RELEVANCE", "CAREER_DESC", "UPDATED_DESC", "NAME_ASC", "RECENT_PROJECT_DESC"}

\* SearchRequest: conditions that must be met and conditions that count, a
\* keyword or a text or both, and the page that is asked for.
Request == [required : [Fields -> Seq(Values)], preferred : [Range(CodeFields) -> Seq(Values)],
            min : Nullable(Nat), max : Nullable(Nat), mode : {"ANY", "ALL"},
            keyword : BOOLEAN, semantic : BOOLEAN, sort : Sorts, page : Nat \ {0}, size : Nat \ {0}]

-----------------------------------------------------------------------------
(* The catalogue.                                                          *)

\* _expand_job_codes: a code and all below it; a cycle of parents is cut.
Below(root) ==
    LET known == DOMAIN Parent
        within[n \in 0..Cardinality(known)] ==
            IF n = 0 THEN {root} \cap known
            ELSE within[n - 1] \cup {c \in known : Parent[c] \in within[n - 1]}
    IN  within[Cardinality(known)]

\* _job_condition_groups: an unknown root stands for itself.
JobGroup(root) == IF Below(root) = {} THEN {root} ELSE Below(root)

\* _assert_codes: a code that is missing or of another type refuses the search.
CodesKnown(r) ==
    \A f \in Range(CodeFields) :
        Range(r.required[f]) \cup Range(r.preferred[f]) \subseteq
            (IF f = "jobs" THEN DOMAIN Parent ELSE Codes[f])

-----------------------------------------------------------------------------
(* Conditions.                                                             *)

LiveProjects(base, p) ==
    {j \in DOMAIN base.projects : base.projects[j].person = p /\ base.projects[j].live}

\* What a list of values stands for; only jobs have a hierarchy.
Wanted(f, values) == IF f = "jobs" THEN UNION {Below(c) : c \in values} ELSE values

\* A stored value meets one of those asked for: a code is one of them, a text
\* is found with one of them.
Meets(test, f, value, asked) ==
    IF f \in Range(TextFields) THEN \E a \in asked : <<value, a>> \in test ELSE value \in asked

\* _person_has_*: on the profile or in one of the projects that are not deleted.
\* The database compares texts.
Has(base, p, f, values) ==
    \/ f \in OnProfile /\ \E v \in base.people[p].own[f] : Meets(Ilike, f, v, values)
    \/ f \in OnProjects /\ \E j \in LiveProjects(base, p) :
                              \E v \in base.projects[j].has[f] : Meets(Ilike, f, v, values)

\* effective_career_months_expr
CareerMonths(person) == IF person.confirmed # None THEN person.confirmed ELSE person.calculated

CareerMet(person, r) ==
    \/ r.min = None /\ r.max = None
    \/ /\ CareerMonths(person) # None
       /\ r.min # None => CareerMonths(person) >= r.min
       /\ r.max # None => CareerMonths(person) =< r.max

\* Within a field the values are alternatives, but for skills in mode ALL.
FieldMet(base, p, r, f) ==
    LET asked == Range(r.required[f])
    IN  IF f = "skills" /\ r.mode = "ALL"
        THEN \A c \in asked : Has(base, p, f, {c})
        ELSE asked = {} \/ Has(base, p, f, Wanted(f, asked))

\* eligible_person_ids_subquery: the people a search may return.
Eligible(base, r) ==
    {p \in DOMAIN base.people :
        /\ base.people[p].active
        /\ \A f \in Fields : FieldMet(base, p, r, f)
        /\ CareerMet(base.people[p], r)}

PreferredFields(r) == {f \in Range(CodeFields) : r.preferred[f] # <<>>}

\* preferred_match_ratio: how many of the preferred fields are met by any value.
PreferredMet(base, p, r) ==
    {f \in PreferredFields(r) : Has(base, p, f, Wanted(f, Range(r.preferred[f])))}

\* _required_present
RequiredPresent(r) ==
    (\E f \in Fields : r.required[f] # <<>>) \/ r.min # None \/ r.max # None

-----------------------------------------------------------------------------
(* Suggestions for a search without results.                               *)

MaxRelaxations == 3

When(condition, x) == IF condition THEN <<x>> ELSE <<>>

\* A required code becomes a preferred one; a required text is given up.
DropCode(r, f) ==
    LET code == Head(r.required[f])
    IN  [r EXCEPT !.required[f] = Tail(@),
                  !.preferred[f] = IF code \in Range(@) THEN @ ELSE Append(@, code)]

DropText(r, f) == [r EXCEPT !.required[f] = Tail(@)]

\* In the order in which build_search_relaxations tries them.
Suggestible(r) ==
    When(Len(r.required["skills"]) >= 2 /\ r.mode = "ALL", [r EXCEPT !.mode = "ANY"])
    \o When(r.min # None /\ r.min > 0, [r EXCEPT !.min = IF @ > 12 THEN @ - 12 ELSE 0])
    \o When(r.required["grade"] # <<>>, [r EXCEPT !.required["grade"] = <<>>])
    \o FoldLeft(LAMBDA acc, f : acc \o When(r.required[f] # <<>>, DropCode(r, f)), <<>>, CodeFields)
    \o FoldLeft(LAMBDA acc, f : acc \o When(r.required[f] # <<>>, DropText(r, f)), <<>>, TextFields)
    \o When(r.keyword, [r EXCEPT !.keyword = FALSE])

\* _add: distinct suggestions, at most three.
Relaxations(r) ==
    FoldLeft(LAMBDA acc, s : IF s \in Range(acc) \/ Len(acc) >= MaxRelaxations THEN acc ELSE Append(acc, s),
             <<>>, Suggestible(r))
=============================================================================
