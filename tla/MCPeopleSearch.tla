----------------------------- MODULE MCPeopleSearch -----------------------------
(***************************************************************************)
(* Four people for PeopleSearch. Ann has long experience in four projects, *)
(* three of them without dates; Bob and Cho one project each, Cho without  *)
(* a vector; Dan is found by a chunk of his résumé alone. The channels     *)
(* look at three people at least and at four at most.                      *)
(*                                                                         *)
(* "l_an" finds "loan desk" by ILIKE but not by `in`, and "strasse" finds  *)
(* "Straße" the other way round; "loan" finds both of the texts about loans.*)
(***************************************************************************)
EXTENDS PeopleSearch

MCParent == ("J-DEV" :> None) @@ ("J-WEB" :> "J-DEV") @@ ("J-PM" :> None)
MCCodes == ("skills" :> {"py", "go"}) @@ ("expertise" :> {"data"})
           @@ ("business_domains" :> {"bank"}) @@ ("customer_types" :> {"public"})

Given(fields, given) == [f \in fields |-> IF f \in DOMAIN given THEN given[f] ELSE {}]
Asked(fields, asked) == [f \in fields |-> IF f \in DOMAIN asked THEN asked[f] ELSE <<>>]

MCValues == {"J-DEV", "J-WEB", "J-PM", "py", "go", "cobol", "data", "bank", "public",
             "HIGH", "Acme Ltd", "acme", "SQLP level 2", "sqlp", "loan desk", "loans, Straße",
             "loan", "l_an", "strasse", "none"}
MCSubstring == {<<"Acme Ltd", "acme">>, <<"SQLP level 2", "sqlp">>, <<"loan desk", "loan">>,
                <<"loans, Straße", "loan">>, <<"loans, Straße", "strasse">>}
MCIlike == (MCSubstring \ {<<"loans, Straße", "strasse">>})
           \cup {<<"loan desk", "l_an">>, <<"loans, Straße", "l_an">>}
MCEvidence == {"e1", "e2", "e3", "e4"}

Someone(name, own, confirmed, calculated) ==
    [active |-> TRUE, own |-> Given(OnProfile, own), confirmed |-> confirmed,
     calculated |-> calculated, name |-> name, updated |-> 5 - name]

Work(person, has, inferred, start, end, months) ==
    [person |-> person, live |-> TRUE, has |-> Given(OnProjects, has), inferred |-> inferred,
     start |-> start, end |-> end, months |-> months]

Indexed(person, type, object, text, near, vector) ==
    [person |-> person, type |-> type, object |-> object, active |-> TRUE,
     text |-> text, near |-> near, vector |-> vector, readable |-> TRUE]

Linked(evidence, person, target) == [evidence |-> evidence, person |-> person, target |-> target, live |-> TRUE]

Ann == Someone(1, ("jobs" :> {"J-DEV"}) @@ ("skills" :> {"py", "go"}) @@ ("grade" :> {"HIGH"}), 96, 100)
Bob == Someone(2, ("skills" :> {"py"}) @@ ("grade" :> {"HIGH"}) @@ ("affiliations" :> {"Acme Ltd"}), None, 40)
Cho == Someone(3, ("skills" :> {"go"}) @@ ("expertise" :> {"data"}) @@ ("certifications" :> {"SQLP level 2"}), 20, None)
Dan == Someone(4, "skills" :> {"py"}, None, None)

MCProjects == <<
    Work(1, ("skills" :> {"py"}) @@ ("jobs" :> {"J-WEB"}), {}, None, None, 40),
    Work(1, "skills" :> {"py", "go"}, {}, None, None, 30),
    Work(1, ("skills" :> {"go"}) @@ ("expertise" :> {"data"}), {"data"}, None, None, None),
    Work(1, ("skills" :> {"py"}) @@ ("business_domains" :> {"bank"}), {}, 10, 14, None),
    Work(2, ("skills" :> {"py"}) @@ ("project_keywords" :> {"loan desk", "loans, Straße"}) @@ ("customer_types" :> {"public"}),
         {}, 150, None, None),
    Work(3, "jobs" :> {"J-PM"}, {}, 100, 120, 20) >>

MCItems == <<
    Indexed(1, "PROFILE", 1, 50, 60, TRUE), Indexed(1, "PROJECT", 1, 100, 90, TRUE),
    Indexed(1, "PROJECT", 4, 40, 20, TRUE), Indexed(2, "PROFILE", 2, 100, 70, TRUE),
    Indexed(2, "PROJECT", 5, 60, 80, FALSE), Indexed(3, "PROFILE", 3, 30, 95, FALSE),
    Indexed(3, "PROJECT", 6, 0, 50, TRUE), Indexed(4, "DOCUMENT_CHUNK", 1, 100, 100, TRUE) >>

MCLinks == <<
    Linked("e1", 1, OnRow(1, "skills", "py")), Linked("e1", 1, OnProject(1, "skills", "py")),
    Linked("e2", 1, OnProject(2, "skills", "go")), Linked("e3", 1, OnRow(1, "career_confirmed_months", "")),
    Linked("e4", 2, OnRow(2, "grade", "")), Linked("e4", 2, OnProject(5, "", "")) >>

Company == [people |-> <<Ann, Bob, Cho, Dan>>, projects |-> MCProjects, items |-> MCItems, links |-> MCLinks]

\* Cho knows Python alone and has a grade, and every vector is there; Dan has left.
Later == [Company EXCEPT !.people[3].own["skills"] = {"py"}, !.people[3].own["grade"] = {"HIGH"}, !.people[4].active = FALSE,
                         !.items = [i \in DOMAIN @ |-> [@[i] EXCEPT !.vector = TRUE]]]

MCBases == {Company, Later}

Ask(required, preferred, keyword, semantic, sort, size) ==
    [required |-> Asked(Fields, required), preferred |-> Asked(Range(CodeFields), preferred),
     min |-> None, max |-> None, mode |-> "ANY", keyword |-> keyword, semantic |-> semantic,
     sort |-> sort, page |-> 1, size |-> size]

MCRequests == {
    Ask(<<>>, <<>>, TRUE, TRUE, "RELEVANCE", 2),
    Ask("skills" :> <<"py">>, "business_domains" :> <<"bank">>, TRUE, FALSE, "RELEVANCE", 1),
    Ask("grade" :> <<"HIGH">>, ("jobs" :> <<"J-DEV">>) @@ ("expertise" :> <<"data">>), FALSE, TRUE, "UPDATED_DESC", 1),
    [Ask("skills" :> <<"py", "go">>, "skills" :> <<"go">>, TRUE, TRUE, "CAREER_DESC", 1) EXCEPT !.mode = "ALL"],
    [Ask("skills" :> <<"py", "go">>, "customer_types" :> <<"public">>, FALSE, FALSE, "NAME_ASC", 2)
        EXCEPT !.min = 24],
    Ask(("jobs" :> <<"J-DEV", "J-PM">>) @@ ("project_keywords" :> <<"loan">>), <<>>, FALSE, FALSE,
        "RECENT_PROJECT_DESC", 1),
    Ask(("affiliations" :> <<"acme">>) @@ ("project_keywords" :> <<"loan">>), <<>>, FALSE, FALSE,
        "RECENT_PROJECT_DESC", 1),
    Ask(("skills" :> <<"py">>) @@ ("project_keywords" :> <<"l_an">>), <<>>, FALSE, FALSE, "NAME_ASC", 1),
    Ask("project_keywords" :> <<"l_an", "strasse">>, <<>>, FALSE, FALSE, "CAREER_DESC", 1),
    [Ask("certifications" :> <<"sqlp">>, <<>>, FALSE, FALSE, "RELEVANCE", 1) EXCEPT !.min = 20],
    Ask(<<>>, "skills" :> <<"py", "go">>, FALSE, FALSE, "RELEVANCE", 2),
    Ask("skills" :> <<"cobol">>, <<>>, TRUE, FALSE, "RELEVANCE", 2) }

\* Nobody has the certificate, the grade and one of the two skills, but Cho later.
MCEmpty == {
    Ask(("certifications" :> <<"sqlp">>) @@ ("affiliations" :> <<"acme">>), <<>>, FALSE, FALSE, "RELEVANCE", 1),
    Ask(("skills" :> <<"py", "go">>) @@ ("project_keywords" :> <<"none">>), <<>>, FALSE, FALSE, "RELEVANCE", 1),
    Ask(("skills" :> <<"py", "go">>) @@ ("certifications" :> <<"sqlp">>) @@ ("grade" :> <<"HIGH">>),
        <<>>, FALSE, FALSE, "RELEVANCE", 1) }
=================================================================================
