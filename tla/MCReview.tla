------------------------------ MODULE MCReview ------------------------------
EXTENDS Review

Fields == {"name", "career_start_date", "career_document_value", "career_confirmed_months"}

Row(name, sub, start, end) == [name |-> name, sub |-> sub, start |-> start, end |-> end]
Item(val, refs) == [val |-> val, refs |-> refs]
Rel(kind, code, refs) == Item([kind |-> kind, code |-> code, raw |-> "raw"], refs)
Project(row, rels) == [name |-> row.name, sub |-> row.sub, start |-> row.start, end |-> row.end, rels |-> rels]
Scalar(field, val) == [field |-> field, val |-> val, refs |-> {"d1"}]
Empty == [x \in {} |-> x]

MCInitial ==
  [scalars |-> [f \in Fields |-> IF f = "name" THEN "Kim" ELSE Null],
   jobs    |-> {<<"J1", "PRIMARY">>},
   skills  |-> "T1" :> [year |-> Null, rep |-> FALSE],
   exps    |-> Empty,
   rows    |-> [EMPLOYMENT    |-> 1 :> Row("Acme", "dev", Dash(<<2020, 1, 1>>), Dash(<<2020, 12, 31>>)),
                EDUCATION     |-> 2 :> Row("Uni", Null, Null, Dash(<<2011, 2, 28>>)),
                CERTIFICATION |-> Empty,
                PROJECT       |-> 3 :> Row("Portal", "Bank", Dash(<<2021, 3, 1>>), Dash(<<2021, 6, 30>>))],
   rels    |-> 3 :> {<<"skills", "T1">>},
   nextId  |-> 4]

NoRows == [e \in Entities |-> <<>>]
Bare == [scalars |-> <<>>, jobs |-> <<>>, skills |-> <<>>, exps |-> <<>>, rows |-> NoRows]

\* A changed title, a new job that goes on, a degree to fill in, a certificate.
Career ==
  [Bare EXCEPT !.rows["EMPLOYMENT"] =
     <<Item(Row("Acme", "lead", Dash(<<2020, 1, 1>>), Dash(<<2020, 12, 31>>)), {"d1"}),
       Item(Row("Beta", Null, Dash(<<2022, 2>>), Employed), {"d1"})>>,
     !.rows["EDUCATION"] = <<Item(Row("Uni", "CS", Dash(<<2012, 3>>), Null), {"d1"})>>,
     !.rows["CERTIFICATION"] = <<Item(Row("CPA", Null, Dash(<<2019, 5>>), Null), {"d1", "lost"})>>]

\* A known project with a new skill, a suspect of it, a new project that goes on.
Projects ==
  [Bare EXCEPT !.rows["PROJECT"] =
     <<Item(Project(Row("Portal", "Bank", Dash(<<2021, 3>>), Junk), <<>>), {"d1"}),
       Item(Project(Row("Shop", "Mart", Dash(<<2022, 1>>), Underway),
                    <<Rel("skills", "T2", {"d1"}), Rel("jobs", Null, {"d1"})>>), {"d1"}),
       Item(Project(Row("Por tal", "Bank", Dash(<<2021, 3>>), Dash(<<2021, 6>>)),
                    <<Rel("skills", "T2", {"d1"})>>), {"d1"})>>]

\* Scalars and a second PRIMARY.
Scalars ==
  [Bare EXCEPT
     !.scalars = <<Scalar("name", "K im"), Scalar("career_document_value", "3 years"),
                   Scalar("career_start_date", Dash(<<2018, 1>>))>>,
     !.jobs    = <<Item([code |-> "J2", type |-> "PRIMARY"], {"d1"})>>]

\* A changed skill, one without a code, an expertise that only a project gives
\* evidence of.
Coding ==
  [Bare EXCEPT
     !.skills  = <<Item([code |-> "T1", meta |-> [year |-> 2020, rep |-> TRUE]], {"d1"}),
                   Item([code |-> Null, meta |-> [year |-> Null, rep |-> FALSE]], {"d1"})>>,
     !.exps    = <<Item([code |-> "E1", evidence |-> "DIRECT"], {})>>,
     !.rows["PROJECT"] =
       <<Item(Project(Row("Shop", Null, Dash(<<2022, 1>>), Dash(<<2022, 2>>)),
                      <<Rel("expertise", "E1", {"d1"}), Rel("expertise", "E1", {"d2"})>>), {"d1"})>>]

\* An end the documents disagree about, a chain of certificate periods, one
\* employment under two names.
Employments ==
  [Bare EXCEPT
     !.rows["EMPLOYMENT"] =
       <<Item(Row("Gamma", Null, Dot(<<2016, 1>>), Dot(<<2016, 12>>)), {"d1"}),
         Item(Row("Beta", Null, Dot(<<2018, 1, 1>>), Dot(<<2018, 6, 30>>)), {"d1"}),
         Item(Row("Gamma Inc", Null, Dot(<<2016, 1, 4>>), Dot(<<2016, 12>>)), {"d2"})>>]

\* One known degree in two subjects.
Degrees ==
  [Bare EXCEPT
     !.rows["EDUCATION"] =
       <<Item(Row("Uni", "CS", Null, Dash(<<2011, 2>>)), {"d1"}),
         Item(Row("Uni", "EE", Null, Dash(<<2011, 2>>)), {"d2"})>>]

\* A school that two source rows say something about, one certificate twice, a
\* text in the wrong field, the person's name as a project.
Noise ==
  [Bare EXCEPT
     !.scalars = <<Scalar("career_document_value", "leak")>>,
     !.rows["EDUCATION"] = <<Item(Row("Col", Null, Null, Null), {"d1"})>>,
     !.rows["CERTIFICATION"] =
       <<Item(Row("CPA", "Board", Dot(<<2019, 5>>), Null), {"d1"}),
         Item(Row("CPA", Null, Dot(<<2019, 5>>), Null), {"d2"})>>,
     !.rows["PROJECT"] = <<Item(Project(Row("Kim", Null, Null, Null), <<>>), {"d1"}),
                             Item(Project(Row(Null, "Mart", Null, Null), <<>>), {"d1"})>>]

Source(doc, kosa, section, row) ==
  [doc |-> doc, kosa |-> kosa, section |-> section, name |-> row.name, sub |-> row.sub,
   start |-> row.start, end |-> row.end]

MCPages ==
  <<Source("d1", FALSE, "employment", Row("Gamma", Null, Dot(<<2016, 1>>), Dot(<<2016, 12>>))),
    Source("d2", FALSE, "employment", Row("Gamma Inc", Null, Dot(<<2016, 1>>), Dot(<<2016, 12>>))),
    Source("d2", FALSE, "employment", Row("Gamma", Null, Dot(<<2016, 1>>), Dot(<<2016, 11>>))),
    Source("d2", TRUE,  "employment", Row("Beta", Null, Dot(<<2018, 1, 1>>), Dot(<<2018, 6, 30>>))),
    Source("d2", TRUE,  "employment", Row("Beta", Null, Dot(<<2018, 7, 1>>), Dot(<<2018, 12, 31>>))),
    Source("d1", FALSE, "education", Row("Col", "CS", Null, Null)),
    Source("d1", FALSE, "education", Row("Col", Null, Dot(<<2005, 3>>), Dot(<<2009, 2>>))),
    Source("d1", FALSE, "certification", Row("CPA", "Board", Dot(<<2019, 5>>), Null))>>

MCCandidates == <<Career, Projects, Scalars, Coding, Employments, Degrees, Noise>>

Companies == {"Acme", "Beta", "Gamma", "Gamma Inc"}
Texts == Companies \cup {"Uni", "Col", "CPA", "Portal", "Por tal", "Shop", "Kim", "K im", "Bank", "Mart",
                         "Board", "dev", "head", "lead", "CS", "EE", "Lee"}
Spelled == "Por tal" :> "Portal" @@ "K im" :> "Kim" @@ [t \in Texts |-> t]

MCEmployer == "Gamma Inc" :> "Gamma" @@ [t \in Texts \cup {Null} |-> IF t \in Companies THEN t ELSE Null]
MCLeaked == {<<"career_document_value", "leak">>}
MCMarked == {"Gamma Inc"}
MCCertName == [t \in Texts |-> t]
MCWidth == "Gamma Inc" :> 9 @@ [t \in Texts |-> 4]
MCMonthsOf == "3 years" :> 36 @@ "leak" :> Null

MCCorrections ==
  <<"EMPLOYMENT", Null>> :> {[end |-> Dash(<<2021, 2, 30>>)],
                             Row("Beta", Null, Dash(<<2022, 2>>), Dash(<<2021>>))}
  @@ <<"PROJECT", Null>> :> {[name |-> "Portal", end |-> Dash(<<2021, 8>>)],
                          [start |-> Dash(<<2021, 4>>), end |-> Dash(<<2021, 2, 30>>)]}
  @@ <<"PROJECT", "jobs">> :> {[kind |-> "jobs", code |-> "J1", raw |-> "raw"]}
  @@ <<"TECH", Null>> :> {[code |-> "T2", meta |-> [year |-> 2021]]}

MCNewRows == {<<"CERTIFICATION", Row("CPA", Null, Dash(<<2019, 5, 1>>), Null)>>}
MCFieldEdits == {<<"EMPLOYMENT", "sub", "head">>, <<"PROJECT", "end", Dash(<<2021, 2, 1>>)>>}
MCScalarEdits == {<<"name", "Lee">>}
MCSkillSets == {[c \in {"T2"} |-> [year |-> Null, rep |-> FALSE]]}
MCExpertiseSets == {[c \in {"E1"} |-> "SELF"]}
=============================================================================
