----------------------------- MODULE MCCandidateBuild -----------------------------
(***************************************************************************)
(* A small person for CandidateBuild: a KOSA certificate (document 1) with *)
(* two rows of a table, and a profile (document 2) that sums them up in a  *)
(* project of its own and has another one; a source has both documents or  *)
(* the profile alone.                                                      *)
(***************************************************************************)
EXTENDS CandidateBuild

MCCatalog ==
    [c \in {"JOB-OPS-SYS", "JOB-MGT", "JOB-MGT-PM", "JOB-DATA-DBA"} |-> "JOB"]
    @@ [c \in {"TECH-ORA", "TECH-PG"} |-> "TECH"]
    @@ [c \in {"EXP-INFRA", "EXP-MGT", "EXP-SEC-OPS", "EXP-DATA"} |-> "EXP"]
    @@ ("BIZ-FIN" :> "BIZ") @@ ("CUST-BANK" :> "CUSTOMER_TYPE")

MCCodeOrder == <<"BIZ-FIN", "CUST-BANK", "EXP-DATA", "EXP-INFRA", "EXP-MGT", "EXP-SEC-BUILD",
                 "EXP-SEC-OPS", "JOB-ARC-TA", "JOB-DATA-DBA", "JOB-MGT", "JOB-MGT-PL", "JOB-MGT-PM",
                 "JOB-OPS-SYS", "TECH-ORA", "TECH-PG">>

MCLiteral  == [c \in {"JOB-MGT-PM", "JOB-MGT", "JOB-DATA-DBA", "EXP-DATA"} |->
                 CASE c = "JOB-MGT-PM" -> {"PM"} [] c = "JOB-MGT" -> {"manage"}
                   [] c = "JOB-DATA-DBA" -> {"DBA"} [] OTHER -> {"db design"}]
MCBlocking == "JOB-DATA-DBA" :> {"DBA team"}
MCTechs    == ("TECH-ORA" :> {"Oracle", "DB"}) @@ ("TECH-PG" :> {"Postgres", "DB"})

Phrase(words, with, duty, strength) ==
    [words |-> words, with |-> with, duty |-> duty, strength |-> strength]

MCCorePatterns ==
    ("EXP-INFRA" :> <<Phrase({"build and operate"}, {"support"}, {}, 3),
                      Phrase({"operate", "secops"}, {}, {}, 1)>>)
    @@ ("EXP-MGT" :> <<Phrase({"manage"}, {}, {}, 1)>>)
MCProjectPatterns ==
    ("EXP-INFRA" :> <<Phrase({"build and operate"}, {"support"}, {"run"}, 3),
                      Phrase({"operate"}, {}, {"run"}, 1)>>)
    @@ ("EXP-MGT" :> <<Phrase({"manage"}, {}, {}, 1)>>)
    @@ ("EXP-SEC-OPS" :> <<Phrase({"secops"}, {}, {"run"}, 2)>>)

MCPeriods ==
    ("2020-01~06" :> [start |-> 1, end |-> 6]) @@ ("2020-07~12" :> [start |-> 7, end |-> 12])
    @@ ("2020-01~12" :> [start |-> 1, end |-> 12]) @@ ("2021-01~03" :> [start |-> 13, end |-> 15])
MCOpenPeriods == "2021-01~" :> 13
MCTitleKey    == ("1. Loans" :> "Loans") @@ ("Skills" :> "Skills")
MCDocType     == <<"DOC-KOSA", "DOC-PROFILE">>
MCAnchors     == {{"Loans 1", "Loans"}, {"Loans 2", "Loans"}, {"Cards"}, {"Loans"}, {"Loans 1", "Loans 2"}}
MCCollation == [w \in {"Bank", "Cards", "Gov", "Loans", "Loans 1", "Loans 2", "Taxes"} |->
             CASE w = "Bank" -> 1 [] w = "Cards" -> 2 [] w = "Gov" -> 3 [] w = "Loans" -> 4
               [] w = "Loans 1" -> 5 [] w = "Loans 2" -> 6 [] OTHER -> 7]
MCStatusWords == "graduated" :> {"graduated"}

Table   == <<1, 1>>
MCTables == {Table}
Career  == <<2, 1>>
Details == <<2, 2>>

TableLines ==
    << <<"Loans 1", "2020-01~06", "Bank", "operate">>, <<"Loans 2", "2020-07~12", "Bank", "PM">> >>
CareerLines ==
    << <<"Loans", "2020-01~12", "Bank", "operate", "Oracle">>,
       <<"Taxes", "2021-01~03", "Gov", "secops", "run", "DBA">> >>
DetailLines ==
    << <<"Kim">>, <<"State University", "graduated">>, <<"1. Loans">>, <<"Postgres">>,
       <<"Acme", "2021-01~">>, <<"manage">> >>

MCTexts == {(Table :> TableLines) @@ (Career :> CareerLines),
            (Career :> CareerLines) @@ (Details :> DetailLines)}

(* ------------------------------- the answers --------------------------- *)

Ref(at, words)  == [doc |-> at[1], page |-> at[2], quote |-> words, spaced |-> FALSE]
Paged(at)       == Ref(at, {})
Spaced(at, ws)  == [Ref(at, ws) EXCEPT !.spaced = TRUE]
Unpaged(at, ws) == [Ref(at, ws) EXCEPT !.page = NoPage]

Item(code, raw, refs) == [code |-> code, raw |-> raw, refs |-> refs]
Job(code, raw, refs, primary, conf) == [code |-> code, raw |-> raw, refs |-> refs,
                                        primary |-> primary, conf |-> conf]
Work(raw, start, end, refs) == [raw |-> raw, start |-> start, end |-> end, refs |-> refs]

Person(name, jobs, skills, exps, work, schools) ==
    [profile |-> [name |-> [raw |-> name, refs |-> {Paged(Details)}]],
     jobs |-> jobs, skills |-> skills, exps |-> exps, work |-> work, schools |-> schools,
     certs |-> << [raw |-> "Oracle", date |-> Null, refs |-> {}] >>]

Jan21 == D!Dash(<<2021, 1>>)

MCCoreAnswers == {
    Person("Kim", <<Job("JOB-OPS-SYS", "ops", {Paged(Career)}, TRUE, 1), Job("JOB-MGT", "m", {}, FALSE, 1)>>,
           <<Item("TECH-ORA", "DB", {})>>, <<Item("EXP-INFRA", "ops", {})>>,
           <<Work("Acme", Jan21, {D!Ongoing}, {Ref(Details, {"Acme"})})>>,
           << [raw |-> "State University", major |-> "", status |-> "graduated",
               refs |-> {Ref(Details, {"State University", "graduated"})}] >>),
    Person("", <<Job("JOB-MGT-PM", "PM", {Paged(Table)}, TRUE, 2), Job("", "JOB-OPS-SYS", {}, FALSE, 1)>>,
           <<Item("", "SQL tuning", {Ref(Career, {"Oracle"})})>>, <<Item("EXP-DATA", "EXP-DATA", {})>>,
           <<Work("Acme", Jan21, {D!Dash(<<2021, 3>>)}, {Paged(Details)}),
             Work("Acme", Null, {}, {})>>,
           << [raw |-> "State University", major |-> "law", status |-> "dropped out", refs |-> {}] >>),
    Person("Lee", <<Job("JOB-DATA-DBA", "JOB-DATA-DBA", {}, FALSE, 1),
                    Job("JOB-MGT-PM", "lead", {Ref(Career, {"Taxes"})}, FALSE, 2)>>, <<>>, <<Item("EXP-SEC-OPS", "s", {})>>,
           <<Work("Acme", Jan21, {D!Dash(<<2021>>)}, {Ref(Details, {"2021-01~"})})>>,
           << [raw |-> "State University", major |-> "art", status |-> "", refs |-> {}] >>)}

Rm(kind, code, refs) == [k \in Kinds |-> IF k = kind THEN code :> refs ELSE <<>>]

\* A raw project whose references name its codes of one kind.
Raw(name, customer, start, end, refs, kind, code, own) ==
    [name |-> name, customer |-> customer, start |-> start, end |-> end, refs |-> refs,
     codes |-> [k \in Kinds |-> IF k = kind THEN <<code>>
                                ELSE IF k = "biz" THEN <<"BIZ-FIN">> ELSE <<>>],
     rm |-> Rm(kind, code, own)]

Loans1 == WordsOf(TableLines[1])
Loans2 == WordsOf(TableLines[2])
Loans  == WordsOf(CareerLines[1])
Taxes  == WordsOf(CareerLines[2])

MCProjectAnswers == {
    <<Raw("Loans 1", "Bank", 1, 6, {Ref(Table, Loans1)}, "job", "JOB-OPS-SYS", {Ref(Table, {"operate"})}),
      Raw("Loans 2", "Bank", 7, 12, {Paged(Table)}, "job", "JOB-MGT-PM", {Paged(Table)})>>,
    <<Raw("Loans", "CUST-BANK", 1, 12, {Ref(Career, Loans)}, "job", "JOB-MGT", {Paged(Career)})>>,
    <<Raw("Loans", "Bank", 1, 12, {Spaced(Career, {"Loans"})}, "exp", "EXP-INFRA", {Ref(Career, {"operate"})}),
      Raw("Taxes", "Gov", 13, 13, {Ref(Career, {"Taxes"})}, "job", "JOB-DATA-DBA", {Ref(Career, {"DBA"})})>>,
    <<Raw("Taxes", "Gov", 13, 15, {Paged(Career)}, "exp", "EXP-SEC-OPS", {Unpaged(Career, {"secops"})}),
      Raw("Loans 1", "Bank", 0, 0, {Ref(Table, Loans1)}, "tech", "TECH-ORA", {Ref(Career, {"Oracle"})})>>,
    <<Raw("Taxes", "Gov", 13, 15, {Ref(Career, Taxes)}, "exp", "EXP-MGT", {Ref(Career, {"DBA"})}),
      Raw("", "Bank", 1, 6, {Ref(Table, {"Bank", "2020-01~06"})}, "cust", "CUST-BANK", {})>>,
    <<Raw("Loans", "", 1, 6, {Ref(Career, {"Loans"})}, "tech", "TECH-PG", {Spaced(Career, {"Oracle"})})>>}
===================================================================================
