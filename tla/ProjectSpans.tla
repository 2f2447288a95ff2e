----------------------------- MODULE ProjectSpans -----------------------------
(***************************************************************************)
(* Which part of a page is about a project (analysis/compact_v8.py).       *)
(*                                                                         *)
(* Career documents list projects as rows "title, overview, period, duty,  *)
(* customer", one after the other and often broken over lines.  The code   *)
(* finds the row of a project by its period and its title or customer and  *)
(* ends it where the next row begins; when more than one part of the text  *)
(* could be meant, none is.                                                *)
(***************************************************************************)
EXTENDS SourceText, FiniteSetsExt

CONSTANTS
    Periods,     \* a word that is a full period -> [start, end], months
    OpenPeriods, \* a word that is a period without an end -> its first month
    Sections,    \* words that head a section on employments
    RowMarks,    \* words that only occur in project rows
    TitleKey,    \* a heading or title -> its normal form
    Numbered     \* headings with a number

NoMonth == 0

ASSUME ProjectSpansAssumption ==
    /\ \A w \in DOMAIN Periods : Periods[w].start \in Nat \ {0} /\ Periods[w].end \in Nat \ {0}
    /\ \A w \in DOMAIN OpenPeriods : OpenPeriods[w] \in Nat \ {0}
    /\ DOMAIN Periods \cap DOMAIN OpenPeriods = {}
    /\ Numbered \subseteq DOMAIN TitleKey

HasPeriodMark(text) == WordsOf(text) \cap (DOMAIN Periods \cup DOMAIN OpenPeriods) # {}

\* _line_has_year_month: some date of the text is in the month.
HasMonth(words, month) ==
    \/ \E w \in words \cap DOMAIN Periods : month \in {Periods[w].start, Periods[w].end}
    \/ \E w \in words \cap DOMAIN OpenPeriods : OpenPeriods[w] = month

\* _line_is_employment_history_row, for a text without the title of the project.
IsEmployment(text) ==
    Sections \cap WordsOf(text) # {} \/ RowMarks \cap WordsOf(text) = {}

\* _candidate_sibling_project_names
Titles(projects) == {projects[i].name : i \in DOMAIN projects} \ {NoText}

(* --------------------------- the row of a project ---------------------- *)

FullPeriods(text) == {i \in DOMAIN text : text[i] \in DOMAIN Periods}

\* The block of the period at i: after the period before it, and up to the
\* period after it or the title of a sibling that follows the period.
BlockStart(text, i) == Max({0} \cup {j \in FullPeriods(text) : j < i}) + 1

BlockEnd(text, i, others) ==
    LET next == Min({Len(text) + 1} \cup {j \in FullPeriods(text) : j > i})
    IN  Min({next} \cup {k \in i + 1 .. next - 1 : text[k] \in others}) - 1

CustomerFollows(p, text, i, others) ==
    \E k \in i .. BlockEnd(text, i, others) : text[k] = p.customer

\* _project_owned_source_span: a set with the first and the last position, or {}.
OwnedSpan(p, text, siblings) ==
    LET others == siblings \ {p.name}
        starts == {i \in FullPeriods(text) : Periods[text[i]].start = p.start}
        titles(i) == {k \in BlockStart(text, i) .. BlockEnd(text, i, others) : text[k] = p.name}
        before(i) == {k \in titles(i) : k < i}
        bearers == {i \in starts : CustomerFollows(p, text, i, others)}
        \* A project without a title needs a customer that settles the period.
        rows == IF p.name # NoText THEN {i \in starts : titles(i) # {}}
                ELSE IF p.customer # NoText /\ Cardinality(bearers) = 1 THEN bearers ELSE {}
        first(i) == IF p.name = NoText THEN BlockStart(text, i)
                    ELSE IF before(i) # {} THEN Max(before(i)) ELSE i
        open == /\ HasMonth(WordsOf(text), p.start)
                /\ \/ p.name # NoText /\ p.name \in WordsOf(text)
                   \/ /\ p.customer # NoText /\ p.customer \in WordsOf(text)
                      /\ ~IsEmployment(text)
    IN  IF p.start = NoMonth \/ (p.name = NoText /\ p.customer = NoText) \/ ~HasPeriodMark(text)
        THEN {}
        ELSE IF FullPeriods(text) = {}
        THEN IF open THEN {<<1, Len(text)>>} ELSE {}
        ELSE IF Cardinality(rows) = 1
        THEN {<<first(i), BlockEnd(text, i, others)>> : i \in rows}
        ELSE {}

SpanText(text, spans) == {SubSeq(text, s[1], s[2]) : s \in spans}

\* Owned pieces of the pages taken as wholes, or else of their lines, for which
\* Wanted holds.
RowsIn(src, p, siblings, Wanted(_)) ==
    LET owned(at, text) == {[at |-> at, text |-> t] :
                            t \in {t \in SpanText(text, OwnedSpan(p, text, siblings)) : Wanted(t)}}
        wholes == UNION {owned(at, PageText(src[at])) : at \in DOMAIN src}
        lines  == UNION {UNION {owned(at, src[at][i]) : i \in DOMAIN src[at]} : at \in DOMAIN src}
        about(rows) == {r \in rows : ({p.name, p.customer} \ {NoText}) \cap WordsOf(r.text) # {}}
    IN  IF about(wholes) # {} THEN about(wholes) ELSE about(lines)

\* _find_unique_project_source_row: rows with the title come before rows with
\* the customer, and only a single row counts.
TheRow(p, rows) ==
    LET named == {r \in rows : p.name # NoText /\ p.name \in WordsOf(r.text)}
        best  == IF named # {} THEN named ELSE rows
    IN  IF Cardinality(best) = 1 THEN best ELSE {}

SourceRow(src, p, siblings, Wanted(_)) == TheRow(p, RowsIn(src, p, siblings, Wanted))

\* _relation_ref_attributable_to_project
Attributable(src, p, r, siblings) ==
    /\ Verified(src, r)
    /\ LET text == PageText(src[<<r.doc, r.page>>])
       IN  \E t \in SpanText(text, OwnedSpan(p, text, siblings)) : InLine(r.quote, t)

(* ------------------------ what a row says of its project --------------- *)

\* _project_row_title_and_duty: what comes before and after the first period.
Title(span) ==
    LET at == FullPeriods(span)
    IN  IF at = {} THEN WordsOf(span) ELSE {span[i] : i \in 1 .. Min(at) - 1}

Duty(span) ==
    LET at == FullPeriods(span)
    IN  IF at = {} THEN {} ELSE {span[i] : i \in Min(at) + 1 .. Len(span)}

\* _project_row_supports_semantic_exp: a phrase in the duty; or one in the title
\* that the duty corroborates.
RowSupportsExp(code, span) ==
    LET head == Title(span)  duty == Duty(span)
    IN  \/ SupportsExp(code, duty)
        \/ \E i \in DOMAIN PatternsFor(ProjectPatterns, code) :
               LET pattern == ProjectPatterns[code][i]
               IN  /\ pattern.words \cap head # {}
                   /\ pattern.with = {} \/ pattern.with \cap (head \cup duty) # {}
                   /\ (pattern.words \cup pattern.duty \cup pattern.with) \cap duty # {}

\* _extract_project_row_semantic_exp_quote
RowExpQuote(code, span) ==
    LET from(text) == Extract(ProjectPatterns, code, text)
    IN  IF ~RowSupportsExp(code, span) THEN {}
        ELSE IF from(Duty(span)) # {} THEN from(Duty(span))
        ELSE IF from(Title(span)) # {} THEN from(Title(span))
        ELSE from(WordsOf(span))

\* _project_row_supports_semantic_job and _extract_project_row_semantic_job_quote:
\* the duty names the job; a security operations title supports JOB-OPS-SYS.
RowJobQuote(code, span) ==
    LET head == Title(span)  duty == Duty(span)
    IN  IF code # "JOB-OPS-SYS"
        THEN IF Named(code, duty) THEN OneOf(Literal[code] \cap duty) ELSE {}
        ELSE IF RowSupportsExp("EXP-INFRA", span) THEN RowExpQuote("EXP-INFRA", span)
        ELSE IF SecTitle \in duty \/ (SecTitle \in head /\ SecDuty \cap duty # {})
        THEN {SecTitle} ELSE {}

\* _find_unique_semantic_project_exp_ref and _job_ref
ExpRef(src, p, code, siblings) ==
    LET wanted(span) == RowSupportsExp(code, span)
    IN  {r \in {RefAt(row.at, RowExpQuote(code, row.text)) :
                row \in SourceRow(src, p, siblings, wanted)} : r.quote # {}}

JobRef(src, p, code, siblings) ==
    LET wanted(span) == RowJobQuote(code, span) # {}
    IN  {RefAt(row.at, RowJobQuote(code, row.text)) :
         row \in SourceRow(src, p, siblings, wanted)}

(* ------------------- where a project names technologies ---------------- *)

Within(s, t) == \E i \in 0 .. Len(t) - Len(s) : SubSeq(t, i + 1, i + Len(s)) = s

LinesFrom(lines, i, stop) == UNION {WordsOf(lines[k]) : k \in i .. stop - 1}

StopAt(lines, i, Stops(_)) ==
    Min({Len(lines) + 1} \cup {k \in i + 1 .. Len(lines) : Stops(lines[k])})

\* _extend_owned_span_with_following_detail_lines: the lines after the row up to
\* a title or another period; the row is looked for line by line.
DetailWords(lines, span, siblings) ==
    LET first == {i \in DOMAIN lines : Within(span, lines[i]) \/ Within(lines[i], span)}
        stops(line) == WordsOf(line) \cap (siblings \cup DOMAIN Periods) # {}
    IN  WordsOf(span) \cup (IF first = {} THEN {}
                            ELSE LinesFrom(lines, Min(first) + 1, StopAt(lines, Min(first), stops)))

\* _project_tech_title_match_key
KeyOf(title) == IF title \in DOMAIN TitleKey THEN TitleKey[title] ELSE title
LineKey(line) == IF Len(line) = 1 THEN KeyOf(line[1]) ELSE NoText

\* _iter_project_tech_section_evidence: sections under the title of the project.
TechSections(src, p, siblings) ==
    LET own    == KeyOf(p.name)
        others == siblings \ {p.name}
        keys   == {KeyOf(n) : n \in others}
        stops(line) ==
            \/ WordsOf(line) \cap (Sections \cup DOMAIN Periods \cup others) # {}
            \/ /\ LineKey(line) \notin {NoText, own}
               /\ LineKey(line) \in keys \/ line[1] \in Numbered
        headed(at) == {i \in DOMAIN src[at] : LineKey(src[at][i]) = own}
    IN  IF p.name = NoText \/ own \in keys THEN {}
        ELSE UNION {{[at |-> at, line |-> i, words |-> LinesFrom(src[at], i, StopAt(src[at], i, stops))]
                     : i \in headed(at)} : at \in DOMAIN src}

\* _find_unique_project_tech_literal_ref
TechRef(src, p, code, siblings) ==
    LET any(span) == TRUE
        hit(words) == OneOf(UniqueLiterals(code) \cap words)
        inRow == {r \in {RefAt(row.at, hit(DetailWords(src[row.at], row.text, siblings)))
                         : row \in SourceRow(src, p, siblings, any)} : r.quote # {}}
        sections == TechSections(src, p, siblings)
    IN  IF inRow # {} THEN inRow
        ELSE IF Cardinality(sections) # 1 THEN {}
        ELSE {r \in {RefAt(s.at, hit(s.words)) : s \in sections} : r.quote # {}}
================================================================================
