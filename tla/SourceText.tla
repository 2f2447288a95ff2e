------------------------------ MODULE SourceText ------------------------------
(***************************************************************************)
(* The text of the analysed documents and the quotations taken from it     *)
(* (analysis/compact_v8.py, normalize.py).                                 *)
(*                                                                         *)
(* A source is a function from <<document, page>> to the lines of the      *)
(* page; a line is a sequence of words.  A word stands for a piece of text *)
(* that the code recognises as a whole: a project title, a customer, a     *)
(* period, the name of a technology, a phrase that evidences a code.  A    *)
(* quotation is the set of the words in it; {} is a missing quotation.     *)
(***************************************************************************)
EXTENDS Naturals, Sequences, FiniteSets, SequencesExt

CONSTANTS
    Catalog,          \* code -> its type, for the active codes
    Literal,          \* code -> the words that name its role or subject outright
    Blocking,         \* code -> the words that mean a more special code
    Techs,            \* leaf TECH code -> its name and aliases
    CorePatterns,     \* EXP code -> its phrases for the person
    ProjectPatterns,  \* EXP code -> its phrases for a project
    SecTitle,         \* the phrase of JOB-OPS-SYS that is no phrase of EXP-INFRA
    SecDuty           \* duties that corroborate SecTitle in a title

\* A phrase: any of its words, with one of its companions in the same text; in a
\* title it needs one of the duties beside it.
PatternOK(p) ==
    /\ p.words # {} /\ p.strength \in Nat
    /\ IsFiniteSet(p.words \cup p.with \cup p.duty)

ASSUME SourceTextAssumption ==
    /\ DOMAIN Techs \subseteq {c \in DOMAIN Catalog : Catalog[c] = "TECH"}
    /\ \A f \in {CorePatterns, ProjectPatterns} : \A c \in DOMAIN f :
           \A i \in DOMAIN f[c] : PatternOK(f[c][i])

NoText == ""       \* an empty name, customer, code or raw value
NoPage == 0        \* a reference without a page

WordsOf(s) == {s[i] : i \in DOMAIN s}

\* The members of a finite set, one after the other: before holds <<x, y>> when x
\* comes before y.
Ordered(S, before) ==
    LET rank(x) == Cardinality({y \in S : <<y, x>> \in before})
    IN  [n \in 1 .. Cardinality(S) |-> CHOOSE x \in S : rank(x) = n - 1]

\* Places of a sequence from the first to the last, and the rows at some places.
Places(at) == Ordered(at, {p \in at \X at : p[1] < p[2]})
RowsAt(s, places) == [n \in DOMAIN places |-> s[places[n]]]

\* The rows for which Keeps holds, in their order.
Kept(s, Keeps(_)) == RowsAt(s, Places({i \in DOMAIN s : Keeps(s[i])}))

PageText(lines) == FlattenSeq(lines)
InLine(quote, line) == quote \subseteq WordsOf(line)
InPage(quote, lines) == InLine(quote, PageText(lines))

\* Pages in the order the code searches them.
Earlier(a, b) == a[1] < b[1] \/ (a[1] = b[1] /\ a[2] < b[2])
FirstPage(pages) == CHOOSE a \in pages : \A b \in pages \ {a} : Earlier(a, b)

(* ------------------------------ references ----------------------------- *)

Quoted(refs) == \E r \in refs : r.quote # {}

RefAt(page, quote) == [doc |-> page[1], page |-> page[2], quote |-> quote]

\* _expand_ref: document 0 is an alias the prompt did not define.
ExpandRefs(refs) == {r \in refs : r.doc # 0}

\* _quote_in_source: without a page, any page of the document will do.
QuoteInSource(src, r) ==
    IF r.page # NoPage
    THEN <<r.doc, r.page>> \in DOMAIN src /\ InPage(r.quote, src[<<r.doc, r.page>>])
    ELSE \E at \in DOMAIN src : at[1] = r.doc /\ InPage(r.quote, src[at])

\* _normalize_source_refs: references to other documents or pages are dropped, a
\* quotation that is not there (or is spaced otherwise) is cleared.
NormalRefs(src, refs) ==
    {[doc |-> r.doc, page |-> r.page,
      quote |-> IF ~r.spaced /\ QuoteInSource(src, r) THEN r.quote ELSE {}]
     : r \in {r \in refs : \E at \in DOMAIN src :
                  at[1] = r.doc /\ r.page \in {NoPage, at[2]}}}

\* _repair_ref_quote_whitespace: a quotation that differs from its page only in
\* its white space takes the spelling of the page, if it is there once.
RepairSpacing(src, refs) ==
    {[r EXCEPT !.spaced =
          @ /\ ~ /\ <<r.doc, r.page>> \in DOMAIN src
                 /\ LET lines == src[<<r.doc, r.page>>]
                    IN  Cardinality({i \in DOMAIN lines : InLine(r.quote, lines[i])}) = 1]
     : r \in refs}

\* _source_ref_verified_on_allowed_page
Verified(src, r) ==
    r.quote # {} /\ <<r.doc, r.page>> \in DOMAIN src /\ InPage(r.quote, src[<<r.doc, r.page>>])

\* _exact_page_match: the first page with the word.
ExactMatch(src, word) ==
    LET hits == {at \in DOMAIN src : InPage({word}, src[at])}
    IN  IF word = NoText \/ hits = {} THEN {} ELSE {RefAt(FirstPage(hits), {word})}

\* _unique_exact_page_ref: the only page with the word.
UniqueMatch(src, word) ==
    LET hits == {at \in DOMAIN src : InPage({word}, src[at])}
    IN  IF word # NoText /\ Cardinality(hits) = 1
        THEN {RefAt(FirstPage(hits), {word})} ELSE {}

(* --------------------------- what evidences a code --------------------- *)

\* _code_lookup
Lookup(code, type) == IF code \in DOMAIN Catalog /\ Catalog[code] = type THEN code ELSE NoText

Matches(pattern, text) ==
    pattern.words \cap text # {} /\ (pattern.with = {} \/ pattern.with \cap text # {})

OneOf(words) == IF words = {} THEN {} ELSE {CHOOSE w \in words : TRUE}

PhraseOf(pattern, text) == OneOf(pattern.words \cap text) \cup OneOf(pattern.with \cap text)

PatternsFor(patterns, code) == IF code \in DOMAIN patterns THEN patterns[code] ELSE <<>>

\* _quote_supports_semantic_exp_patterns
Supports(patterns, code, text) ==
    \E i \in DOMAIN PatternsFor(patterns, code) : Matches(patterns[code][i], text)

\* _extract_semantic_exp_quote_from_patterns: the words of the first phrase.
Extract(patterns, code, text) ==
    LET found == {i \in DOMAIN PatternsFor(patterns, code) : Matches(patterns[code][i], text)}
    IN  IF found = {} THEN {}
        ELSE PhraseOf(patterns[code][CHOOSE i \in found : \A j \in found : i <= j], text)

Named(code, text) ==
    code \in DOMAIN Literal /\ Literal[code] \cap text # {}

RequiredJobs == {"JOB-OPS-SYS", "JOB-MGT-PM", "JOB-MGT-PL"}
ForbiddenJobs == {"JOB-MGT", "JOB-MGT-PMO", "JOB-ARC-AA", "JOB-ARC-SA", "JOB-ARC-TA"}
LiteralJobs == {"JOB-MGT-PM", "JOB-MGT-PL", "JOB-ARC-TA"}
ExtraJobs == {"JOB-DATA-DA", "JOB-DATA-DBA", "JOB-DEV-GEN"}
ExtraExps == {"EXP-DATA", "EXP-DATA-DB-TUNING"}
SemanticJobs == {"JOB-OPS-SYS", "JOB-MGT"} \cup LiteralJobs
SemanticExps == {"EXP-INFRA", "EXP-MGT", "EXP-SEC-OPS", "EXP-SEC-BUILD"}

\* _quote_supports_root_relation_extra_job and _exp
SupportsExtra(code, text) ==
    /\ Named(code, text)
    /\ code \in DOMAIN Blocking => Blocking[code] \cap text = {}

\* _quote_supports_semantic_core_job
SupportsCoreJob(code, text) ==
    IF code = "JOB-OPS-SYS" THEN Supports(CorePatterns, "EXP-INFRA", text)
    ELSE code \in RequiredJobs /\ Named(code, text)

\* _quote_supports_semantic_project_job; JOB-MGT is named by a business management
\* that is not part of "PM business management".
SupportsJob(code, text) ==
    IF code = "JOB-OPS-SYS"
    THEN Supports(ProjectPatterns, "EXP-INFRA", text) \/ SecTitle \in text
    ELSE code \in SemanticJobs /\ Named(code, text)

SupportsExp(code, text) == Supports(ProjectPatterns, code, text)

(* ----------------------------- technologies ---------------------------- *)

\* _leaf_tech_unique_literals: a name two codes share evidences neither.
UniqueLiterals(code) ==
    {w \in Techs[code] : \A c \in (DOMAIN Techs) \ {code} : w \notin Techs[c]}

\* _find_tech_literal_page_ref
LiteralMatch(src, code) ==
    LET found == {w \in UniqueLiterals(code) : ExactMatch(src, w) # {}}
    IN  UNION {ExactMatch(src, w) : w \in OneOf(found)}
================================================================================
