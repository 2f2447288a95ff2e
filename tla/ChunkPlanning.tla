----------------------------- MODULE ChunkPlanning -----------------------------
(***************************************************************************)
(* How the source text of an analysis is cut into prompts                  *)
(* (analysis/token_budget.py and the split helpers local to                *)
(* AnalysisService._extract_staged_compact_candidate).                     *)
(*                                                                         *)
(* A BLOCK of prompt text is the set of the source units it holds.  A unit *)
(* is <<document, page, n>>: the n-th piece of UnitChars = 128 characters  *)
(* of a page, so that a body of at most 256 characters has at most 2 units *)
(* and one of at most 160 characters has 1.  Headers and page markers are  *)
(* repeated on every piece by the code and carry no source text.           *)
(***************************************************************************)
EXTENDS Integers, Sequences, FiniteSets, SequencesExt

CONSTANTS
    DocBound,        \* documents of an analysis are numbered 1..DocBound
    PageBound,       \* pages of a document are numbered 1..PageBound
    Overhead,        \* tokens of the instructions and the code catalogue
    OutputDivisor,   \* 1 / the share of the window reserved for the answer
    SafetyDivisor,   \* 1 / the share kept as a safety margin
    RowsPerWindow    \* rows of a KOSA table given to one recall prompt

ASSUME PlanningAssumption ==
    /\ {DocBound, PageBound, RowsPerWindow} \subseteq Nat \ {0}
    /\ Overhead \in Nat
    /\ {OutputDivisor, SafetyDivisor} \subseteq Nat \ {0, 1}

Larger(m, n)  == IF m > n THEN m ELSE n
Smaller(m, n) == IF m < n THEN m ELSE n
CeilDiv(m, n) == (m + n - 1) \div n

(* -------------------------------- budgets ------------------------------ *)

Tokens(b) == Overhead + Cardinality(b)

\* Ratio reserves, never less than one token.
Reserve(w) == Larger(1, w \div OutputDivisor)
Margin(w)  == Larger(1, w \div SafetyDivisor)

\* compute_prompt_chat_budget: the prompt, the reserve and the margin together.
Fits(b, w) == Tokens(b) + Reserve(w) + Margin(w) <= w

\* What the answer may use when the whole measured headroom is given to it.
Residual(b, w) == w - Tokens(b) - Margin(w)

(* --------------------------- structural splits ------------------------- *)

\* The blocks that hold text, in order.
NonEmpty(blocks) ==
    FlattenSeq([i \in DOMAIN blocks |-> IF blocks[i] = {} THEN <<>> ELSE <<blocks[i]>>])

DocumentsOf(b) == {u[1] : u \in b}
PagesOf(b)     == {<<u[1], u[2]>> : u \in b}

\* One block per document, in order.
SplitDocuments(b) == NonEmpty([d \in 1..DocBound |-> {u \in b : u[1] = d}])

\* One block per page of a document.
SplitPages(b) == NonEmpty([p \in 1..PageBound |-> {u \in b : u[2] = p}])

\* Pieces of at most size units, each under the page's own marker.
Rank(u, b) == Cardinality({v \in b : v[3] <= u[3]})

SplitBody(b, size) ==
    [k \in 1..CeilDiv(Cardinality(b), size) |->
        {u \in b : CeilDiv(Rank(u, b), size) = k}]

SeveralDocuments(b) == Cardinality(DocumentsOf(b)) > 1
SeveralPages(b)     == Cardinality(PagesOf(b)) > 1

\* _subsplit_phase_chunk: documents, else pages, else halves of a body that is
\* longer than 256 characters.
SubsplitPhase(b) ==
    IF SeveralDocuments(b) THEN SplitDocuments(b)
    ELSE IF SeveralPages(b) THEN SplitPages(b)
    ELSE IF Cardinality(b) <= 2 THEN <<b>>
    ELSE SplitBody(b, Larger(2, Cardinality(b) \div 2))

\* _subsplit_project_chunk: one more, finer split for the PROJECTS phase, down
\* to a body of at most 160 characters.
SubsplitProject(b) ==
    LET parts == SubsplitPhase(b)
    IN  IF Len(parts) > 1 \/ Cardinality(b) <= 1
        THEN parts
        ELSE SplitBody(b, CeilDiv(Cardinality(b), 2))

(* -------------------------------- planning ----------------------------- *)

\* plan_phase_source_chunks: the whole source if it fits; else its documents,
\* and the pages of a document that does not fit by itself.
PlanDocument(doc, w) == IF Fits(doc, w) THEN <<doc>> ELSE SplitPages(doc)

PlanSource(b, w) ==
    IF Fits(b, w) THEN <<b>>
    ELSE FlattenSeq([i \in DOMAIN SplitDocuments(b) |-> PlanDocument(SplitDocuments(b)[i], w)])

\* An answer cut off at the output cap means the source must be cut although it
\* fits.  CORE goes down to the body of a single page, PROJECTS to its pages.
PlanCore(b, w, forced) ==
    IF forced /\ Len(PlanSource(b, w)) = 1 THEN SubsplitPhase(b) ELSE PlanSource(b, w)

PlanProjects(b, w, forced) ==
    IF ~(forced /\ Len(PlanSource(b, w)) = 1) THEN PlanSource(b, w)
    ELSE IF SeveralDocuments(b) THEN SplitDocuments(b)
    ELSE SplitPages(b)

\* The number of blocks the next packed group takes: enough that the rest gets
\* one slot each, and more while the group still fits.
Merged(blocks, first, n) == UNION {blocks[i] : i \in first..(first + n - 1)}

GroupSize(blocks, first, slots, w) ==
    LET left  == Len(blocks) - first + 1
        least == Larger(1, left - (slots - 1))
    IN  CHOOSE n \in least..left :
            /\ \A m \in (least + 1)..n : Fits(Merged(blocks, first, m), w)
            /\ n < left => ~Fits(Merged(blocks, first, n + 1), w)

\* Where the group after the one that starts at first starts.
NextGroup(blocks, first, slots, w) ==
    IF first > Len(blocks) THEN first ELSE first + GroupSize(blocks, first, slots, w)

\* pack_phase_source_chunks: adjacent blocks are joined until at most max are
\* left.  A group too large for the budget is emitted all the same.
Pack(blocks, max, w) ==
    IF max = 0 \/ Len(blocks) <= max THEN blocks
    ELSE LET start[s \in 0..max] ==
                 IF s = 0 THEN 1 ELSE NextGroup(blocks, start[s - 1], max - s + 1, w)
         IN  NonEmpty([s \in 1..max |-> Merged(blocks, start[s - 1], start[s] - start[s - 1])])

(* ------------------------- page-by-page recall ------------------------- *)

\* Complete rows of a KOSA table, in at most max windows.
TableWindows(page, max) ==
    LET rows    == Cardinality(page)
        windows == Smaller(max, CeilDiv(rows, RowsPerWindow))
    IN  SplitBody(page, CeilDiv(rows, windows))

\* Two windows of a page dense with rows; they share the rows of the middle.
DenseWindows(page) ==
    LET half == Cardinality(page) \div 2
    IN  <<{u \in page : Rank(u, page) <= half + 1}, {u \in page : Rank(u, page) >= half}>>

OnPages(page, kinds) == PagesOf(page) \subseteq kinds

CutTable(page, tables, extra) ==
    IF extra > 0 /\ OnPages(page, tables) THEN TableWindows(page, extra + 1) ELSE <<page>>

CutDense(windows, dense, extra) ==
    IF extra > 0 /\ Len(windows) = 1 /\ OnPages(windows[1], dense)
    THEN DenseWindows(windows[1]) ELSE windows

\* The calls left over once a page has its windows.
AfterTable(page, tables, extra)  == extra + 1 - Len(CutTable(page, tables, extra))
AfterDense(windows, dense, extra) == extra + Len(windows) - Len(CutDense(windows, dense, extra))

Pages(b) == FlattenSeq([i \in DOMAIN SplitDocuments(b) |-> SplitPages(SplitDocuments(b)[i])])

\* plan_project_recall_page_chunks: every page a prompt of its own when the
\* source has between 3 and max pages.  The calls left over go to the tables
\* first, then to the dense pages.  <<>> stands for None.
RecallPlan(b, tables, dense, max) ==
    LET pages == Pages(b)
        n     == Len(pages)
        spare[i \in 0..n] ==
            IF i = 0 THEN max - n ELSE AfterTable(pages[i], tables, spare[i - 1])
        cut == [i \in 1..n |-> CutTable(pages[i], tables, spare[i - 1])]
        rest[i \in 0..n] ==
            IF i = 0 THEN spare[n] ELSE AfterDense(cut[i], dense, rest[i - 1])
    IN  IF n \in 3..Smaller(max, 12)
        THEN FlattenSeq([i \in 1..n |-> CutDense(cut[i], dense, rest[i - 1])])
        ELSE <<>>

================================================================================
