------------------------------- MODULE Extraction -------------------------------
(***************************************************************************)
(* One execution of an analysis run between the claim and the stored       *)
(* result: the source text is built (transcribing scanned pages with the   *)
(* vision model), cut to the prompt size, and read by the language model   *)
(* in two phases, CORE (the person) and PROJECTS (analysis/service.py,     *)
(* source_builder.py, token_budget.py).                                    *)
(*                                                                         *)
(* The model service is not reliable: an answer may be an error, may be    *)
(* cut off at the output cap, may be (nearly) empty; a token count may     *)
(* fail; and the route, with its context window, may change between a      *)
(* count and the chat it was made for.  What an answer says is abstracted  *)
(* to how many items it holds: 0, 1 or "2 and more".                       *)
(***************************************************************************)
EXTENDS ChunkPlanning

CONSTANTS
    Sources,         \* the analyses considered: records, see SourceOK below
    Windows,         \* context windows of the routes the model service has
    PromptUnits,     \* analysis_max_total_text_chars
    VlmPages,        \* analysis_max_vlm_pages
    CoreCalls,       \* analysis_core_split_max_calls
    CoreDepth,       \* analysis_core_split_max_depth
    ProjectCalls,    \* analysis_project_split_max_calls
    ProjectDepth     \* analysis_project_split_max_depth

\* A source: the extraction mode its prompt version selects, the documents as
\* sequences of pages with the units of extracted text and of scanned text,
\* whether a document is of a rich profile type (and the text long enough), and
\* the pages the recall planner recognises as KOSA tables or as dense.
SourceOK(s) ==
    /\ s.mode \in {"single", "staged", "compact"}
    /\ s.docs \in Seq(Seq([text : Nat, scan : Nat]))
    /\ Len(s.docs) <= DocBound /\ \A d \in DOMAIN s.docs : Len(s.docs[d]) <= PageBound
    /\ s.rich \in BOOLEAN
    /\ {s.tables, s.dense} \subseteq SUBSET ((1..DocBound) \X (1..PageBound))

ASSUME ExtractionAssumption ==
    /\ \A s \in Sources : SourceOK(s)
    /\ Windows \subseteq Nat \ {0}
    /\ {PromptUnits, VlmPages, CoreCalls, CoreDepth, ProjectCalls, ProjectDepth} \subseteq Nat

StagedCalls == 3     \* the call budget of the phases outside adaptive splits
Extracting  == {"core", "projects"}

VARIABLES
    source,     \* the analysis at work
    built,      \* documents read so far
    vlmLeft,    \* pages the vision model may still read
    prompt,     \* units of the prompt source (while building: of the bundle)
    window,     \* the context window of the current route
    phase, step,
    work,       \* chunks an adaptive split has still to read, depth first
    calls,      \* staged calls made
    recovery,   \* recovery calls left
    splits,     \* phase |-> calls its adaptive split made
    split,      \* the PROJECTS phase went through its adaptive split
    read,       \* phase |-> units covered by the answers its result is made of
    items       \* phase |-> items of its result, capped at 2

vars == <<source, built, vlmLeft, prompt, window, phase, step, work, calls, recovery,
          splits, split, read, items>>

control == <<phase, step, work, calls, recovery, splits, split, read, items>>
input   == <<source, built, vlmLeft, prompt>>

Init ==
    /\ source \in Sources
    /\ built = 0
    /\ vlmLeft = VlmPages
    /\ prompt = {}
    /\ window \in Windows
    /\ phase = "building" /\ step = "none"
    /\ work = <<>>
    /\ calls = 0 /\ recovery = 1
    /\ splits = [p \in Extracting |-> 0] /\ split = FALSE
    /\ read = [p \in Extracting |-> {}]
    /\ items = [p \in Extracting |-> 0]

(* ------------------------------- source text --------------------------- *)

Units(d, p, n) == {<<d, p, u>> : u \in 1..n}

\* The scanned pages of document d the vision model is asked to read: the first
\* ones, while the budget lasts.
Scanned(d, left) ==
    LET pages == source.docs[d]
        scans(p) == Cardinality({q \in 1..p : pages[q].scan > 0})
    IN  {p \in DOMAIN pages : pages[p].scan > 0 /\ scans(p) <= left}

\* _build_one: the extracted text of the pages and the transcriptions; a blank
\* transcription leaves the page as it is.
DocumentUnits(d, transcribed) ==
    UNION {Units(d, p, source.docs[d][p].text
                       + (IF p \in transcribed THEN source.docs[d][p].scan ELSE 0))
             : p \in DOMAIN source.docs[d]}

BuildDocument ==
    /\ phase = "building" /\ built < Len(source.docs)
    /\ built' = built + 1
    /\ LET asked == Scanned(built + 1, vlmLeft)
       IN  \E transcribed \in SUBSET asked :
               /\ prompt' = prompt \cup DocumentUnits(built + 1, transcribed)
               /\ vlmLeft' = vlmLeft - Cardinality(asked)
    /\ UNCHANGED <<source, window, control>>

\* An error while a document is read drops the whole document, with the pages
\* transcribed before, and leaves the budget of the others as it was.
LoseDocument ==
    /\ phase = "building" /\ built < Len(source.docs)
    /\ Scanned(built + 1, vlmLeft) # {}
    /\ built' = built + 1
    /\ UNCHANGED <<source, vlmLeft, prompt, window, control>>

\* build_prompt_source: the bundle in document and page order, cut at the cap.
Before(u, v) ==
    \/ u[1] < v[1]
    \/ u[1] = v[1] /\ u[2] < v[2]
    \/ u[1] = v[1] /\ u[2] = v[2] /\ u[3] <= v[3]

Capped(bundle) == {u \in bundle : Cardinality({v \in bundle : Before(v, u)}) <= PromptUnits}

StartExtraction ==
    /\ phase = "building" /\ built = Len(source.docs)
    /\ prompt' = Capped(prompt)
    /\ phase' = IF prompt' = {} THEN "failed" ELSE "core"
    /\ step' = IF source.mode = "compact" THEN "count" ELSE "ask"
    /\ UNCHANGED <<source, built, vlmLeft, window, work, calls, recovery, splits, split, read, items>>

(* ----------------------- what makes a result usable -------------------- *)

\* candidate_needs_llm_retry, core_structured_entity_count,
\* _projects_needs_retry: an empty CORE never passes, a nearly empty one not for
\* a rich source; an empty PROJECTS list is suspect for a rich source only.
NeedsRetry(p, n) ==
    \/ p = "core" /\ (n = 0 \/ (source.rich /\ n <= 1))
    \/ p = "projects" /\ n = 0 /\ source.rich

Fail ==
    /\ phase' = "failed"
    /\ UNCHANGED <<step, work, recovery, split, read, items>>

\* The result of the phase is complete: CORE must be usable; PROJECTS may be
\* empty, and one more full pass looks for projects the first one left out.
SecondPassWanted(isSplit, left, made) ==
    source.mode = "compact" /\ ~isSplit /\ left > 0 /\ made < StagedCalls /\ source.rich

Complete(isSplit, left, made, n) ==
    CASE phase = "core" /\ NeedsRetry("core", n) ->
            phase' = "failed" /\ UNCHANGED <<step, recovery>>
      [] phase = "core" /\ ~NeedsRetry("core", n) ->
            /\ phase' = IF source.mode = "single" THEN "succeeded" ELSE "projects"
            /\ step' = IF source.mode = "compact" THEN "count" ELSE "ask"
            /\ recovery' = left
      [] phase = "projects" /\ SecondPassWanted(isSplit, left, made) ->
            phase' = "second" /\ step' = "ask" /\ recovery' = left - 1
      [] OTHER -> phase' = "succeeded" /\ recovery' = left /\ UNCHANGED step

(* ------------------------- one prompt for all -------------------------- *)

\* An answer replaces what the phase had.  A suspect one is asked for again
\* while the one recovery call of the run is left.
\* (mutant) the recovery call is not charged
AnsweredFreeRecovery(n) ==
    /\ read' = [p \in Extracting |->
                    IF p = phase \/ source.mode = "single" THEN prompt ELSE read[p]]
    /\ items' = [items EXCEPT ![phase] = n]
    /\ UNCHANGED <<work, splits, split>>
    /\ IF step = "ask" /\ NeedsRetry(phase, n) /\ recovery > 0
       THEN step' = "recover" /\ UNCHANGED <<phase, recovery>>
       ELSE Complete(FALSE, recovery, calls', n)

Answered(n) ==
    /\ read' = [p \in Extracting |->
                    IF p = phase \/ source.mode = "single" THEN prompt ELSE read[p]]
    /\ items' = [items EXCEPT ![phase] = n]
    /\ UNCHANGED <<work, splits, split>>
    /\ IF step = "ask" /\ NeedsRetry(phase, n) /\ recovery > 0
       THEN step' = "recover" /\ recovery' = recovery - 1 /\ UNCHANGED phase
       ELSE Complete(FALSE, recovery, calls', n)

\* Prompt versions 1 to 7: no token counts; a cut-off answer is retried once
\* and never accepted.
AskPlain ==
    /\ source.mode # "compact" /\ phase \in Extracting /\ step \in {"ask", "recover"}
    /\ calls < StagedCalls
    /\ calls' = calls + 1
    /\ \/ \E n \in 0..2 : Answered(n)
       \/ /\ step = "ask" /\ recovery > 0                       \* cut off
          /\ step' = "recover" /\ recovery' = recovery - 1
          /\ UNCHANGED <<phase, work, splits, split, read, items>>
       \/ Fail /\ UNCHANGED splits                              \* an error, or cut off again
    /\ UNCHANGED <<input, window>>

\* _run_core_split_path and _run_projects_split_path.  CORE packs its plan into
\* the calls it may make; PROJECTS gives up before the first call.
Leaves(blocks) == [i \in DOMAIN blocks |-> [block |-> blocks[i], depth |-> 0, seen |-> 0]]

EnterSplit(blocks) ==
    IF phase = "projects" /\ Len(blocks) > ProjectCalls
    THEN Fail
    ELSE /\ step' = "leaves"
         /\ work' = Leaves(IF phase = "core" THEN Pack(blocks, CoreCalls, window) ELSE blocks)
         /\ split' = (phase = "projects")
         /\ read' = [read EXCEPT ![phase] = {}]
         /\ items' = [items EXCEPT ![phase] = 0]
         /\ UNCHANGED <<phase, recovery>>

Plan(forced) ==
    IF phase = "core" THEN PlanCore(prompt, window, forced) ELSE PlanProjects(prompt, window, forced)

\* The start of _run_core_adaptive and _run_projects_adaptive.
CountRoot ==
    /\ phase \in Extracting /\ step = "count"
    /\ LET recall == IF phase = "projects" /\ source.rich
                     THEN RecallPlan(prompt, source.tables, source.dense, ProjectCalls)
                     ELSE <<>>
       IN  \/ Fail                                              \* no count to be had
           \/ recall # <<>> /\ EnterSplit(recall)
           \/ recall = <<>> /\ ~Fits(prompt, window) /\ EnterSplit(Plan(FALSE))
           \/ /\ recall = <<>> /\ Fits(prompt, window)
              /\ step' = "ask"
              /\ UNCHANGED <<phase, work, recovery, split, read, items>>
    /\ UNCHANGED <<input, window, calls, splits>>

\* The single path of the compact protocol.  The prompt is counted again just
\* before the chat; a prompt that no longer fits, or an answer cut off, sends
\* the phase to its adaptive split.
AskWhole ==
    /\ source.mode = "compact" /\ phase \in Extracting /\ step \in {"ask", "recover"}
    /\ calls < StagedCalls
    /\ calls' = calls + 1
    /\ \/ Fail /\ UNCHANGED splits
       \/ ~Fits(prompt, window) /\ EnterSplit(Plan(FALSE)) /\ UNCHANGED splits
       \/ Fits(prompt, window) /\ EnterSplit(Plan(TRUE)) /\ UNCHANGED splits
       \/ Fits(prompt, window) /\ \E n \in 0..2 : Answered(n)
    /\ UNCHANGED <<input, window>>

(* --------------------------- adaptive splits --------------------------- *)

MaxCalls == IF phase = "core" THEN CoreCalls ELSE ProjectCalls
MaxDepth == IF phase = "core" THEN CoreDepth ELSE ProjectDepth

SplitLeaf(b) == IF phase = "core" THEN SubsplitPhase(b) ELSE SubsplitProject(b)

\* _shrink_and_retry: the chunk's parts take its place, one level deeper.
Shrinkable(leaf) == leaf.depth < MaxDepth /\ Len(SplitLeaf(leaf.block)) > 1

\* Shrink with the parts in place of all the work that is left
ShrinkForgettingSiblings(leaf) ==
    LET parts == SplitLeaf(leaf.block)
    IN  /\ Shrinkable(leaf)
        /\ work' = [i \in DOMAIN parts |->
                        [block |-> parts[i], depth |-> leaf.depth + 1, seen |-> 0]]
        /\ UNCHANGED <<phase, step, recovery, split, read, items>>

Shrink(leaf) ==
    LET parts == SplitLeaf(leaf.block)
    IN  /\ Shrinkable(leaf)
        /\ work' = [i \in DOMAIN parts |->
                        [block |-> parts[i], depth |-> leaf.depth + 1, seen |-> 0]] \o Tail(work)
        /\ UNCHANGED <<phase, step, recovery, split, read, items>>

ShrinkOrFail(leaf) == Shrink(leaf) \/ (~Shrinkable(leaf) /\ Fail)

\* The count that opens _extract_core_chunk and _extract_project_chunk; the
\* window it saw is remembered with the chunk.
MeasureLeaf ==
    /\ phase \in Extracting /\ step = "leaves" /\ work # <<>> /\ Head(work).seen = 0
    /\ \/ Fail
       \/ ~Fits(Head(work).block, window) /\ ShrinkOrFail(Head(work))
       \/ /\ Fits(Head(work).block, window)
          /\ work' = [work EXCEPT ![1].seen = window]
          /\ UNCHANGED <<phase, step, recovery, split, read, items>>
    /\ UNCHANGED <<input, window, calls, splits>>

\* The items of a result that takes in one more chunk: an item may be one the
\* result has already.
MoreItems(n) == {m \in 0..2 : Larger(items[phase], n) <= m /\ m <= items[phase] + n}

AcceptLeaf ==
    /\ read' = [read EXCEPT ![phase] = @ \cup Head(work).block]
    /\ \E n \in 0..2 : \E m \in MoreItems(n) : items' = [items EXCEPT ![phase] = m]
    /\ work' = Tail(work)
    /\ UNCHANGED <<phase, step, recovery, split>>

\* A PROJECTS chunk that cannot be cut further may be asked once more with all
\* the output room its first count left.
HasHeadroom(leaf) ==
    /\ phase = "projects" /\ leaf.depth < MaxDepth
    /\ Residual(leaf.block, leaf.seen) > Reserve(leaf.seen)

Charged == splits' = [splits EXCEPT ![phase] = @ + 1]

\* The recount before the chat finds the chunk too large after all: the call is
\* charged and the chunk cut.
\* (mutant) the call is given back and the chunk measured again
MeasureOverAgain(leaf) ==
    /\ ~Fits(leaf.block, window)
    /\ work' = [work EXCEPT ![1].seen = 0]
    /\ UNCHANGED <<phase, step, recovery, splits, split, read, items>>

RecountedOver(leaf) == ~Fits(leaf.block, window) /\ ShrinkOrFail(leaf) /\ Charged

AskLeaf ==
    /\ phase \in Extracting /\ step = "leaves" /\ work # <<>> /\ Head(work).seen \in Windows
    /\ LET leaf == Head(work)
           Cut  == \/ Shrink(leaf)
                   \/ /\ ~Shrinkable(leaf) /\ HasHeadroom(leaf)
                      /\ work' = [work EXCEPT ![1].seen = -1]
                      /\ UNCHANGED <<phase, step, recovery, split, read, items>>
                   \/ ~Shrinkable(leaf) /\ ~HasHeadroom(leaf) /\ Fail
       IN  IF splits[phase] >= MaxCalls
           THEN Fail /\ UNCHANGED splits
           ELSE \/ Fail /\ Charged
                \/ RecountedOver(leaf)
                \/ Fits(leaf.block, window) /\ (AcceptLeaf \/ Cut) /\ Charged
    /\ UNCHANGED <<input, window, calls>>

\* (mutant) the last request of a chunk is made outside the call cap
AskLeafAgainUncapped ==
    /\ phase \in Extracting /\ step = "leaves" /\ work # <<>> /\ Head(work).seen = -1
    /\ Charged
    /\ Fail \/ (Fits(Head(work).block, window) /\ AcceptLeaf)
    /\ UNCHANGED <<input, window, calls>>

AskLeafAgain ==
    /\ phase \in Extracting /\ step = "leaves" /\ work # <<>> /\ Head(work).seen = -1
    /\ IF splits[phase] >= MaxCalls
       THEN Fail /\ UNCHANGED splits
       ELSE /\ Charged
            /\ Fail \/ (Fits(Head(work).block, window) /\ AcceptLeaf)
    /\ UNCHANGED <<input, window, calls>>

LeavesDone ==
    /\ phase \in Extracting /\ step = "leaves" /\ work = <<>>
    /\ Complete(split, recovery, calls, items[phase])
    /\ UNCHANGED <<input, window, work, calls, splits, split, read, items>>

(* ----------------------------- second pass ----------------------------- *)

\* supplement_projects_from_second_pass only adds to the first pass, and any
\* failure leaves it as it was.
AskSecond ==
    /\ phase = "second" /\ calls < StagedCalls
    /\ calls' = calls + 1
    /\ phase' = "succeeded"
    /\ \/ UNCHANGED items
       \/ /\ Fits(prompt, window)
          /\ \E n \in items["projects"]..2 : items' = [items EXCEPT !["projects"] = n]
    /\ UNCHANGED <<input, window, step, work, recovery, splits, split, read>>

(* ------------------------------- the route ----------------------------- *)

Drift ==
    /\ phase \in Extracting \cup {"second"}
    /\ window' \in Windows \ {window}
    /\ UNCHANGED <<input, control>>

Step ==
    \/ BuildDocument \/ LoseDocument \/ StartExtraction
    \/ AskPlain \/ CountRoot \/ AskWhole
    \/ MeasureLeaf \/ AskLeaf \/ AskLeafAgain \/ LeavesDone
    \/ AskSecond

Next == Step \/ Drift

\* The worker's own steps: its task runs in one thread until it returns or
\* raises, and every call it makes has a time limit.
Fairness == WF_vars(Step)

Spec == Init /\ [][Next]_vars /\ Fairness

(* ------------------------------- properties ---------------------------- *)

TypeOK ==
    /\ source \in Sources
    /\ built \in 0..Len(source.docs)
    /\ vlmLeft \in 0..VlmPages
    /\ window \in Windows
    /\ phase \in Extracting \cup {"building", "second", "succeeded", "failed"}
    /\ step \in {"none", "count", "ask", "recover", "leaves"}
    /\ calls \in 0..StagedCalls
    /\ recovery \in 0..1
    /\ splits["core"] \in 0..CoreCalls /\ splits["projects"] \in 0..ProjectCalls
    /\ split \in BOOLEAN
    /\ \A p \in Extracting : items[p] \in 0..2 /\ read[p] \subseteq prompt

\* A result that is kept was read from the whole prompt source, in both phases,
\* however the source was planned, packed, cut and cut again on the way: no
\* chunk is lost between a plan, the parts of a chunk and the merge.
WholeSourceRead ==
    phase \in {"second", "succeeded"} =>
        read["core"] = prompt /\ read["projects"] = prompt

\* The three calls outside adaptive splits are enough for every path: no run
\* that still wants one is refused it (service.py raises "staged extraction
\* exceeded LLM call budget"), because a phase asks twice only with the one
\* recovery call of the run.
NeverOutOfCalls ==
    step \in {"ask", "recover"} /\ phase \in Extracting \cup {"second"} =>
        calls < StagedCalls

\* Every execution ends, whatever the model service answers: the depth of a
\* split, its call cap and the single recovery call bound the work.
ExtractionSettles == <>(phase \in {"succeeded", "failed"})

================================================================================
