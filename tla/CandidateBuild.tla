----------------------------- MODULE CandidateBuild -----------------------------
(***************************************************************************)
(* How one execution of an analysis turns the answers of the language      *)
(* model into a candidate (_extract_staged_compact in analysis/service.py, *)
(* prompt version 25): every answer is normalised as it arrives, the parts *)
(* of a split phase are merged, the rows of KOSA tables and a second pass  *)
(* are added to the projects, and the projects lend their evidence to the  *)
(* jobs and the expertise of the person.                                   *)
(*                                                                         *)
(* Which answers are asked for, and when the extraction fails, is the      *)
(* subject of Extraction; here only the extractions that succeed matter,   *)
(* and an answer is anything of CoreAnswers or ProjectAnswers.             *)
(***************************************************************************)
EXTENDS ChunkMerge

CONSTANTS
    Texts,           \* the sources considered
    CoreAnswers,     \* what the model may answer on the person
    ProjectAnswers,  \* what it may answer on the projects
    Chunks           \* the most chunks a phase is split into

\* A source: pages of its documents, each a sequence of lines.
TextOK(text) ==
    /\ IsFiniteSet(DOMAIN text) /\ DOMAIN text \subseteq (DOMAIN DocType) \X (Nat \ {NoPage})
    /\ \A at \in DOMAIN text :
           text[at] \in Seq(Seq(UNION {WordsOf(text[at][i]) : i \in DOMAIN text[at]}))

\* A sequence of records with these fields.
RowsOK(rows, fields) == rows \in Seq(WordsOf(rows)) /\ \A x \in WordsOf(rows) : DOMAIN x = fields

RefsOK(refs) == \A r \in refs : DOMAIN r = {"doc", "page", "quote", "spaced"}

\* The schema of an answer; dates are read by PartialDates.
CoreOK(raw) ==
    /\ DOMAIN raw = {"profile", "jobs", "skills", "exps", "work", "schools", "certs"}
    /\ RowsOK(raw.jobs, {"code", "raw", "refs", "primary", "conf"})
    /\ \A list \in {raw.skills, raw.exps} : RowsOK(list, {"code", "raw", "refs"})
    /\ RowsOK(raw.work, {"raw", "start", "end", "refs"})
    /\ \A x \in WordsOf(raw.work) : \A d \in x.end :
           d # Null /\ DOMAIN d = {"form", "p"} /\ d.p \in Seq(Nat)
    /\ \A x \in WordsOf(raw.work) : IsFiniteSet(x.end)

ProjectsOK(answer) ==
    /\ RowsOK(answer, {"name", "customer", "start", "end", "refs", "codes", "rm"})
    /\ \A raw \in WordsOf(answer) :
           /\ raw.start \in Nat /\ raw.end \in Nat /\ RefsOK(raw.refs)
           /\ \A kind \in Kinds :
                  /\ raw.codes[kind] \in Seq(WordsOf(raw.codes[kind]))
                  /\ \A code \in DOMAIN raw.rm[kind] : RefsOK(raw.rm[kind][code])

ASSUME CandidateAssumption ==
    /\ Chunks \in Nat \ {0} /\ DOMAIN DocType \subseteq Nat /\ \A w \in DOMAIN Collation : Collation[w] \in Nat
    /\ \A text \in Texts : TextOK(text)
    /\ \A raw \in CoreAnswers : CoreOK(raw)
    /\ \A answer \in ProjectAnswers : ProjectsOK(answer)

\* The catalog gives a code the type that its name begins with, and its order has
\* every code.
ASSUME CatalogAssumption ==
    /\ \A c \in DOMAIN Catalog :
           /\ c \in SemanticJobs \cup ExtraJobs => Catalog[c] = "JOB"
           /\ c \in SemanticExps \cup ExtraExps => Catalog[c] = "EXP"
    /\ CodeOrder \in Seq(WordsOf(CodeOrder)) /\ NoText \notin WordsOf(CodeOrder)
    /\ DOMAIN Catalog \cup WordsOf(JobOrder) \cup WordsOf(ExpOrder) \subseteq WordsOf(CodeOrder)

VARIABLES
    src,           \* the source text of the run
    stage,
    coreParts,     \* chunk_docs of the CORE phase
    core,          \* its result
    projectParts,  \* chunk_docs of the PROJECTS phase
    projects       \* its result

candidateVars == <<src, stage, coreParts, core, projectParts, projects>>

Stages == {"core", "projects", "recall", "second", "lend", "done"}

\* What _normalize_core and _normalize_projects make of an answer in each source.
CoresRead == {<<s, NormalizeCore(s, answer)>> : s \in Texts, answer \in CoreAnswers}
ProjectsRead == {<<s, NormalizeProjects(s, answer)>> : s \in Texts, answer \in ProjectAnswers}

CandidateInit ==
    /\ src \in Texts
    /\ stage = "core"
    /\ coreParts = <<>> /\ core = <<>>
    /\ projectParts = <<>> /\ projects = <<>>

\* The answer for the whole source or for a chunk.
ReadCore ==
    /\ stage = "core" /\ Len(coreParts) < Chunks
    /\ \E read \in CoresRead : read[1] = src /\ coreParts' = Append(coreParts, read[2])
    /\ UNCHANGED <<src, stage, core, projectParts, projects>>

\* The single path takes the answer as it is, the split path merges its parts.
TakeCore ==
    /\ stage = "core" /\ Len(coreParts) = 1
    /\ core' = coreParts[1]
    /\ stage' = "projects"
    /\ UNCHANGED <<src, coreParts, projectParts, projects>>

MergeCore ==
    /\ stage = "core" /\ coreParts # <<>>
    /\ core' = MergeCores(coreParts)
    /\ stage' = "projects"
    /\ UNCHANGED <<src, coreParts, projectParts, projects>>

\* _normalize_projects
ReadProjects ==
    /\ stage = "projects" /\ Len(projectParts) < Chunks
    /\ \E read \in ProjectsRead : read[1] = src /\ projectParts' = Append(projectParts, read[2])
    /\ UNCHANGED <<src, stage, coreParts, core, projects>>

\* Only a single path is followed by a second pass.
TakeProjects ==
    /\ stage = "projects" /\ Len(projectParts) = 1
    /\ projects' = RecallTables(src, projectParts[1])
    /\ stage' \in {"second", "lend"}
    /\ UNCHANGED <<src, coreParts, core, projectParts>>

MergeProjectParts ==
    /\ stage = "projects" /\ projectParts # <<>>
    /\ projects' = RecallTables(src, MergeProjects(projectParts))
    /\ stage' = "lend"
    /\ UNCHANGED <<src, coreParts, core, projectParts>>

\* supplement_projects_from_second_pass; a second pass that fails changes nothing.
ReadAgain ==
    /\ stage = "second"
    /\ \/ UNCHANGED projects
       \/ \E read \in ProjectsRead : read[1] = src /\ projects' = SecondPass(projects, read[2])
    /\ stage' = "lend"
    /\ UNCHANGED <<src, coreParts, core, projectParts>>

LendEvidence ==
    /\ stage = "lend"
    /\ core' = SupplementRoot(src, core, projects)
    /\ stage' = "done"
    /\ UNCHANGED <<src, coreParts, projectParts, projects>>

CandidateNext ==
    \/ ReadCore \/ TakeCore \/ MergeCore
    \/ ReadProjects \/ TakeProjects \/ MergeProjectParts
    \/ ReadAgain \/ LendEvidence

CandidateSpec == CandidateInit /\ [][CandidateNext]_candidateVars

(* ------------------------------- properties ---------------------------- *)

Rows(seqs) == UNION {WordsOf(seqs[i]) : i \in DOMAIN seqs}

\* Quotations that the source bears out.
Proofs(x) == {r \in x.refs : r.quote # {} /\ QuoteInSource(src, r)}

RootClaims ==
    \A x \in WordsOf(core.jobs) :
        /\ x.code \notin ForbiddenJobs
        /\ x.code \in RequiredJobs => \E r \in Proofs(x) : SupportsCoreJob(x.code, r.quote)

\* A relation that the answer for some chunk quoted without a page.
Pageless(kind, code) ==
    \E p \in Rows(projectParts) : \E x \in WordsOf(p.rels[kind]) :
        x.code = code /\ \E r \in x.refs : r.quote # {} /\ r.page = NoPage

Says(kind, code, text) ==
    IF code \in ExtraJobs \cup ExtraExps THEN SupportsExtra(code, text)
    ELSE IF kind = "job" THEN SupportsJob(code, text) ELSE SupportsExp(code, text)

ProjectClaims ==
    \A p \in WordsOf(projects) : \A kind \in {"job", "exp"} : \A x \in WordsOf(p.rels[kind]) :
        x.code \in SemanticJobs \cup SemanticExps \cup ExtraJobs \cup ExtraExps =>
            \/ \E r \in Proofs(x) : Says(kind, x.code, r.quote)
            \/ Pageless(kind, x.code)

(***************************************************************************)
(* The jobs and the expertise that reviewers take for facts are never the  *)
(* model's word alone: in the finished candidate each of the guarded codes *)
(* has a quotation that stands where it says it does and says what the     *)
(* code says, whatever was cleared, repaired, merged or lent on the way    *)
(* (drop_root_jobs_without_semantic_evidence, drop_project_jobs_without_   *)
(* semantic_evidence, _union_source_refs, supplement_root_job_exp_         *)
(* evidence_from_project_relations).  The exception is a quotation that    *)
(* came without a page: the quote filter accepts it and the merge drops it.*)
(***************************************************************************)
ClaimsAreQuoted == stage = "done" => RootClaims /\ ProjectClaims

Times(rows, x) == Cardinality({i \in DOMAIN rows : rows[i] = x})

SameRows(a, b) == Len(a) = Len(b) /\ \A x \in WordsOf(a) \cup WordsOf(b) : Times(a, x) = Times(b, x)

(***************************************************************************)
(* The candidate does not depend on how the source happened to be cut: the *)
(* projects of the chunks merge to the same rows in any order of the       *)
(* chunks and of the rows in them (merge_project_chunk_candidates and its  *)
(* tests "order_independent").                                             *)
(***************************************************************************)
MergeIgnoresOrder ==
    stage = "projects" /\ projectParts # <<>> =>
        LET turned == [i \in DOMAIN projectParts |-> Reverse(projectParts[i])]
            merged == MergeProjects(projectParts)
        IN  /\ SameRows(merged, MergeProjects(Reverse(projectParts)))
            /\ SameRows(merged, MergeProjects(turned))

Solid(x) == {r \in x.refs : r.quote # {} /\ r.page # NoPage}

\* What a chunk quoted for a project stands behind one project of the candidate.
ProjectsSurvive ==
    \A p \in Rows(projectParts) : \E q \in WordsOf(projects) :
        /\ Solid(p) \subseteq q.refs
        /\ \A kind \in Kinds : \A x \in WordsOf(p.rels[kind]) :
               x.code # NoText => \E y \in WordsOf(q.rels[kind]) :
                                      x.code = y.code /\ Solid(x) \subseteq y.refs

ItemsSurvive ==
    \A part \in WordsOf(coreParts) : \A list \in {"jobs", "skills", "exps"} :
        \A x \in WordsOf(part[list]) : x.code # NoText =>
            \E y \in WordsOf(core[list]) : x.code = y.code /\ Solid(x) \subseteq y.refs

\* One date says all that another says, and perhaps more.
AsPrecise(e, d) ==
    \/ e = d \/ (D!IsOngoingEnd(e) /\ D!IsOngoingEnd(d))
    \/ D!HasParts(e) /\ D!HasParts(d) /\ IsPrefix(d.p, e.p)

EndsSurvive ==
    \A part \in WordsOf(coreParts) : \A x \in WordsOf(part.work) : WorkKey(x) # NoKey =>
        \E y \in WordsOf(core.work) :
            /\ WorkKey(y) = WorkKey(x)
            /\ \A d \in x.end : \E e \in y.end : AsPrecise(e, d)

(***************************************************************************)
(* Cutting a source loses nothing: every code that a chunk found, with its *)
(* quotations, and every project with its relations, is in the candidate,  *)
(* though rows were paired with the profile, summed up or supplemented in  *)
(* between; and where two chunks disagree on the end of an employment the  *)
(* merged end names both, so that a reviewer is asked (_merge_core_*,      *)
(* merge_project_chunk_candidates, supplement_projects_from_second_pass,   *)
(* _resolve_employment_end).                                               *)
(***************************************************************************)
NothingIsLost ==
    /\ stage \notin {"core", "projects"} => ProjectsSurvive
    /\ stage # "core" => ItemsSurvive /\ EndsSurvive
================================================================================
