------------------------------- MODULE Review -------------------------------
(***************************************************************************)
(* One person's confirmed profile and the review of an analysis of it: the *)
(* run is analysed against the profile, reviewers decide its diffs one by  *)
(* one or in bulk, refresh its guards, recover missing evidence, and       *)
(* confirm it; meanwhile others edit the profile by hand and an            *)
(* administrator deactivates codes.  Every operation locks the run or the  *)
(* profile row for its whole transaction and checks the profile version    *)
(* where it matters, so each is one action.                                *)
(***************************************************************************)
EXTENDS ConfirmApply, QualityGuards

CONSTANTS
  Initial,       \* the profile at the start
  Candidates,    \* what extraction may return, one after the other
  Pages,         \* the source rows of the analysed documents
  ValidRefs,     \* source references whose document and page belong to the run
  Codes,         \* the code catalogue
  Corrections,   \* <<entity, field>> -> the values a reviewer may type
  NewRows, FieldEdits, RelationSets, JobSets, SkillSets, ExpertiseSets, ScalarEdits,
                 \* what may be typed on the profile pages
  Retirable,     \* codes that an administrator may deactivate
  MaxSelected,   \* how many diffs a reviewer selects at once
  MaxRuns, MaxEdits

\* The profile and the candidates are whole, and so is what is typed; a confirmed
\* row has passed the checks that every write of one makes.
ASSUME ReviewAssumption ==
  /\ IsProfile(Initial)
  /\ \A e \in Entities : \A id \in DOMAIN Initial.rows[e] : RowError(Initial.rows[e][id]) = "none"
  /\ \A k \in DOMAIN Candidates : IsCandidate(Candidates[k])
  /\ IsList(Pages) /\ \A k \in DOMAIN Pages : WholeDate(Pages[k].start) /\ WholeDate(Pages[k].end)
  /\ \A n \in NewRows : n[1] \in Entities /\ DOMAIN n[2] = Range(RowFields)
  /\ \A e \in FieldEdits : e[1] \in Entities

VARIABLES
  profile, version,      \* the confirmed profile and its version
  active,                \* the active codes
  status, base,          \* the run and the version it was analysed against
  candidate, diffs,      \* candidate_json and the AnalysisDiffItem rows
  links,                 \* the EvidenceLink rows
  runs, edits,           \* how many runs, and changes by others, there have been
  outcome                \* the answer to the last request, if it was a confirm

vars == <<profile, version, active, status, base, candidate, diffs, links, runs, edits, outcome>>
runVars == <<status, base, candidate, diffs, runs>>
profileVars == <<profile, version, active, edits>>

None == [scalars |-> <<>>, jobs |-> <<>>, skills |-> <<>>, exps |-> <<>>,
         rows |-> [e \in Entities |-> <<>>]]

Init ==
  /\ profile = Initial /\ version = 1 /\ active = Codes
  /\ status = "NONE" /\ base = 0 /\ candidate = None /\ diffs = <<>>
  /\ links = {} /\ runs = 0 /\ edits = 0 /\ outcome = "none"

ConfirmedName == profile.scalars["name"]

-----------------------------------------------------------------------------
(* The run *)

\* persist_reviewing.  A run from before the quality guards has its candidate
\* unguarded.
Analyse(c, raw) ==
  LET extracted == IF raw THEN c ELSE Guarded(c, ConfirmedName, Pages) IN
  /\ status # "REVIEWING" /\ runs < MaxRuns
  /\ status' = "REVIEWING" /\ base' = version /\ runs' = runs + 1
  /\ candidate' = extracted /\ diffs' = BuildDiffs(extracted, profile)
  /\ outcome' = "none"
  /\ UNCHANGED <<profileVars, links>>

CancelReview ==
  /\ status = "REVIEWING" /\ status' = "CANCELLED" /\ outcome' = "none"
  /\ UNCHANGED <<profileVars, base, candidate, diffs, links, runs>>

-----------------------------------------------------------------------------
(* Decisions *)

CodeEntities == {"JOB", "TECH", "EXP"}

\* _code_mapping_expected_type
NeedsCode(d) ==
  d.entity \in CodeEntities \/ (d.entity = "PROJECT" /\ d.field \notin Range(RowFields) \cup {Null})

Coded(v) == "code" \in DOMAIN v /\ v.code \in active

IsMergeable(d) == IsProjectRoot(d) /\ d.change = "REVIEW"

\* _apply_decision, for a request r of status, decided value and target.
Allowed(d, r) ==
  LET decided == [d EXCEPT !.status = r.status, !.decided = r.decided] IN
  CASE r.status = "PENDING" -> d.status # "MERGED"
    [] r.status \in {"ACCEPTED", "MODIFIED"} ->
         /\ d.status = "PENDING"
         /\ r.status = "MODIFIED" => r.decided # Null
         /\ NeedsCode(d) => Coded(AppliedValue(decided))
         /\ ~HasDateIssue(decided)
    [] r.status = "MERGED" ->
         /\ d.status = "PENDING" /\ IsMergeable(d)
         /\ First(r.target, d.target) \in DOMAIN profile.rows["PROJECT"]
    [] r.status = "REJECTED" -> d.status = "PENDING"

\* A decision that forgets the corrected value.
DecidedWithoutValue(d, r) == [d EXCEPT !.status = r.status]

Decided(d, r) ==
  CASE r.status = "PENDING" -> [d EXCEPT !.status = "PENDING", !.decided = Null]
    [] r.status = "MERGED"  -> [d EXCEPT !.status = "MERGED", !.decided = r.decided,
                                         !.target = First(r.target, @)]
    [] OTHER                -> [d EXCEPT !.status = r.status, !.decided = r.decided]

Request(s, decided, target) == [status |-> s, decided |-> decided, target |-> target]

Typed(d) == IF <<d.entity, d.field>> \in DOMAIN Corrections THEN Corrections[<<d.entity, d.field>>] ELSE {}

\* What the review page can send for a diff.
Requests(d) ==
  {Request(s, Null, Null) : s \in {"PENDING", "ACCEPTED", "REJECTED"}}
    \cup {Request("MODIFIED", v, Null) : v \in Typed(d)}
    \cup {Request("MERGED", v, t) : v \in Typed(d) \cup {Null},
                                    t \in DOMAIN profile.rows["PROJECT"] \cup {Null}}

\* review_diff
ReviewOne(i, r) ==
  /\ status = "REVIEWING" /\ Allowed(diffs[i], r)
  /\ diffs' = [diffs EXCEPT ![i] = Decided(@, r)] /\ outcome' = "none"
  /\ UNCHANGED <<profileVars, status, base, candidate, links, runs>>

\* bulk_review: all of the selection or none of it.
BulkAllowed(d, s, allowConflicts) ==
  /\ IF s = "PENDING" THEN d.status \notin {"PENDING", "MERGED"} ELSE d.status = "PENDING"
  /\ s = "ACCEPTED" =>
       /\ d.change \in {"CONFLICT", "REVIEW"} => allowConflicts /\ d.refs # {}
       /\ ~IsMergeable(d)
       /\ d.change = "NEW" => d.refs # {}
  /\ Allowed(d, Request(s, Null, Null))

BulkReview(selected, s, allowConflicts) ==
  /\ status = "REVIEWING"
  /\ \A i \in selected : BulkAllowed(diffs[i], s, allowConflicts)
  /\ diffs' = [i \in DOMAIN diffs |->
                 IF i \in selected THEN Decided(diffs[i], Request(s, Null, Null)) ELSE diffs[i]]
  /\ outcome' = "none"
  /\ UNCHANGED <<profileVars, status, base, candidate, links, runs>>

-----------------------------------------------------------------------------
(* Guard refresh and evidence recovery *)

\* A refresh that does not ask whether anything is decided.
GuardRefreshAnyDecision ==
  LET guarded == Guarded(candidate, ConfirmedName, Pages) IN
  /\ status = "REVIEWING" /\ version = base /\ guarded # candidate
  /\ candidate' = guarded /\ diffs' = BuildDiffs(guarded, profile) /\ outcome' = "none"
  /\ UNCHANGED <<profileVars, status, base, links, runs>>

\* apply_guard_refresh: only while nothing is decided and the profile has not
\* moved; new diffs replace the old ones.
GuardRefresh ==
  LET guarded == Guarded(candidate, ConfirmedName, Pages) IN
  /\ status = "REVIEWING" /\ version = base
  /\ \A i \in DOMAIN diffs : diffs[i].status = "PENDING"
  /\ guarded # candidate
  /\ candidate' = guarded /\ diffs' = BuildDiffs(guarded, profile) /\ outcome' = "none"
  /\ UNCHANGED <<profileVars, status, base, links, runs>>

\* supplement_root_job_exp_evidence_from_project_relations: a reference of a
\* project that names the same code.
RelationRefs(kind, code) ==
  LET rels == UNION {Range(p.val.rels) : p \in Range(candidate.rows["PROJECT"])}
  IN  UNION {r.refs : r \in {x \in rels : x.val.kind = kind /\ x.val.code = code}}

Supplied(d) ==
  IF d.new.code = Null THEN {}
  ELSE RelationRefs(IF d.entity = "JOB" THEN "jobs" ELSE "expertise", d.new.code)

\* apply_root_evidence_recover: undecided jobs and expertise without evidence.
\* Decided diffs are allowed beside them and left alone.
RecoverRoots ==
  LET slots == {i \in DOMAIN diffs : /\ diffs[i].entity \in {"JOB", "EXP"}
                                     /\ diffs[i].status = "PENDING"
                                     /\ diffs[i].refs = {} /\ Supplied(diffs[i]) # {}}
      Found(items, entity) ==
        [k \in DOMAIN items |->
           IF \E i \in slots : diffs[i].entity = entity /\ diffs[i].idx = k
           THEN [items[k] EXCEPT !.refs =
                   Supplied(diffs[CHOOSE i \in slots : diffs[i].entity = entity /\ diffs[i].idx = k])]
           ELSE items[k]]
  IN  /\ status = "REVIEWING" /\ version = base /\ slots # {}
      /\ candidate' = [candidate EXCEPT !.jobs = Found(@, "JOB"), !.exps = Found(@, "EXP")]
      /\ diffs' = [i \in DOMAIN diffs |->
                     IF i \in slots THEN [diffs[i] EXCEPT !.refs = Supplied(diffs[i])] ELSE diffs[i]]
      /\ outcome' = "none"
      /\ UNCHANGED <<profileVars, status, base, links, runs>>

-----------------------------------------------------------------------------
(* Confirmation *)

Link(target, ref) == <<target[1], target[2], target[3], ref>>

\* _resolve_existing_target: what a diff that changed nothing is about.
ExistingTarget(d, after) ==
  CASE d.entity = "PROFILE" -> {<<"PROFILE", Null, d.field>>}
    [] d.entity = "JOB"  -> {<<"JOB", j, "code">> : j \in after.jobs \cap {<<d.new.code, d.new.type>>}}
    [] d.entity = "TECH" -> {<<"TECH", c, "code">> : c \in DOMAIN after.skills \cap {d.new.code}}
    [] d.entity = "EXP"  -> {<<"EXP", c, "code">> : c \in DOMAIN after.exps \cap {d.new.code}}
    [] OTHER -> {<<d.entity, t, d.field>> : t \in DOMAIN after.rows[d.entity] \cap {d.target}}

\* should_create_evidence_link: the document supports what was taken from it as
\* it stands, not a correction.
Supports(d) == d.change = "SAME" \/ d.status \in {"ACCEPTED", "MERGED"}

\* materialize_confirm_evidence: links of the diffs to what they were applied
\* to, and of a project's relations to those that the project now has.
LinksOf(i, result) ==
  LET d       == diffs[i]
      applied == {<<a[2], a[3], a[4]>> : a \in {x \in result.applied : x[1] = i}}
      targets == IF applied # {} THEN applied ELSE ExistingTarget(d, result.profile)
      own     == {Link(t, ref) : t \in targets, ref \in d.refs \cap ValidRefs}
      rels    == IF IsProjectRoot(d) THEN d.new.rels ELSE <<>>
      OfRel(r) == {Link(<<"RELATION", <<t[2], r.val.kind, r.val.code>>, "code">>, ref) :
                     t \in {x \in targets : <<r.val.kind, r.val.code>> \in result.profile.rels[x[2]]},
                     ref \in r.refs \cap ValidRefs}
  IN  IF Supports(d) THEN own \cup UNION {OfRel(rels[k]) : k \in DOMAIN rels} ELSE {}

\* confirm_analysis_run
Confirm ==
  LET result == ConfirmResult(diffs, profile, active, version = base) IN
  /\ status = "REVIEWING" /\ outcome' = result.answer
  /\ IF result.answer = "none"
     THEN /\ profile' = result.profile /\ version' = version + 1 /\ status' = "CONFIRMED"
          /\ links' = links \cup UNION {LinksOf(i, result) : i \in DOMAIN diffs}
     ELSE UNCHANGED <<profile, version, status, links>>
  /\ UNCHANGED <<active, base, candidate, diffs, runs, edits>>

-----------------------------------------------------------------------------
(* Edits by hand: each bumps the profile version and forgets the evidence of   *)
(* what it changed.                                                            *)

Edit(after, forgotten) ==
  /\ edits < MaxEdits /\ edits' = edits + 1
  /\ profile' = after /\ version' = version + 1 /\ links' = links \ forgotten
  /\ outcome' = "none" /\ UNCHANGED <<active, runVars>>

LinksTo(type, ids) ==
  {l \in links : \/ l[1] = type /\ l[2] \in ids
                 \/ l[1] = "RELATION" /\ type = "PROJECT" /\ l[2][1] \in ids}

\* create_employment, create_education, create_certification, create_project
CreateByHand(entity, row) ==
  /\ RowError(row) = "none"
  /\ Edit([profile EXCEPT !.rows[entity] = SetDefault(@, profile.nextId, row),
                          !.rels = IF entity = "PROJECT" THEN SetDefault(@, profile.nextId, {}) ELSE @,
                          !.nextId = @ + 1], {})

\* update_employment, update_education, update_certification, update_project
UpdateByHand(entity, id, field, value) ==
  LET row == [profile.rows[entity][id] EXCEPT ![field] = value]
  IN  /\ RowError(row) = "none"
      /\ Edit([profile EXCEPT !.rows[entity] = [@ EXCEPT ![id] = row]], LinksTo(entity, {id}))

\* update_project with code lists
ReplaceRelations(id, rels) ==
  /\ {r[2] : r \in rels} \subseteq active
  /\ Edit([profile EXCEPT !.rels[id] = rels], LinksTo("PROJECT", {id}))

\* A deletion that leaves the evidence of what it deletes.
DeleteByHandKeepsLinks(entity, id) ==
  LET Without(f) == [x \in DOMAIN f \ {id} |-> f[x]]
  IN  Edit([profile EXCEPT !.rows[entity] = Without(@),
                           !.rels = IF entity = "PROJECT" THEN Without(@) ELSE @], {})

\* delete_employment and the like; a project is only marked deleted, which
\* takes it out of the profile all the same.
DeleteByHand(entity, id) ==
  LET Without(f) == [x \in DOMAIN f \ {id} |-> f[x]]
  IN  Edit([profile EXCEPT !.rows[entity] = Without(@),
                           !.rels = IF entity = "PROJECT" THEN Without(@) ELSE @],
           LinksTo(entity, {id}))

\* update_profile
UpdateProfile(field, value) ==
  Edit([profile EXCEPT !.scalars[field] = value],
       IF profile.scalars[field] = value THEN {} ELSE {l \in LinksTo("PROFILE", {Null}) : l[3] = field})

ActiveOnly(codes) == codes \subseteq active

\* replace_jobs, replace_skills, replace_expertise
ReplaceJobs(jobs) ==
  /\ ActiveOnly({j[1] : j \in jobs}) /\ Cardinality({j \in jobs : j[2] = "PRIMARY"}) <= 1
  /\ Edit([profile EXCEPT !.jobs = jobs], LinksTo("JOB", profile.jobs))

ReplaceSkills(skills) ==
  /\ ActiveOnly(DOMAIN skills)
  /\ Edit([profile EXCEPT !.skills = skills], LinksTo("TECH", DOMAIN profile.skills))

ReplaceExpertise(exps) ==
  /\ ActiveOnly(DOMAIN exps)
  /\ Edit([profile EXCEPT !.exps = exps], LinksTo("EXP", DOMAIN profile.exps))

\* CodeService.update_code that clears is_active
DeactivateCode(c) ==
  /\ c \in active /\ active' = active \ {c} /\ outcome' = "none"
  /\ edits < MaxEdits /\ edits' = edits + 1
  /\ UNCHANGED <<profile, version, links, runVars>>

-----------------------------------------------------------------------------
Next ==
  \/ \E k \in DOMAIN Candidates, raw \in BOOLEAN : Analyse(Candidates[k], raw)
  \/ CancelReview
  \/ \E i \in DOMAIN diffs : \E r \in Requests(diffs[i]) : ReviewOne(i, r)
  \/ \E n \in 1..MaxSelected : \E selected \in kSubset(n, DOMAIN diffs), s \in {"ACCEPTED", "REJECTED", "PENDING"},
        allow \in BOOLEAN : BulkReview(selected, s, allow)
  \/ GuardRefresh
  \/ RecoverRoots
  \/ Confirm
  \/ \E n \in NewRows : CreateByHand(n[1], n[2])
  \/ \E e \in FieldEdits : \E id \in DOMAIN profile.rows[e[1]] : UpdateByHand(e[1], id, e[2], e[3])
  \/ \E id \in DOMAIN profile.rels, rels \in RelationSets : ReplaceRelations(id, rels)
  \/ \E entity \in Entities : \E id \in DOMAIN profile.rows[entity] : DeleteByHand(entity, id)
  \/ \E e \in ScalarEdits : UpdateProfile(e[1], e[2])
  \/ \E jobs \in JobSets : ReplaceJobs(jobs)
  \/ \E skills \in SkillSets : ReplaceSkills(skills)
  \/ \E exps \in ExpertiseSets : ReplaceExpertise(exps)
  \/ \E c \in Retirable : DeactivateCode(c)

Spec == Init /\ [][Next]_vars

-----------------------------------------------------------------------------
(* Properties *)

\* Every set and function keeps its shape, and the version follows the edits.
TypeOK ==
  /\ version \in 1..(1 + edits + runs) /\ base \in 0..version /\ runs \in 0..MaxRuns
  /\ active \subseteq Codes
  /\ status \in {"NONE", "REVIEWING", "CANCELLED", "CONFIRMED"}
  /\ \A e \in Entities : DOMAIN profile.rows[e] \subseteq 1..(profile.nextId - 1)
  /\ DOMAIN profile.rels = DOMAIN profile.rows["PROJECT"]
  /\ \A i \in DOMAIN diffs :
       /\ diffs[i].status \in {"PENDING", "ACCEPTED", "MODIFIED", "MERGED", "REJECTED"}
       /\ diffs[i].status = "MODIFIED" => diffs[i].decided # Null

Confirming == status = "REVIEWING" /\ status' = "CONFIRMED"

\* A decision that may change field f of a row from old: one on the field that
\* showed old to the reviewer, or one on the whole row that fills a null or whose
\* correction gives the field.
Decides(d, entity, id, f, old) ==
  /\ Applies(d) /\ d.entity = entity /\ d.target = id
  /\ \/ d.field = f /\ d.old = old
     \/ d.field = Null /\ (old = Null \/ (d.decided # Null /\ f \in DOMAIN d.decided))

AppliesTo(d, entity, code) == Applies(d) /\ d.entity = entity /\ AppliedValue(d).code = code

Untouched(f, g, Excused(_)) == \A x \in DOMAIN f : x \in DOMAIN g /\ (g[x] = f[x] \/ Excused(x))

\* A confirmation removes nothing, and replaces a confirmed value only where a
\* reviewer decided so having seen the value it replaces.
OnlyReviewedChanges ==
  [][Confirming =>
       /\ \A e \in Entities : \A id \in DOMAIN profile.rows[e] :
            /\ id \in DOMAIN profile'.rows[e]
            /\ \A f \in Range(RowFields) : LET old == profile.rows[e][id][f] IN
                 profile'.rows[e][id][f] # old
                   => \E i \in DOMAIN diffs : Decides(diffs[i], e, id, f, old)
       /\ \A f \in DOMAIN profile.scalars : LET old == profile.scalars[f] IN
            profile'.scalars[f] # old
              => \E i \in DOMAIN diffs : /\ Applies(diffs[i]) /\ diffs[i].entity = "PROFILE"
                                         /\ diffs[i].field = f /\ diffs[i].old = old
       /\ profile.jobs \subseteq profile'.jobs
       /\ \A p \in DOMAIN profile.rels : profile.rels[p] \subseteq profile'.rels[p]
       /\ Untouched(profile.skills, profile'.skills,
                    LAMBDA c : \E i \in DOMAIN diffs : AppliesTo(diffs[i], "TECH", c))
       /\ Untouched(profile.exps, profile'.exps,
                    LAMBDA c : \E i \in DOMAIN diffs : AppliesTo(diffs[i], "EXP", c))]_vars

\* The same document analysed again after a confirmation does not propose as NEW
\* what was accepted from it.  The exceptions are dates that the guards wrote with
\* dots, which the diff engine does not parse, and a row that another decision
\* was about as well, which may no longer be like the item.
NothingNewTwice ==
  [][Confirming =>
       LET again == BuildDiffs(candidate, profile')
           Undotted(v) == \A f \in DateFields : v[f] = Null \/ v[f].form # "dot"
           Alone(i) == \A k \in DOMAIN diffs \ {i} :
             ~(Applies(diffs[k]) /\ diffs[k].entity = diffs[i].entity /\ diffs[k].target = diffs[i].target)
       IN  \A i \in DOMAIN diffs, j \in DOMAIN again :
             /\ diffs[i].status = "ACCEPTED" /\ diffs[i].field = Null
             /\ again[j].entity = diffs[i].entity /\ again[j].idx = diffs[i].idx
             /\ again[j].field = Null
             /\ diffs[i].entity \in Entities \ {"PROJECT"} =>
                  Undotted(diffs[i].new) /\ (diffs[i].target = Null \/ Alone(i))
             => again[j].change # "NEW"]_vars

\* While a run is reviewed, a decision is only ever withdrawn: no refresh or
\* recovery replaces a decided diff, the evidence it was decided on included.
DecisionsSurvive ==
  [][status = "REVIEWING" /\ status' = "REVIEWING" =>
       \A i \in DOMAIN diffs : diffs[i].status # "PENDING" =>
         /\ i \in DOMAIN diffs'
         /\ \/ diffs'[i] = diffs[i]
            \/ diffs[i].status # "MERGED"
               /\ diffs'[i] = [diffs[i] EXCEPT !.status = "PENDING", !.decided = Null]]_vars

\* The dates that v, decided for in d, would write to a row.
DatesOf(d, v) ==
  [f \in {x \in DateFields : d.field = x \/ (d.field = Null /\ x \in DOMAIN v)} |->
     Coerced(d.entity, f, IF d.field = Null THEN v[f] ELSE v)]

\* A merge writes its correction after the candidate.
Corrects(d) == d.status = "MERGED" /\ d.decided # Null
Correction(d) == DatesOf(d, d.decided)

\* Where a row may get its dates from: itself and the decisions about it.
About(ds, e, id) == {d \in Range(ds) : Applies(d) /\ d.entity = e /\ d.target = id}
DateSources(ds, p, e, id) ==
  {[f \in DateFields |-> p.rows[e][id][f]]}
    \cup {DatesOf(d, AppliedValue(d)) : d \in About(ds, e, id)}
    \cup {Correction(d) : d \in {x \in About(ds, e, id) : Corrects(x)}}

MayLack(ds, p, e, id, f) == \E a \in DateSources(ds, p, e, id) : f \in DOMAIN a /\ a[f] = Null

\* b ends before a starts.
Contradict(a, b) ==
  /\ "start" \in DOMAIN a /\ "end" \in DOMAIN b /\ BadDate \notin {a["start"], b["end"]}
  /\ ~InOrder(a["start"], b["end"])

\* d applies the end of a project that goes on.
GoesOn(d) ==
  IsOngoingProjectEnd(CASE d.field = "end" -> AppliedValue(d)
                        [] d.field = Null  -> DateOf(AppliedValue(d), "end")
                        [] OTHER           -> Null)

\* A confirmation whose dates passed the preview is refused for a date only where
\* a project goes on, which the application of project values does not read, or
\* where the correction of a merge has a date that is none; and for the order of
\* dates only where an existing row gets a start and an end that no single
\* decision shows together, from the row itself or from two decisions about it,
\* or where the correction of a merge has both.
PreviewedDatesConfirm ==
  /\ outcome = "date" =>
       \E d \in Range(diffs) :
         /\ Applies(d) /\ d.entity = "PROJECT"
         /\ \/ GoesOn(d) /\ (d.status = "MERGED" => MayLack(diffs, profile, "PROJECT", d.target, "end"))
            \/ Corrects(d) /\ \E f \in DOMAIN Correction(d) : Correction(d)[f] = BadDate
  /\ outcome = "order" =>
       \E e \in Entities : \E id \in DOMAIN profile.rows[e] :
         \E a, b \in DateSources(diffs, profile, e, id) :
           /\ Contradict(a, b)
           /\ a # b \/ \E d \in About(diffs, e, id) : Corrects(d) /\ a = Correction(d)

\* Every link names something the profile has.
LinksPointAtRows ==
  \A l \in links :
    CASE l[1] = "PROFILE"  -> TRUE
      [] l[1] = "JOB"      -> l[2] \in profile.jobs
      [] l[1] = "TECH"     -> l[2] \in DOMAIN profile.skills
      [] l[1] = "EXP"      -> l[2] \in DOMAIN profile.exps
      [] l[1] = "RELATION" -> <<l[2][2], l[2][3]>> \in profile.rels[l[2][1]]
      [] OTHER             -> l[2] \in DOMAIN profile.rows[l[1]]

\* Guarding a guarded candidate changes nothing but the schools that a further
\* source row says more about: the enrichment stops at the first row that adds
\* anything, and finds the next one when the guards are refreshed again.
GuardsSettle ==
  [][candidate' # candidate =>
       LET once == Guarded(candidate', ConfirmedName, Pages)
       IN  Guarded(once, ConfirmedName, Pages)
             = [once EXCEPT !.rows["EDUCATION"] = EnrichAll(Pages, @)]]_vars

=============================================================================
