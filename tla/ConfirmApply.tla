---------------------------- MODULE ConfirmApply ----------------------------
(***************************************************************************)
(* confirm_analysis_run between its locks and its commit: the checks on    *)
(* the reviewed diffs, and their application to the confirmed profile one  *)
(* after the other, in one transaction that any failure rolls back.  The   *)
(* application is a fold over the diffs; its accumulator holds the profile *)
(* as the session sees it, the relations inserted but not yet flushed (the *)
(* session does not flush before a SELECT), the project that each          *)
(* candidate project became, what each diff was applied to, and the first  *)
(* error.                                                                  *)
(***************************************************************************)
EXTENDS DiffEngine

\* f[k] = v, and the same unless f has a value for k.
Put(f, k, v) == [x \in DOMAIN f \cup {k} |-> IF x = k THEN v ELSE f[x]]
SetDefault(f, k, v) == IF k \in DOMAIN f THEN f ELSE Put(f, k, v)

Applies(d) == d.status \in {"ACCEPTED", "MODIFIED", "MERGED"}

\* _applied_value
AppliedValue(d) == IF d.status = "MODIFIED" THEN d.decided ELSE d.new

IsProjectRoot(d) == d.entity = "PROJECT" /\ d.field = Null

-----------------------------------------------------------------------------
(* Dates *)

BadDate == [form |-> "bad", p |-> <<>>]

\* _normalize_field_date.  A caller that does not say which entity the date
\* belongs to gets no reading of the "still going on" words.
FieldDate(entity, field, d) ==
  IF d = Null THEN Null
  ELSE IF entity = "PROJECT" /\ field = "end" /\ IsOngoingProjectEnd(d) THEN Null
  ELSE IF entity = "EMPLOYMENT" /\ field = "end" /\ IsOngoingEnd(d) THEN Null
  ELSE IF Confirmable(d) THEN Bounded(field, d) ELSE BadDate

\* The application of project values drops the entity on the way.
AppliedDate(entity, field, d) ==
  FieldDate(IF entity = "PROJECT" THEN Null ELSE entity, field, d)

DateOf(row, f) == IF f \in DOMAIN row THEN row[f] ELSE Null

\* A preview that does not look at the order of the dates.
HasBadDate(d) ==
  LET v == AppliedValue(d)
  IN  IF d.field = Null /\ d.entity \in Entities
      THEN \E f \in DateFields : FieldDate(d.entity, f, DateOf(v, f)) = BadDate
      ELSE FALSE

\* collect_confirm_date_issues for one applied diff.
HasDateIssue(d) ==
  LET v     == AppliedValue(d)
      start == FieldDate(d.entity, "start", DateOf(v, "start"))
      end   == FieldDate(d.entity, "end", DateOf(v, "end"))
  IN  CASE d.field \in DateFields \cup {"career_start_date"} -> FieldDate(d.entity, d.field, v) = BadDate
        [] d.field = Null /\ d.entity \in Entities ->
             BadDate \in {start, end} \/ ~InOrder(start, end)
        [] OTHER -> FALSE

-----------------------------------------------------------------------------
(* Checks before anything is changed *)

MustDecide == {"NEW", "UPDATE", "CONFLICT", "REVIEW"}

ReviewComplete(diffs) ==
  /\ diffs # <<>>
  /\ \A i \in DOMAIN diffs : diffs[i].change \in MustDecide => diffs[i].status # "PENDING"

\* No child of a rejected project is applied.
ParentsConsistent(diffs) ==
  \A i, j \in DOMAIN diffs :
    /\ IsProjectRoot(diffs[i]) /\ diffs[i].status = "REJECTED"
    /\ diffs[j].entity = "PROJECT" /\ diffs[j].idx = diffs[i].idx
    => ~Applies(diffs[j])

\* _prelock_existing_targets: every row a decision names still exists.
TargetsExist(diffs, profile) ==
  \A i \in DOMAIN diffs : LET d == diffs[i] IN
    Applies(d) /\ d.entity \in Entities /\ d.target # Null
      => d.target \in DOMAIN profile.rows[d.entity]

-----------------------------------------------------------------------------
(* The application of one diff *)

\* The first failure is the answer.
Fail(acc, why) == IF acc.error = "none" THEN [acc EXCEPT !.error = why] ELSE acc

Register(acc, i, type, id, field) ==
  [acc EXCEPT !.applied = @ \cup {<<i, type, id, field>>}]

\* Values outside RowFields and those the payload omits are left alone.
Coerced(entity, f, v) == IF f \in DateFields THEN AppliedDate(entity, f, v) ELSE v

Blank == [f \in Range(RowFields) |-> Null]

\* _null_fill_career, _null_fill_project_scalars
NullFill(entity, row, data) ==
  [f \in DOMAIN row |-> IF row[f] = Null /\ DateOf(data, f) # Null
                        THEN Coerced(entity, f, data[f]) ELSE row[f]]

\* _overwrite_career, _overwrite_project_scalars
Overwrite(entity, row, data) ==
  [f \in DOMAIN row |-> IF f \in DOMAIN data THEN Coerced(entity, f, data[f]) ELSE row[f]]

RowError(row) ==
  IF BadDate \in {row.start, row.end} THEN "date"
  ELSE IF ~InOrder(row.start, row.end) THEN "order"
  ELSE IF row.name = Null THEN "name" ELSE "none"

SetRow(acc, entity, id, row) ==
  IF RowError(row) # "none" THEN Fail(acc, RowError(row))
  ELSE [acc EXCEPT !.profile.rows[entity] = [@ EXCEPT ![id] = row]]

\* A created row is flushed at once, with every insert that was waiting.
CreateRow(acc, entity, row) ==
  LET id == acc.profile.nextId IN
  IF RowError(row) # "none" THEN Fail(acc, RowError(row))
  ELSE [acc EXCEPT !.profile.rows[entity] = SetDefault(@, id, row),
                   !.profile.rels = IF entity = "PROJECT" THEN SetDefault(@, id, {}) ELSE @,
                   !.profile.nextId = @ + 1, !.pending = {}]

\* _coerce_profile_value
CoercedScalar(field, v) ==
  CASE field = "name" -> Fold[v]
    [] field = "career_start_date" -> FieldDate("PROFILE", "start", v)
    [] OTHER -> v

ApplyProfile(acc, i, d) ==
  LET v == CoercedScalar(d.field, AppliedValue(d)) IN
  IF d.field = "career_start_date" /\ v = BadDate THEN Fail(acc, "date")
  ELSE Register([acc EXCEPT !.profile.scalars[d.field] = v], i, "PROFILE", Null, d.field)

\* A job the person has is left alone; a second PRIMARY is refused.
ApplyJob(acc, i, d) ==
  LET v   == AppliedValue(d)
      job == <<v.code, v.type>>
  IN  IF d.change = "SAME" THEN acc
      ELSE IF v.code \notin acc.active THEN Fail(acc, "code")
      ELSE IF v.type = "PRIMARY" /\ job \notin acc.profile.jobs
              /\ \E other \in acc.profile.jobs : other[2] = "PRIMARY"
           THEN Fail(acc, "primary")
      ELSE Register([acc EXCEPT !.profile.jobs = @ \cup {job}], i, "JOB", job, "code")

\* A correction sets the keys it gives; an accepted candidate only adds.
SkillMeta(d, known, old, new) ==
  LET default == [year |-> Null, rep |-> FALSE]
      base    == IF known THEN old ELSE default
  IN  IF d.status = "MODIFIED"
      THEN [k \in DOMAIN base |-> IF k \in DOMAIN new THEN new[k] ELSE base[k]]
      ELSE [year |-> IF new.year # Null THEN new.year ELSE base.year,
            rep  |-> base.rep \/ new.rep]

ApplyTech(acc, i, d) ==
  LET v    == AppliedValue(d)
      old  == acc.profile.skills
      meta == SkillMeta(d, v.code \in DOMAIN old, old[v.code], v.meta)
  IN  IF d.change = "SAME" THEN acc
      ELSE IF v.code \notin acc.active THEN Fail(acc, "code")
      ELSE Register([acc EXCEPT !.profile.skills = Put(@, v.code, meta)], i, "TECH", v.code, "code")

ApplyExp(acc, i, d) ==
  LET v == AppliedValue(d)
      e == IF "evidence" \in DOMAIN v THEN v.evidence ELSE d.new.evidence
  IN  IF d.change = "SAME" THEN acc
      ELSE IF v.code \notin acc.active THEN Fail(acc, "code")
      ELSE Register([acc EXCEPT !.profile.exps = Put(@, v.code, e)], i, "EXP", v.code, "code")

\* A field diff sets one field of its target.
ApplyField(acc, i, d, id) ==
  LET row == [acc.profile.rows[d.entity][id] EXCEPT
                ![d.field] = Coerced(d.entity, d.field, AppliedValue(d))]
  IN  Register(SetRow(acc, d.entity, id, row), i, d.entity, id, d.field)

\* _apply_career_entity.  A root with a target fills its nulls when accepted and
\* overwrites what the correction gives; a root without one becomes a new row.
ApplyCareer(acc, i, d) ==
  LET v    == AppliedValue(d)
      rows == acc.profile.rows[d.entity]
      Merged(row) == IF d.status = "ACCEPTED" THEN NullFill(d.entity, row, v)
                                              ELSE Overwrite(d.entity, row, v)
  IN  IF d.field # Null THEN ApplyField(acc, i, d, d.target)
      ELSE IF d.target # Null
      THEN Register(SetRow(acc, d.entity, d.target, Merged(rows[d.target])),
                    i, d.entity, d.target, Null)
      ELSE Register(CreateRow(acc, d.entity, NullFill(d.entity, Blank, v)),
                    i, d.entity, acc.profile.nextId, Null)

-----------------------------------------------------------------------------
(* Projects *)

\* _insert_project_relation: a relation the project has is left alone, but one
\* that is waiting to be flushed is not seen and the unique index refuses it.
LinkRefusal(acc, id, link) ==
  IF link[2] \notin acc.active THEN "code"
  ELSE IF <<id, link>> \in acc.pending THEN "integrity" ELSE "none"

AddLinks(acc, id, links) ==
  [acc EXCEPT !.profile.rels[id] = @ \cup links,
              !.pending = @ \cup {<<id, l>> : l \in links \ acc.profile.rels[id]}]

InsertRelation(acc, id, link) ==
  IF acc.error # "none" THEN acc
  ELSE IF LinkRefusal(acc, id, link) # "none" THEN Fail(acc, LinkRefusal(acc, id, link))
  ELSE AddLinks(acc, id, {link})

\* _add_project_relations_from_payload: the relations of the payload, one after
\* the other; values without a code are skipped, and a new one that the payload
\* repeats is already waiting when it comes again.
InsertRelations(acc, id, data) ==
  LET rels  == IF "rels" \in DOMAIN data THEN data.rels ELSE <<>>
      coded == {k \in DOMAIN rels : rels[k].val.code # Null}
      link  == [k \in coded |-> <<rels[k].val.kind, rels[k].val.code>>]
      Repeated(k) == link[k] \notin acc.profile.rels[id] /\ \E j \in coded : j < k /\ link[j] = link[k]
      Why(k)  == IF Repeated(k) THEN "integrity" ELSE LinkRefusal(acc, id, link[k])
      refused == {k \in coded : Why(k) # "none"}
  IN  IF acc.error # "none" THEN acc
      ELSE IF refused # {} THEN Fail(acc, Why(CHOOSE k \in refused : \A j \in refused : k <= j))
      ELSE AddLinks(acc, id, Range(link))

\* MERGED: the candidate fills the nulls of the chosen project, the correction
\* overwrites, and the relations of both are added.
MergeProject(acc, i, d) ==
  LET id     == d.target
      filled == NullFill("PROJECT", acc.profile.rows["PROJECT"][id], d.new)
      row    == IF d.decided = Null THEN filled ELSE Overwrite("PROJECT", filled, d.decided)
      merged == SetRow(SetRow(acc, "PROJECT", id, filled), "PROJECT", id, row)
      linked == InsertRelations(merged, id, d.new)
  IN  IF merged.error # "none" THEN merged
      ELSE Register(IF d.decided = Null THEN linked ELSE InsertRelations(linked, id, d.decided),
                    i, "PROJECT", id, Null)

\* ACCEPTED or MODIFIED always creates a project, whatever target the diff has.
CreateProject(acc, i, d) ==
  LET id      == acc.profile.nextId
      created == CreateRow(acc, "PROJECT", NullFill("PROJECT", Blank, AppliedValue(d)))
  IN  IF created.error # "none" THEN created
      ELSE Register(InsertRelations(created, id, AppliedValue(d)), i, "PROJECT", id, Null)

\* _apply_project_root, which also remembers what the candidate project became.
ApplyProjectRoot(acc, i, d) ==
  LET done == IF d.status = "MERGED" THEN MergeProject(acc, i, d) ELSE CreateProject(acc, i, d)
      id   == IF d.status = "MERGED" THEN d.target ELSE acc.profile.nextId
  IN  [done EXCEPT !.projAt = Put(@, d.idx, id)]

\* _apply_project_child: a relation or a field of an existing project, or of the
\* one its root has just become.
ApplyProjectChild(acc, i, d) ==
  LET id == IF d.target # Null THEN d.target
            ELSE IF d.idx \in DOMAIN acc.projAt THEN acc.projAt[d.idx] ELSE Null
      v  == AppliedValue(d)
      known == [acc EXCEPT !.projAt = SetDefault(@, d.idx, id)]
  IN  IF id = Null THEN Fail(acc, "target")
      ELSE IF d.field \in Range(RowFields) THEN ApplyField(known, i, d, id)
      ELSE IF v.code = Null THEN Fail(acc, "code")
      ELSE Register(InsertRelation(known, id, <<d.field, v.code>>), i, "RELATION", <<id, d.field, v.code>>, "code")

-----------------------------------------------------------------------------
(* apply_all *)

ApplyOne(acc, i, d) ==
  CASE d.entity = "PROFILE" -> ApplyProfile(acc, i, d)
    [] d.entity = "JOB"     -> ApplyJob(acc, i, d)
    [] d.entity = "TECH"    -> ApplyTech(acc, i, d)
    [] d.entity = "EXP"     -> ApplyExp(acc, i, d)
    [] d.entity \in Entities \ {"PROJECT"} -> ApplyCareer(acc, i, d)
    [] IsProjectRoot(d)     -> ApplyProjectRoot(acc, i, d)
    [] OTHER                -> ApplyProjectChild(acc, i, d)

\* Everything but projects first, then the roots, then their children.
Turn(d) == IF d.entity # "PROJECT" THEN 1 ELSE IF IsProjectRoot(d) THEN 2 ELSE 3

ApplicationOrder(diffs) ==
  LET OfTurn(t) == FlattenSeq([i \in 1..Len(diffs) |-> IF Turn(diffs[i]) = t THEN <<i>> ELSE <<>>])
  IN  OfTurn(1) \o OfTurn(2) \o OfTurn(3)

\* A diff that is not decided for, or comes after a failure, is skipped.
ApplyNext(acc, i, d) == IF acc.error # "none" \/ ~Applies(d) THEN acc ELSE ApplyOne(acc, i, d)

ApplyAll(diffs, profile, active) ==
  LET order == ApplicationOrder(diffs)
      start == [profile |-> profile, active |-> active, pending |-> {},
                projAt |-> <<>>, applied |-> {}, error |-> "none"]
      after[n \in 0..Len(order)] ==
        IF n = 0 THEN start ELSE ApplyNext(after[n - 1], order[n], diffs[order[n]])
  IN  after[Len(order)]

\* A confirmation that does not compare the profile version.
RefusalOfAnyVersion(diffs, profile, current) ==
  IF ~ReviewComplete(diffs) THEN "incomplete"
  ELSE IF ~ParentsConsistent(diffs) THEN "parent"
  ELSE IF \E i \in DOMAIN diffs : Applies(diffs[i]) /\ HasDateIssue(diffs[i]) THEN "previewed date"
  ELSE IF ~TargetsExist(diffs, profile) THEN "target" ELSE "none"

\* Why confirm_analysis_run refuses before it applies anything, in its order.
\* current says whether the profile is still the one that was analysed.
Refusal(diffs, profile, current) ==
  IF ~ReviewComplete(diffs) THEN "incomplete"
  ELSE IF ~ParentsConsistent(diffs) THEN "parent"
  ELSE IF \E i \in DOMAIN diffs : Applies(diffs[i]) /\ HasDateIssue(diffs[i]) THEN "previewed date"
  ELSE IF ~TargetsExist(diffs, profile) THEN "target"
  ELSE IF ~current THEN "version" ELSE "none"

\* What it answers; the profile is the caller's only when the answer is "none".
ConfirmResult(diffs, profile, active, current) ==
  LET refusal == Refusal(diffs, profile, current)
      done    == ApplyAll(diffs, profile, active)
  IN  IF refusal # "none" THEN [answer |-> refusal, profile |-> profile, applied |-> {}]
      ELSE [answer |-> done.error, profile |-> done.profile, applied |-> done.applied]

=============================================================================
