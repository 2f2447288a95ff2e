---------------------------- MODULE ReviewProofs ----------------------------
(***************************************************************************)
(* What a review keeps, for every profile, candidate, document, catalogue  *)
(* and set of edits.                                                       *)
(*                                                                         *)
(* A decision is only ever withdrawn while its run is reviewed: the only   *)
(* steps that write the diffs of a run under review are decisions, which   *)
(* start from a pending diff or withdraw one, the guard refresh, which     *)
(* runs only while nothing is decided, and the evidence recovery, which    *)
(* writes the pending ones.                                                *)
(*                                                                         *)
(* The other four theorems are about confirmation and rest on ReviewInv:   *)
(* the diffs of a run under review are well formed, have the values of the *)
(* candidate's items and, until somebody edits the profile, say what it    *)
(* has (Fresh) and which of the items it knows (Known); every row has      *)
(* passed its checks; every link points at something; an answer "date" or  *)
(* "order" has its excuse.  That needs                                     *)
(*   what one step of the application writes, what all of them do in       *)
(*   whatever order (Moves, Sound), and what is there when they are done   *)
(*   (Done, ApplyAllSound),                                                *)
(*   what build_diffs may propose (Proposed, BuildDiffsProposed),          *)
(*   that guarding keeps a candidate whole (GuardedIsCandidate), and       *)
(*   that a row is still like the item it was made of (AcceptedIsSimilar). *)
(***************************************************************************)
EXTENDS Review, FiniteSetTheorems, WellFoundedInduction, TLAPS

-----------------------------------------------------------------------------
(* Decisions *)

Withdrawn(d) == [d EXCEPT !.status = "PENDING", !.decided = Null]

\* What the property says of one step.
Kept(i) ==
  diffs[i].status # "PENDING" =>
    /\ i \in DOMAIN diffs'
    /\ \/ diffs'[i] = diffs[i]
       \/ /\ diffs[i].status # "MERGED"
          /\ diffs'[i] = Withdrawn(diffs[i])

AllKept == status = "REVIEWING" /\ status' = "REVIEWING" => \A i \in DOMAIN diffs : Kept(i)

\* A request to withdraw leaves the diff pending; any other request starts from
\* a pending diff.
LEMMA RequestsStartPending ==
  ASSUME NEW d, NEW r, r.status \in {"PENDING", "ACCEPTED", "MODIFIED", "MERGED", "REJECTED"},
         Allowed(d, r), d.status # "PENDING"
  PROVE  /\ d.status # "MERGED"
         /\ Decided(d, r) = Withdrawn(d)
<1>1. CASE r.status = "PENDING"
  BY <1>1 DEF Allowed, Decided, Withdrawn
<1>2. CASE r.status \in {"ACCEPTED", "MODIFIED"}
  BY <1>2 DEF Allowed
<1>3. CASE r.status = "MERGED"
  BY <1>3 DEF Allowed
<1>4. CASE r.status = "REJECTED"
  BY <1>4 DEF Allowed
<1> QED BY <1>1, <1>2, <1>3, <1>4

LEMMA RequestStatuses ==
  ASSUME NEW d, NEW r \in Requests(d)
  PROVE  r.status \in {"PENDING", "ACCEPTED", "MODIFIED", "MERGED", "REJECTED"}
BY DEF Requests, Request

\* A step that leaves the diffs alone keeps every decision.
LEMMA UnchangedKeeps == diffs' = diffs => AllKept
BY DEF AllKept, Kept

LEMMA ReviewOneKeeps ==
  ASSUME NEW i \in DOMAIN diffs, NEW r \in Requests(diffs[i]), ReviewOne(i, r)
  PROVE  AllKept
<1> SUFFICES ASSUME NEW k \in DOMAIN diffs, diffs[k].status # "PENDING" PROVE Kept(k)
  BY DEF AllKept, Kept
<1>1. diffs' = [diffs EXCEPT ![i] = Decided(diffs[i], r)] /\ Allowed(diffs[i], r)
  BY DEF ReviewOne
<1>2. CASE k # i
  BY <1>1, <1>2 DEF Kept
<1>3. CASE k = i
  <2>1. diffs'[i] = Decided(diffs[i], r)
    BY <1>1
  <2>2. /\ diffs[i].status # "MERGED"
        /\ Decided(diffs[i], r) = Withdrawn(diffs[i])
    BY <1>1, <1>3, RequestStatuses, RequestsStartPending
  <2> QED BY <1>1, <1>3, <2>1, <2>2 DEF Kept
<1> QED BY <1>2, <1>3

LEMMA BulkReviewKeeps ==
  ASSUME NEW selected, NEW s \in {"ACCEPTED", "REJECTED", "PENDING"}, NEW allow,
         BulkReview(selected, s, allow)
  PROVE  AllKept
<1> DEFINE r == Request(s, Null, Null)
<1> SUFFICES ASSUME NEW k \in DOMAIN diffs, diffs[k].status # "PENDING" PROVE Kept(k)
  BY DEF AllKept, Kept
<1>1. /\ diffs' = [i \in DOMAIN diffs |-> IF i \in selected THEN Decided(diffs[i], r) ELSE diffs[i]]
      /\ \A i \in selected : Allowed(diffs[i], r)
  BY DEF BulkReview, BulkAllowed
<1>2. r.status = s
  BY DEF Request
<1>3. CASE k \notin selected
  BY <1>1, <1>3 DEF Kept
<1>4. CASE k \in selected
  <2>1. diffs'[k] = Decided(diffs[k], r) /\ Allowed(diffs[k], r)
    BY <1>1, <1>4
  <2>2. /\ diffs[k].status # "MERGED"
        /\ Decided(diffs[k], r) = Withdrawn(diffs[k])
    <3> HIDE DEF r
    <3> QED BY <1>2, <2>1, RequestsStartPending
  <2> QED BY <1>1, <2>1, <2>2 DEF Kept
<1> QED BY <1>3, <1>4

LEMMA GuardRefreshKeeps == GuardRefresh => AllKept
BY DEF GuardRefresh, AllKept, Kept

LEMMA RecoverRootsKeeps == RecoverRoots => AllKept
<1> SUFFICES ASSUME RecoverRoots, NEW k \in DOMAIN diffs, diffs[k].status # "PENDING" PROVE Kept(k)
  BY DEF AllKept, Kept
<1> DEFINE slots == {i \in DOMAIN diffs : /\ diffs[i].entity \in {"JOB", "EXP"}
                                         /\ diffs[i].status = "PENDING"
                                         /\ diffs[i].refs = {} /\ Supplied(diffs[i]) # {}}
<1>1. diffs' = [i \in DOMAIN diffs |->
                  IF i \in slots THEN [diffs[i] EXCEPT !.refs = Supplied(diffs[i])] ELSE diffs[i]]
  BY DEF RecoverRoots
<1>2. k \notin slots
  OBVIOUS
<1> QED BY <1>1, <1>2 DEF Kept

\* An edit by hand leaves the run alone.
LEMMA EditKeeps ==
  ASSUME NEW after, NEW forgotten, Edit(after, forgotten)
  PROVE  AllKept
BY UnchangedKeeps DEF Edit, runVars

LEMMA StepKeeps == [Next]_vars => AllKept
<1> SUFFICES ASSUME [Next]_vars PROVE AllKept
  OBVIOUS
<1>1. CASE \E k \in DOMAIN Candidates, raw \in BOOLEAN : Analyse(Candidates[k], raw)
  BY <1>1 DEF Analyse, AllKept
<1>2. CASE CancelReview
  BY <1>2, UnchangedKeeps DEF CancelReview
<1>3. CASE \E i \in DOMAIN diffs : \E r \in Requests(diffs[i]) : ReviewOne(i, r)
  BY <1>3, ReviewOneKeeps
<1>4. CASE \E n \in 1..MaxSelected : \E selected \in kSubset(n, DOMAIN diffs),
             s \in {"ACCEPTED", "REJECTED", "PENDING"}, allow \in BOOLEAN : BulkReview(selected, s, allow)
  BY <1>4, BulkReviewKeeps
<1>5. CASE GuardRefresh
  BY <1>5, GuardRefreshKeeps
<1>6. CASE RecoverRoots
  BY <1>6, RecoverRootsKeeps
<1>7. CASE Confirm
  BY <1>7, UnchangedKeeps DEF Confirm
<1>8. CASE \E n \in NewRows : CreateByHand(n[1], n[2])
  BY <1>8, EditKeeps DEF CreateByHand
<1>9. CASE \E e \in FieldEdits : \E id \in DOMAIN profile.rows[e[1]] : UpdateByHand(e[1], id, e[2], e[3])
  BY <1>9, EditKeeps DEF UpdateByHand
<1>10. CASE \E entity \in Entities : \E id \in DOMAIN profile.rows[entity] : DeleteByHand(entity, id)
  BY <1>10, EditKeeps DEF DeleteByHand
<1>11. CASE \E e \in ScalarEdits : UpdateProfile(e[1], e[2])
  BY <1>11, EditKeeps DEF UpdateProfile
<1>12. CASE \E jobs \in JobSets : ReplaceJobs(jobs)
  BY <1>12, EditKeeps DEF ReplaceJobs
<1>13. CASE \E skills \in SkillSets : ReplaceSkills(skills)
  BY <1>13, EditKeeps DEF ReplaceSkills
<1>14. CASE \E exps \in ExpertiseSets : ReplaceExpertise(exps)
  BY <1>14, EditKeeps DEF ReplaceExpertise
<1>15. CASE \E c \in Retirable : DeactivateCode(c)
  BY <1>15, UnchangedKeeps DEF DeactivateCode, runVars
<1>16. CASE \E id \in DOMAIN profile.rels, rels \in RelationSets : ReplaceRelations(id, rels)
  BY <1>16, EditKeeps DEF ReplaceRelations
<1>17. CASE UNCHANGED vars
  BY <1>17, UnchangedKeeps DEF vars
<1> QED BY <1>1, <1>2, <1>3, <1>4, <1>5, <1>6, <1>7, <1>8, <1>9, <1>10, <1>11, <1>12,
           <1>13, <1>14, <1>15, <1>16, <1>17 DEF Next

\* A guard refresh, an evidence recovery or another reviewer's request never
\* replaces a decision or the evidence it was made on (guard_refresh.py,
\* root_evidence_recover.py, AnalysisService._apply_decision).
THEOREM DecisionsAreKept == Spec => DecisionsSurvive
<1>1. [Next]_vars => [AllKept]_vars
  BY StepKeeps
<1>2. [AllKept]_vars
        => [status = "REVIEWING" /\ status' = "REVIEWING" =>
              \A i \in DOMAIN diffs : diffs[i].status # "PENDING" =>
                /\ i \in DOMAIN diffs'
                /\ \/ diffs'[i] = diffs[i]
                   \/ diffs[i].status # "MERGED"
                      /\ diffs'[i] = [diffs[i] EXCEPT !.status = "PENDING", !.decided = Null]]_vars
  BY DEF AllKept, Kept, Withdrawn
<1> QED BY <1>1, <1>2, PTL DEF Spec, DecisionsSurvive

-----------------------------------------------------------------------------
(* What the application of the decided diffs keeps *)

\* Every row has passed the checks on its dates and its name.
RowsChecked(p) == \A e \in Entities : \A id \in DOMAIN p.rows[e] : RowError(p.rows[e][id]) = "none"

\* The accumulator has its six parts.
IsAcc(a) ==
  /\ DOMAIN a = {"profile", "active", "pending", "projAt", "applied", "error"}
  /\ IsProfile(a.profile) /\ RowsChecked(a.profile)

\* Nothing that p has is missing from q.
Grows(p, q) ==
  /\ p.jobs \subseteq q.jobs
  /\ DOMAIN p.skills \subseteq DOMAIN q.skills
  /\ DOMAIN p.exps \subseteq DOMAIN q.exps
  /\ \A e \in Entities : DOMAIN p.rows[e] \subseteq DOMAIN q.rows[e]
  /\ \A id \in DOMAIN p.rels : id \in DOMAIN q.rels /\ p.rels[id] \subseteq q.rels[id]

\* The rows that p has beside those of p0 are as they were in q.
Stays(p0, p, q) ==
  \A e \in Entities : \A id \in DOMAIN p.rows[e] \ DOMAIN p0.rows[e] :
    id \in DOMAIN q.rows[e] /\ q.rows[e][id] = p.rows[e][id]

\* An item that was accepted for a row only fills its nulls.
Gives(d, e, f, old, new) ==
  d.status = "ACCEPTED" /\ d.field = Null => old = Null /\ new = Coerced(e, f, d.new[f])

\* Every value of p that differs from the one in p0 was decided by one of ds.
ValuesDecided(ds, p0, e, id, row) ==
  \A f \in Range(RowFields) : row[f] # p0.rows[e][id][f] =>
    \E i \in DOMAIN ds : /\ Decides(ds[i], e, id, f, p0.rows[e][id][f])
                         /\ Gives(ds[i], e, f, p0.rows[e][id][f], row[f])

\* Its dates come from the row of p0 or from a decision about it.
Sourced(ds, p0, e, id, f, date) == \E a \in DateSources(ds, p0, e, id) : f \in DOMAIN a /\ a[f] = date

RowReviewed(ds, p0, e, id, row) ==
  id \in DOMAIN p0.rows[e] =>
    /\ ValuesDecided(ds, p0, e, id, row)
    /\ \A f \in DateFields : Sourced(ds, p0, e, id, f, row[f])

RowsReviewed(ds, p0, p) ==
  \A e \in Entities : \A id \in DOMAIN p0.rows[e] : RowReviewed(ds, p0, e, id, p.rows[e][id])

ScalarsReviewed(ds, p0, p) ==
  \A f \in DOMAIN p0.scalars : p.scalars[f] # p0.scalars[f] =>
    \E i \in DOMAIN ds : /\ Applies(ds[i]) /\ ds[i].entity = "PROFILE"
                         /\ ds[i].field = f /\ ds[i].old = p0.scalars[f]

CodesReviewed(ds, entity, f, g) ==
  \A c \in DOMAIN f : g[c] = f[c] \/ \E i \in DOMAIN ds : AppliesTo(ds[i], entity, c)

Reviewed(ds, p0, p) ==
  /\ Grows(p0, p) /\ DOMAIN p.scalars = DOMAIN p0.scalars
  /\ RowsReviewed(ds, p0, p) /\ ScalarsReviewed(ds, p0, p)
  /\ CodesReviewed(ds, "TECH", p0.skills, p.skills)
  /\ CodesReviewed(ds, "EXP", p0.exps, p.exps)

TargetTypes == Entities \cup {"PROFILE", "JOB", "TECH", "EXP", "RELATION"}

\* What a link or a registered target of this type is about, in profile p.
PointsAt(p, type, x) ==
  CASE type = "PROFILE"  -> TRUE
    [] type = "JOB"      -> x \in p.jobs
    [] type = "TECH"     -> x \in DOMAIN p.skills
    [] type = "EXP"      -> x \in DOMAIN p.exps
    [] type = "RELATION" -> x[1] \in DOMAIN p.rels /\ <<x[2], x[3]>> \in p.rels[x[1]]
    [] OTHER             -> x \in DOMAIN p.rows[type]

\* What the preview does not see: a date that only the application cannot read,
\* and two dates of one row that contradict each other.
DateExcuse(ds, p0) ==
  \E d \in Range(ds) :
    /\ Applies(d) /\ d.entity = "PROJECT"
    /\ \/ GoesOn(d) /\ (d.status = "MERGED" => MayLack(ds, p0, "PROJECT", d.target, "end"))
       \/ Corrects(d) /\ \E f \in DOMAIN Correction(d) : Correction(d)[f] = BadDate

OrderExcuse(ds, p0) ==
  \E e \in Entities : \E id \in DOMAIN p0.rows[e] : \E a, b \in DateSources(ds, p0, e, id) : Contradict(a, b)

Excused(ds, p0, why) ==
  /\ why = "date" => DateExcuse(ds, p0)
  /\ why = "order" => OrderExcuse(ds, p0)

\* One step of the application, from a to b, before it registers its target.
Moves(ds, p0, a, b) ==
  /\ IsAcc(b) /\ Reviewed(ds, p0, b.profile)
  /\ Grows(a.profile, b.profile) /\ Stays(p0, a.profile, b.profile)
  /\ b.applied = a.applied /\ b.projAt = a.projAt
  /\ b.error = "none" => a.error = "none"
  /\ b.error \in {"date", "order"} => b.error = a.error \/ Excused(ds, p0, b.error)

\* The invariant of the application.
Sound(ds, p0, a) ==
  /\ IsAcc(a) /\ Reviewed(ds, p0, a.profile)
  /\ a.error = "none" =>
       /\ \A k \in DOMAIN a.projAt : a.projAt[k] \in DOMAIN a.profile.rows["PROJECT"]
       /\ \A x \in a.applied : /\ x[2] \in TargetTypes /\ PointsAt(a.profile, x[2], x[3])
                               /\ IsProjectRoot(ds[x[1]]) => x[2] = "PROJECT"
  /\ a.error \in {"date", "order"} => Excused(ds, p0, a.error)

\* A step that keeps it loses nothing.
Leads(ds, p0, a, b) ==
  Sound(ds, p0, b) /\ Grows(a.profile, b.profile) /\ Stays(p0, a.profile, b.profile)

LEMMA GrowsTransitively ==
  ASSUME NEW p, NEW q, NEW r, Grows(p, q), Grows(q, r)
  PROVE  Grows(p, r)
<1>1. \A e \in Entities : DOMAIN p.rows[e] \subseteq DOMAIN r.rows[e]
  BY DEF Grows
<1>2. \A id \in DOMAIN p.rels : id \in DOMAIN r.rels /\ p.rels[id] \subseteq r.rels[id]
  BY DEF Grows
<1> QED BY <1>1, <1>2 DEF Grows

LEMMA GrowsReflexively == ASSUME NEW p PROVE Grows(p, p)
BY DEF Grows

LEMMA StaysReflexively == ASSUME NEW p0, NEW p, NEW q, q.rows = p.rows PROVE Stays(p0, p, q)
BY DEF Stays

LEMMA StaysTransitively ==
  ASSUME NEW p0, NEW p, NEW q, NEW r, Stays(p0, p, q), Stays(p0, q, r)
  PROVE  Stays(p0, p, r)
<1> SUFFICES ASSUME NEW e \in Entities, NEW id \in DOMAIN p.rows[e] \ DOMAIN p0.rows[e]
             PROVE  id \in DOMAIN r.rows[e] /\ r.rows[e][id] = p.rows[e][id]
  BY DEF Stays
<1>1. id \in DOMAIN q.rows[e] \ DOMAIN p0.rows[e] /\ q.rows[e][id] = p.rows[e][id]
  BY DEF Stays
<1> QED BY <1>1 DEF Stays

LEMMA StillPointsAt ==
  ASSUME NEW p, NEW q, Grows(p, q), NEW type, NEW x, PointsAt(p, type, x),
         type \in TargetTypes
  PROVE  PointsAt(q, type, x)
<1>1. CASE type \in {"PROFILE", "JOB", "TECH", "EXP"}
  BY <1>1 DEF PointsAt, Grows
<1>2. CASE type = "RELATION"
  BY <1>2 DEF PointsAt, Grows
<1>3. CASE type \in Entities
  BY <1>3 DEF PointsAt, Grows, Entities
<1> QED BY <1>1, <1>2, <1>3 DEF TargetTypes

LEMMA MovesTransitively ==
  ASSUME NEW ds, NEW p0, NEW a, NEW b, NEW c, Moves(ds, p0, a, b), Moves(ds, p0, b, c)
  PROVE  Moves(ds, p0, a, c)
<1>1. Grows(a.profile, c.profile) /\ Stays(p0, a.profile, c.profile)
  BY GrowsTransitively, StaysTransitively DEF Moves
<1> QED BY <1>1 DEF Moves

LEMMA LeadsTransitively ==
  ASSUME NEW ds, NEW p0, NEW a, NEW b, NEW c, Leads(ds, p0, a, b), Leads(ds, p0, b, c)
  PROVE  Leads(ds, p0, a, c)
<1>1. Grows(a.profile, c.profile) /\ Stays(p0, a.profile, c.profile)
  BY GrowsTransitively, StaysTransitively DEF Leads
<1> QED BY <1>1 DEF Leads

LEMMA LeadsReflexively ==
  ASSUME NEW ds, NEW p0, NEW a, Sound(ds, p0, a)
  PROVE  Leads(ds, p0, a, a)
BY GrowsReflexively, StaysReflexively DEF Leads

-----------------------------------------------------------------------------
(* The writes *)

LEMMA FailMoves ==
  ASSUME NEW ds, NEW p0, NEW a, IsAcc(a), Reviewed(ds, p0, a.profile), NEW why, why # "none",
         why \in {"date", "order"} => Excused(ds, p0, why)
  PROVE  Moves(ds, p0, a, Fail(a, why))
<1> DEFINE b == Fail(a, why)
<1>1. /\ DOMAIN b = DOMAIN a /\ b.profile = a.profile /\ b.applied = a.applied /\ b.projAt = a.projAt
      /\ b.error = IF a.error = "none" THEN why ELSE a.error
  BY DEF Fail, IsAcc
<1>2. IsAcc(b)
  BY <1>1 DEF IsAcc
<1> HIDE DEF b
<1>3. Moves(ds, p0, a, b)
  BY <1>1, <1>2, GrowsReflexively, StaysReflexively DEF Moves
<1> QED BY <1>3 DEF b

\* A profile whose rows are replaced.
LEMMA RowsReplaced ==
  ASSUME NEW p, NEW q, IsProfile(p), DOMAIN q = DOMAIN p,
         DOMAIN q.rows = Entities,
         \A e \in Entities : DOMAIN p.rows[e] \subseteq DOMAIN q.rows[e],
         \A e \in Entities : \A id \in DOMAIN q.rows[e] : DOMAIN q.rows[e][id] = Range(RowFields),
         q.nextId \in Nat, \A e \in Entities : \A id \in DOMAIN q.rows[e] : id \in Nat /\ id < q.nextId,
         DOMAIN q.rels = DOMAIN q.rows["PROJECT"],
         \A id \in DOMAIN p.rels : id \in DOMAIN q.rels /\ q.rels[id] = p.rels[id],
         q.jobs = p.jobs, q.skills = p.skills, q.exps = p.exps
  PROVE  IsProfile(q) /\ Grows(p, q)
<1>1. IsProfile(q)
  BY DEF IsProfile
<1>2. Grows(p, q)
  BY DEF Grows
<1> QED BY <1>1, <1>2

LEMMA RowsReplacedReviewed ==
  ASSUME NEW ds, NEW p0, NEW p, NEW q, Reviewed(ds, p0, p), Grows(p, q),
         q.jobs = p.jobs, q.skills = p.skills, q.exps = p.exps, q.scalars = p.scalars,
         RowsReviewed(ds, p0, q)
  PROVE  Reviewed(ds, p0, q)
<1>1. Grows(p0, q)
  BY GrowsTransitively DEF Reviewed
<1> QED BY <1>1 DEF Reviewed, ScalarsReviewed, CodesReviewed

\* A row whose dates contradict each other has them from its sources.
LEMMA OrderIsExcused ==
  ASSUME NEW ds, NEW p0, NEW e \in Entities, NEW id \in DOMAIN p0.rows[e],
         NEW row, RowReviewed(ds, p0, e, id, row), RowError(row) = "order"
  PROVE  OrderExcuse(ds, p0)
<1>1. BadDate \notin {row.start, row.end} /\ ~InOrder(row.start, row.end)
  BY DEF RowError
<1>2. PICK a \in DateSources(ds, p0, e, id) : "start" \in DOMAIN a /\ a["start"] = row.start
  BY DEF RowReviewed, Sourced, DateFields
<1>3. PICK b \in DateSources(ds, p0, e, id) : "end" \in DOMAIN b /\ b["end"] = row.end
  BY DEF RowReviewed, Sourced, DateFields
<1>4. Contradict(a, b)
  BY <1>1, <1>2, <1>3 DEF Contradict
<1> QED BY <1>2, <1>3, <1>4 DEF OrderExcuse

\* A row is replaced by one whose values were decided.
LEMMA SetRowMoves ==
  ASSUME NEW ds, NEW p0, NEW a, IsAcc(a), Reviewed(ds, p0, a.profile),
         NEW e \in Entities, NEW id \in DOMAIN a.profile.rows[e], id \in DOMAIN p0.rows[e],
         NEW row, DOMAIN row = Range(RowFields), RowReviewed(ds, p0, e, id, row),
         RowError(row) = "date" => DateExcuse(ds, p0)
  PROVE  Moves(ds, p0, a, SetRow(a, e, id, row))
<1> DEFINE b == SetRow(a, e, id, row)
           rows == [a.profile.rows EXCEPT ![e] = [@ EXCEPT ![id] = row]]
<1>1. CASE RowError(row) # "none"
  <2>1. b = Fail(a, RowError(row))
    BY <1>1 DEF SetRow
  <2>2. Excused(ds, p0, RowError(row))
    BY OrderIsExcused DEF Excused
  <2> QED BY <1>1, <2>1, <2>2, FailMoves
<1>2. CASE RowError(row) = "none"
  <2> DEFINE q == [a.profile EXCEPT !.rows = rows]
  <2>1. b = [a EXCEPT !.profile = q]
    BY <1>2 DEF SetRow
  <2>2. /\ DOMAIN b = DOMAIN a /\ b.profile = q
        /\ b.applied = a.applied /\ b.projAt = a.projAt /\ b.error = a.error
    BY <2>1 DEF IsAcc
  <2>3. /\ DOMAIN q = DOMAIN a.profile /\ q.rows = rows /\ q.jobs = a.profile.jobs
        /\ q.rels = a.profile.rels /\ q.skills = a.profile.skills /\ q.exps = a.profile.exps
        /\ q.scalars = a.profile.scalars /\ q.nextId = a.profile.nextId
    BY DEF IsAcc, IsProfile
  <2>4. /\ DOMAIN rows = Entities
        /\ \A x \in Entities : DOMAIN rows[x] = DOMAIN a.profile.rows[x]
    BY DEF IsAcc, IsProfile
  <2>5. \A x \in Entities : \A y \in DOMAIN rows[x] :
          rows[x][y] = IF x = e /\ y = id THEN row ELSE a.profile.rows[x][y]
    BY DEF IsAcc, IsProfile
  <2> HIDE DEF q, rows
  <2>6. \A x \in Entities : \A y \in DOMAIN rows[x] : DOMAIN rows[x][y] = Range(RowFields)
    BY <2>4, <2>5 DEF IsAcc, IsProfile
  <2>7. DOMAIN q.rels = DOMAIN q.rows["PROJECT"]
    BY <2>3, <2>4 DEF IsAcc, IsProfile, Entities
  <2>8. q.nextId \in Nat /\ \A x \in Entities : \A y \in DOMAIN q.rows[x] : y \in Nat /\ y < q.nextId
    BY <2>3, <2>4 DEF IsAcc, IsProfile
  <2>9. IsProfile(q) /\ Grows(a.profile, q)
    BY <2>3, <2>4, <2>6, <2>7, <2>8, RowsReplaced DEF IsAcc
  <2>10. RowsReviewed(ds, p0, q)
    <3> SUFFICES ASSUME NEW x \in Entities, NEW y \in DOMAIN p0.rows[x]
                 PROVE  RowReviewed(ds, p0, x, y, rows[x][y])
      BY <2>3 DEF RowsReviewed
    <3>1. y \in DOMAIN rows[x]
      BY <2>4 DEF Reviewed, Grows
    <3>2. RowReviewed(ds, p0, x, y, a.profile.rows[x][y])
      BY DEF Reviewed, RowsReviewed
    <3>3. CASE x = e /\ y = id
      BY <2>5, <3>1, <3>3
    <3>4. CASE ~(x = e /\ y = id)
      BY <2>5, <3>1, <3>2, <3>4
    <3> QED BY <3>3, <3>4
  <2>11. Reviewed(ds, p0, q)
    BY <2>3, <2>9, <2>10, RowsReplacedReviewed
  <2>12. IsAcc(b)
    <3>1. RowsChecked(q)
      BY <1>2, <2>3, <2>4, <2>5 DEF RowsChecked, IsAcc
    <3> QED BY <2>2, <2>9, <3>1 DEF IsAcc
  <2>13. Stays(p0, a.profile, q)
    BY <2>3, <2>4, <2>5 DEF Stays
  <2> HIDE DEF b
  <2>14. Moves(ds, p0, a, b)
    BY <2>2, <2>9, <2>11, <2>12, <2>13 DEF Moves
  <2> QED BY <2>14 DEF b
<1> QED BY <1>1, <1>2

\* Row id of p was made of row and is none of p0.
IsNewRow(p0, p, e, id, row) ==
  id \in DOMAIN p.rows[e] /\ id \notin DOMAIN p0.rows[e] /\ p.rows[e][id] = row

\* A created row is a new row of the profile, whatever was there before it.
LEMMA CreateRowMoves ==
  ASSUME NEW ds, NEW p0, NEW a, IsAcc(a), Reviewed(ds, p0, a.profile),
         NEW e \in Entities, NEW row, DOMAIN row = Range(RowFields),
         RowError(row) \in {"date", "order"} => Excused(ds, p0, RowError(row))
  PROVE  /\ Moves(ds, p0, a, CreateRow(a, e, row))
         /\ CreateRow(a, e, row).error = "none"
              => IsNewRow(p0, CreateRow(a, e, row).profile, e, a.profile.nextId, row)
<1> DEFINE b == CreateRow(a, e, row)
           id == a.profile.nextId
           rows == [a.profile.rows EXCEPT ![e] = SetDefault(@, id, row)]
           rels == IF e = "PROJECT" THEN SetDefault(a.profile.rels, id, {}) ELSE a.profile.rels
           q == [a.profile EXCEPT !.rows = rows, !.rels = rels, !.nextId = id + 1]
<1>1. CASE RowError(row) # "none"
  <2>1. b = Fail(a, RowError(row))
    BY <1>1 DEF CreateRow
  <2>2. b.error # "none"
    BY <1>1, <2>1 DEF Fail, IsAcc
  <2> QED BY <1>1, <2>1, <2>2, FailMoves
<1>2. CASE RowError(row) = "none"
  <2>1. b = [a EXCEPT !.profile = q, !.pending = {}]
    BY <1>2 DEF CreateRow, IsAcc, IsProfile
  <2>2. /\ DOMAIN b = DOMAIN a /\ b.profile = q
        /\ b.applied = a.applied /\ b.projAt = a.projAt /\ b.error = a.error
    BY <2>1 DEF IsAcc
  <2>3. /\ DOMAIN q = DOMAIN a.profile /\ q.rows = rows /\ q.jobs = a.profile.jobs
        /\ q.rels = rels /\ q.skills = a.profile.skills /\ q.exps = a.profile.exps
        /\ q.scalars = a.profile.scalars /\ q.nextId = id + 1
    BY DEF IsAcc, IsProfile
  <2>4. /\ DOMAIN rows = Entities
        /\ \A x \in Entities : DOMAIN rows[x] = IF x = e THEN DOMAIN a.profile.rows[x] \cup {id}
                                                ELSE DOMAIN a.profile.rows[x]
    BY DEF IsAcc, IsProfile, SetDefault, Put
  <2>5. \A x \in Entities : \A y \in DOMAIN rows[x] :
          rows[x][y] = IF y \in DOMAIN a.profile.rows[x] THEN a.profile.rows[x][y] ELSE row
    BY DEF IsAcc, IsProfile, SetDefault, Put
  <2>6. DOMAIN rels = DOMAIN rows["PROJECT"]
    BY <2>4 DEF IsAcc, IsProfile, SetDefault, Put, Entities
  <2>7. \A y \in DOMAIN a.profile.rels : y \in DOMAIN rels /\ rels[y] = a.profile.rels[y]
    BY DEF SetDefault, Put
  <2> HIDE DEF q, rows, rels
  <2>8. \A x \in Entities : \A y \in DOMAIN rows[x] : DOMAIN rows[x][y] = Range(RowFields)
    BY <2>4, <2>5 DEF IsAcc, IsProfile
  <2>9. \A x \in Entities : DOMAIN a.profile.rows[x] \subseteq DOMAIN rows[x]
    BY <2>4
  <2>10. q.nextId \in Nat
    BY <2>3 DEF IsAcc, IsProfile
  <2>11. \A x \in Entities : \A y \in DOMAIN q.rows[x] : y \in Nat /\ y < q.nextId
    <3>1. id \in Nat /\ \A x \in Entities : \A y \in DOMAIN a.profile.rows[x] : y \in Nat /\ y < id
      BY DEF IsAcc, IsProfile
    <3>2. \A x \in Entities : DOMAIN rows[x] \subseteq DOMAIN a.profile.rows[x] \cup {id}
      BY <2>4
    <3> HIDE DEF id
    <3> QED BY <2>3, <3>1, <3>2
  <2>12. IsProfile(q) /\ Grows(a.profile, q)
    BY <2>3, <2>4, <2>6, <2>7, <2>8, <2>9, <2>10, <2>11, RowsReplaced DEF IsAcc
  <2>13. RowsReviewed(ds, p0, q)
    <3> SUFFICES ASSUME NEW x \in Entities, NEW y \in DOMAIN p0.rows[x]
                 PROVE  RowReviewed(ds, p0, x, y, rows[x][y])
      BY <2>3 DEF RowsReviewed
    <3>1. y \in DOMAIN a.profile.rows[x] /\ RowReviewed(ds, p0, x, y, a.profile.rows[x][y])
      BY DEF Reviewed, Grows, RowsReviewed
    <3> QED BY <2>5, <2>9, <3>1
  <2>14. Reviewed(ds, p0, q)
    BY <2>3, <2>12, <2>13, RowsReplacedReviewed
  <2>15. IsAcc(b)
    <3>1. RowsChecked(q)
      BY <1>2, <2>3, <2>4, <2>5 DEF RowsChecked, IsAcc
    <3> QED BY <2>2, <2>12, <3>1 DEF IsAcc
  <2>16. id \notin DOMAIN a.profile.rows[e] /\ id \notin DOMAIN p0.rows[e]
    <3>1. id \in Nat /\ (id \in DOMAIN a.profile.rows[e] => id < id)
      BY DEF IsAcc, IsProfile
    <3>2. DOMAIN p0.rows[e] \subseteq DOMAIN a.profile.rows[e]
      BY DEF Reviewed, Grows
    <3> HIDE DEF id
    <3> QED BY <3>1, <3>2
  <2>17. id \in DOMAIN b.profile.rows[e] /\ b.profile.rows[e][id] = row
    <3>1. id \in DOMAIN rows[e]
      BY <2>4
    <3>2. rows[e][id] = row
      BY <2>5, <2>16, <3>1
    <3>3. b.profile.rows = rows
      BY <2>2, <2>3
    <3> HIDE DEF b, id
    <3> QED BY <3>1, <3>2, <3>3
  <2>18. Stays(p0, a.profile, q)
    BY <2>3, <2>5, <2>9 DEF Stays
  <2> HIDE DEF b
  <2>19. Moves(ds, p0, a, b)
    BY <2>2, <2>12, <2>14, <2>15, <2>18 DEF Moves
  <2> QED BY <2>16, <2>17, <2>19 DEF b, IsNewRow
<1> QED BY <1>1, <1>2

\* Links are only added, and only to a project that is there.
LEMMA AddLinksMoves ==
  ASSUME NEW ds, NEW p0, NEW a, IsAcc(a), Reviewed(ds, p0, a.profile),
         NEW id \in DOMAIN a.profile.rels, NEW new, a.error = "none"
  PROVE  /\ Moves(ds, p0, a, AddLinks(a, id, new))
         /\ new \subseteq AddLinks(a, id, new).profile.rels[id]
<1> DEFINE b == AddLinks(a, id, new)
           rels == [a.profile.rels EXCEPT ![id] = @ \cup new]
           q == [a.profile EXCEPT !.rels = rels]
           waiting == a.pending \cup {<<id, l>> : l \in new \ a.profile.rels[id]}
<1>1. b = [a EXCEPT !.profile = q, !.pending = waiting]
  BY DEF AddLinks
<1>2. /\ DOMAIN b = DOMAIN a /\ b.profile = q
      /\ b.applied = a.applied /\ b.projAt = a.projAt /\ b.error = a.error
  <2> HIDE DEF q, waiting
  <2> QED BY <1>1 DEF IsAcc
<1>3. /\ DOMAIN q = DOMAIN a.profile /\ q.rows = a.profile.rows /\ q.jobs = a.profile.jobs
      /\ q.rels = rels /\ q.skills = a.profile.skills /\ q.exps = a.profile.exps
      /\ q.scalars = a.profile.scalars /\ q.nextId = a.profile.nextId
  BY DEF IsAcc, IsProfile
<1>4. DOMAIN rels = DOMAIN a.profile.rels /\ new \subseteq rels[id]
  OBVIOUS
<1>5. \A y \in DOMAIN rels : a.profile.rels[y] \subseteq rels[y]
  OBVIOUS
<1> HIDE DEF b, q, rels
<1>6. IsProfile(q)
  BY <1>3, <1>4 DEF IsAcc, IsProfile
<1>7. IsAcc(b)
  <2>1. RowsChecked(q)
    BY <1>3 DEF RowsChecked, IsAcc
  <2> QED BY <1>2, <1>6, <2>1 DEF IsAcc
<1>8. Grows(a.profile, q)
  BY <1>3, <1>4, <1>5 DEF Grows
<1>9. RowsReviewed(ds, p0, q)
  BY <1>3 DEF Reviewed, RowsReviewed
<1>10. Reviewed(ds, p0, q)
  BY <1>3, <1>8, <1>9, RowsReplacedReviewed
<1>11. Moves(ds, p0, a, b)
  BY <1>2, <1>3, <1>7, <1>8, <1>10, StaysReflexively DEF Moves
<1>12. new \subseteq b.profile.rels[id]
  BY <1>2, <1>3, <1>4
<1> QED BY <1>11, <1>12 DEF b

LEMMA NothingMoves ==
  ASSUME NEW ds, NEW p0, NEW a, IsAcc(a), Reviewed(ds, p0, a.profile)
  PROVE  Moves(ds, p0, a, a)
BY GrowsReflexively, StaysReflexively DEF Moves

LEMMA InsertRelationMoves ==
  ASSUME NEW ds, NEW p0, NEW a, IsAcc(a), Reviewed(ds, p0, a.profile),
         NEW id \in DOMAIN a.profile.rels, NEW link
  PROVE  /\ Moves(ds, p0, a, InsertRelation(a, id, link))
         /\ InsertRelation(a, id, link).error = "none"
              => link \in InsertRelation(a, id, link).profile.rels[id]
<1> DEFINE why == LinkRefusal(a, id, link)
           b == InsertRelation(a, id, link)
<1>1. CASE a.error # "none"
  <2>1. b = a
    BY <1>1 DEF InsertRelation
  <2> QED BY <1>1, <2>1, NothingMoves
<1>2. CASE a.error = "none" /\ why # "none"
  <2>1. b = Fail(a, why)
    BY <1>2 DEF InsertRelation
  <2>2. why \notin {"date", "order"}
    BY DEF LinkRefusal
  <2>3. b.error # "none"
    BY <1>2, <2>1 DEF Fail, IsAcc
  <2> QED BY <1>2, <2>1, <2>2, <2>3, FailMoves
<1>3. CASE a.error = "none" /\ why = "none"
  <2>1. b = AddLinks(a, id, {link})
    BY <1>3 DEF InsertRelation
  <2> QED BY <1>3, <2>1, AddLinksMoves
<1> QED BY <1>1, <1>2, <1>3

LEMMA InsertRelationsMoves ==
  ASSUME NEW ds, NEW p0, NEW a, IsAcc(a), Reviewed(ds, p0, a.profile),
         NEW id \in DOMAIN a.profile.rels, NEW data
  PROVE  Moves(ds, p0, a, InsertRelations(a, id, data))
<1> DEFINE rels  == IF "rels" \in DOMAIN data THEN data.rels ELSE <<>>
           coded == {k \in DOMAIN rels : rels[k].val.code # Null}
           link  == [k \in coded |-> <<rels[k].val.kind, rels[k].val.code>>]
           Repeated(k) == link[k] \notin a.profile.rels[id] /\ \E j \in coded : j < k /\ link[j] = link[k]
           Why(k)  == IF Repeated(k) THEN "integrity" ELSE LinkRefusal(a, id, link[k])
           refused == {k \in coded : Why(k) # "none"}
           first   == CHOOSE k \in refused : \A j \in refused : k <= j
           b == InsertRelations(a, id, data)
<1>1. b = IF a.error # "none" THEN a ELSE IF refused # {} THEN Fail(a, Why(first)) ELSE AddLinks(a, id, Range(link))
  BY Zenon DEF InsertRelations
<1> HIDE DEF rels, coded, link, refused, first, b
<1>2. CASE a.error # "none"
  <2>1. b = a
    BY <1>1, <1>2
  <2> QED BY <2>1, NothingMoves DEF b
<1>3. CASE a.error = "none" /\ refused # {}
  <2>1. b = Fail(a, Why(first))
    BY <1>1, <1>3
  <2>2. Why(first) \in {"integrity", "code", "none"}
    BY DEF LinkRefusal
  <2> HIDE DEF Why
  <2>3. CASE Why(first) # "none"
    <3>1. Moves(ds, p0, a, b)
      BY <2>1, <2>2, <2>3, FailMoves
    <3> QED BY <3>1 DEF b
  <2>4. CASE Why(first) = "none"
    <3>1. b = [a EXCEPT !.error = "none"]
      BY <1>3, <2>1, <2>4 DEF Fail
    <3>2. DOMAIN b = DOMAIN a /\ b.profile = a.profile /\ b.applied = a.applied /\ b.projAt = a.projAt /\ b.error = "none"
      BY <3>1 DEF IsAcc
    <3>3. Moves(ds, p0, a, b)
      BY <1>3, <3>2, GrowsReflexively, StaysReflexively DEF Moves, IsAcc
    <3> QED BY <3>3 DEF b
  <2> QED BY <2>3, <2>4
<1>4. CASE a.error = "none" /\ refused = {}
  <2>1. b = AddLinks(a, id, Range(link))
    BY <1>1, <1>4
  <2>2. Moves(ds, p0, a, b)
    BY <1>4, <2>1, AddLinksMoves
  <2> QED BY <2>2 DEF b
<1> QED BY <1>2, <1>3, <1>4

-----------------------------------------------------------------------------
(* What each step leaves for the next *)

LEMMA MovesKeepSound ==
  ASSUME NEW ds, NEW p0, NEW a, NEW b, Sound(ds, p0, a), Moves(ds, p0, a, b)
  PROVE  Leads(ds, p0, a, b)
<1>1. b.error = "none" => \A k \in DOMAIN b.projAt : b.projAt[k] \in DOMAIN b.profile.rows["PROJECT"]
  <2>1. DOMAIN a.profile.rows["PROJECT"] \subseteq DOMAIN b.profile.rows["PROJECT"]
    BY DEF Moves, Grows, Entities
  <2> QED BY <2>1 DEF Sound, Moves
<1>2. b.error = "none" => \A x \in b.applied :
        /\ x[2] \in TargetTypes /\ PointsAt(b.profile, x[2], x[3])
        /\ IsProjectRoot(ds[x[1]]) => x[2] = "PROJECT"
  <2> SUFFICES ASSUME b.error = "none", NEW x \in b.applied
               PROVE  /\ x[2] \in TargetTypes /\ PointsAt(b.profile, x[2], x[3])
                      /\ IsProjectRoot(ds[x[1]]) => x[2] = "PROJECT"
    OBVIOUS
  <2>1. /\ x[2] \in TargetTypes /\ PointsAt(a.profile, x[2], x[3])
        /\ IsProjectRoot(ds[x[1]]) => x[2] = "PROJECT"
    BY DEF Sound, Moves
  <2> QED BY <2>1, StillPointsAt DEF Moves
<1> QED BY <1>1, <1>2 DEF Sound, Moves, Leads

\* A diff is registered for something the profile has by then.
LEMMA RegisterKeepsSound ==
  ASSUME NEW ds, NEW p0, NEW a, NEW b, Leads(ds, p0, a, b),
         NEW i, NEW type \in TargetTypes, NEW x, NEW field,
         b.error = "none" => PointsAt(b.profile, type, x) /\ (IsProjectRoot(ds[i]) => type = "PROJECT")
  PROVE  /\ Leads(ds, p0, a, Register(b, i, type, x, field))
         /\ Register(b, i, type, x, field).profile = b.profile
         /\ Register(b, i, type, x, field).error = b.error
<1> DEFINE c == Register(b, i, type, x, field)
<1>1. c = [b EXCEPT !.applied = b.applied \cup {<<i, type, x, field>>}]
  BY DEF Register
<1>2. /\ DOMAIN c = DOMAIN b /\ c.profile = b.profile /\ c.projAt = b.projAt /\ c.error = b.error
      /\ c.applied = b.applied \cup {<<i, type, x, field>>}
  BY <1>1 DEF Leads, Sound, IsAcc
<1> HIDE DEF c
<1>3. IsAcc(c)
  BY <1>2 DEF Leads, Sound, IsAcc
<1>4. c.error = "none" => \A y \in c.applied :
        /\ y[2] \in TargetTypes /\ PointsAt(c.profile, y[2], y[3])
        /\ IsProjectRoot(ds[y[1]]) => y[2] = "PROJECT"
  <2> SUFFICES ASSUME c.error = "none", NEW y \in c.applied
               PROVE  /\ y[2] \in TargetTypes /\ PointsAt(b.profile, y[2], y[3])
                      /\ IsProjectRoot(ds[y[1]]) => y[2] = "PROJECT"
    BY <1>2
  <2>1. CASE y \in b.applied
    BY <1>2, <2>1 DEF Leads, Sound
  <2>2. CASE y = <<i, type, x, field>>
    <3>1. y[1] = i /\ y[2] = type /\ y[3] = x
      BY <2>2
    <3> QED BY <1>2, <3>1
  <2> QED BY <1>2, <2>1, <2>2
<1>5. Leads(ds, p0, a, c)
  BY <1>2, <1>3, <1>4 DEF Leads, Sound
<1> QED BY <1>2, <1>5 DEF c

\* So is what a candidate project became.
LEMMA ProjectKnownKeepsSound ==
  ASSUME NEW ds, NEW p0, NEW a, NEW b, Leads(ds, p0, a, b), NEW at,
         b.error = "none" => \A k \in DOMAIN at : at[k] \in DOMAIN b.profile.rows["PROJECT"]
  PROVE  /\ Leads(ds, p0, a, [b EXCEPT !.projAt = at])
         /\ [b EXCEPT !.projAt = at].profile = b.profile
         /\ [b EXCEPT !.projAt = at].error = b.error
<1> DEFINE c == [b EXCEPT !.projAt = at]
<1>1. /\ DOMAIN c = DOMAIN b /\ c.profile = b.profile /\ c.projAt = at /\ c.error = b.error
      /\ c.applied = b.applied
  BY DEF Leads, Sound, IsAcc
<1> HIDE DEF c
<1>2. IsAcc(c)
  BY <1>1 DEF Leads, Sound, IsAcc
<1>3. Leads(ds, p0, a, c)
  BY <1>1, <1>2 DEF Leads, Sound
<1> QED BY <1>1, <1>3 DEF c

-----------------------------------------------------------------------------
(* The application of one diff *)

\* What build_diffs knows of a whole item when it proposes it against p: SAME is
\* there and NEW is not, and a career row it may be is like it.
Known(d, p) ==
  d.field = Null =>
    /\ d.entity = "JOB" => /\ d.change = "SAME" => <<d.new.code, d.new.type>> \in p.jobs
                           /\ d.change = "NEW" => <<d.new.code, d.new.type>> \notin p.jobs
    /\ d.entity = "TECH" => /\ d.change = "SAME" => d.new.code \in DOMAIN p.skills
                            /\ d.change = "NEW" => d.new.code \notin DOMAIN p.skills
    /\ d.entity = "EXP" => /\ d.change = "SAME" => d.new.code \in DOMAIN p.exps
                           /\ d.change = "NEW" => d.new.code \notin DOMAIN p.exps
    /\ d.entity \in Entities \ {"PROJECT"} =>
         /\ d.target # Null => Similar(d.entity, d.new, p.rows[d.entity][d.target])
         /\ d.change = "NEW" => \A id \in DOMAIN p.rows[d.entity] : ~Similar(d.entity, d.new, p.rows[d.entity][id])
    /\ d.entity = "PROJECT" /\ d.change = "NEW" =>
         \A id \in DOMAIN p.rows["PROJECT"] : ~SameNameMatch(d.new, p.rows["PROJECT"][id])

\* A row of p that p0 has not, made of the item v.
Created(p0, p, e, v) ==
  \E id \in DOMAIN p.rows[e] \ DOMAIN p0.rows[e] : p.rows[e][id] = NullFill(e, Blank, v)

\* What the profile has once an item was accepted.
Done(d, p0, p) ==
  d.status = "ACCEPTED" /\ d.field = Null =>
    /\ d.entity = "JOB" => <<d.new.code, d.new.type>> \in p.jobs
    /\ d.entity = "TECH" => d.new.code \in DOMAIN p.skills
    /\ d.entity = "EXP" => d.new.code \in DOMAIN p.exps
    /\ d.entity \in Entities /\ (d.entity = "PROJECT" \/ d.target = Null) => Created(p0, p, d.entity, d.new)

\* The application of the i-th diff, from a to b.
Achieves(ds, p0, a, i, b) ==
  Leads(ds, p0, a, b) /\ (b.error = "none" => Done(ds[i], p0, b.profile))

\* What the checks before the application establish of a diff that is applied.
Ready(d, p0) ==
  /\ Known(d, p0)
  /\ d.entity \in {"PROFILE", "JOB", "TECH", "EXP"} \cup Entities
  /\ ~HasDateIssue(d)
  /\ d.status = "MODIFIED" => d.decided # Null
  /\ d.status = "MERGED" => IsProjectRoot(d) /\ d.target # Null
  /\ d.entity = "PROFILE" => d.old = p0.scalars[d.field]
  /\ d.entity \in Entities =>
       /\ d.target # Null => d.target \in DOMAIN p0.rows[d.entity]
       /\ d.field \in Range(RowFields) => d.target # Null /\ d.old = p0.rows[d.entity][d.target][d.field]
       /\ d.field \notin Range(RowFields) \cup {Null} => d.entity = "PROJECT"

LEMMA Fields == Range(RowFields) = {"name", "sub", "start", "end"}
<1>1. DOMAIN RowFields = 1..4
  BY DEF RowFields
<1>2. \A k \in 1..4 : k = 1 \/ k = 2 \/ k = 3 \/ k = 4
  OBVIOUS
<1>3. RowFields[1] = "name" /\ RowFields[2] = "sub" /\ RowFields[3] = "start" /\ RowFields[4] = "end"
  BY DEF RowFields
<1> QED BY <1>1, <1>2, <1>3 DEF Range

LEMMA DoneStays ==
  ASSUME NEW d, NEW p0, NEW p, NEW q, Done(d, p0, p), Grows(p, q), Stays(p0, p, q)
  PROVE  Done(d, p0, q)
<1> SUFFICES ASSUME d.status = "ACCEPTED" /\ d.field = Null,
                    d.entity \in Entities /\ (d.entity = "PROJECT" \/ d.target = Null)
             PROVE  Created(p0, q, d.entity, d.new)
  BY DEF Done, Grows
<1> DEFINE e == d.entity
<1>1. PICK id \in DOMAIN p.rows[e] \ DOMAIN p0.rows[e] : p.rows[e][id] = NullFill(e, Blank, d.new)
  BY DEF Done, Created
<1>2. id \in DOMAIN q.rows[e] /\ q.rows[e][id] = p.rows[e][id]
  BY DEF Stays
<1> QED BY <1>1, <1>2 DEF Created

\* A field or a correction leaves nothing to be done with a whole item.
LEMMA NothingToDo ==
  ASSUME NEW ds, NEW p0, NEW a, NEW i, NEW b, Leads(ds, p0, a, b),
         ds[i].status # "ACCEPTED" \/ ds[i].field # Null \/ ds[i].entity = "PROFILE" \/ b.error # "none"
  PROVE  Achieves(ds, p0, a, i, b)
BY DEF Achieves, Done, Entities

LEMMA FailAchievesNothing ==
  ASSUME NEW ds, NEW p0, NEW a, Sound(ds, p0, a), NEW i, NEW why, why \notin {"none", "date", "order"}
  PROVE  Achieves(ds, p0, a, i, Fail(a, why))
<1>1. Leads(ds, p0, a, Fail(a, why))
  BY FailMoves, MovesKeepSound DEF Sound
<1>2. Fail(a, why).error # "none"
  BY DEF Fail, Sound, IsAcc
<1> QED BY <1>1, <1>2, NothingToDo

LEMMA NullIsNoField == Null \notin Range(RowFields) \cup {"career_start_date", "PROJECT", "EMPLOYMENT"}
BY NullAssumption DEF Entities

\* The profile is replaced and nothing else.
LEMMA ProfileMoves ==
  ASSUME NEW ds, NEW p0, NEW a, IsAcc(a), NEW q, IsProfile(q), Grows(a.profile, q), Reviewed(ds, p0, q),
         q.rows = a.profile.rows
  PROVE  Moves(ds, p0, a, [a EXCEPT !.profile = q])
<1> DEFINE b == [a EXCEPT !.profile = q]
<1>1. /\ DOMAIN b = DOMAIN a /\ b.profile = q
      /\ b.applied = a.applied /\ b.projAt = a.projAt /\ b.error = a.error
  BY DEF IsAcc
<1> HIDE DEF b
<1>2. IsAcc(b)
  BY <1>1 DEF IsAcc, RowsChecked
<1>3. Moves(ds, p0, a, b)
  BY <1>1, <1>2, StaysReflexively DEF Moves
<1> QED BY <1>3 DEF b

LEMMA ApplyProfileSound ==
  ASSUME NEW ds, NEW p0, NEW a, Sound(ds, p0, a), NEW i \in DOMAIN ds,
         Applies(ds[i]), Ready(ds[i], p0), ds[i].entity = "PROFILE"
  PROVE  Achieves(ds, p0, a, i, ApplyProfile(a, i, ds[i]))
<1> DEFINE d == ds[i]
           v == CoercedScalar(d.field, AppliedValue(d))
           q == [a.profile EXCEPT !.scalars = [@ EXCEPT ![d.field] = v]]
           b == [a EXCEPT !.profile = q]
<1>1. CASE d.field = "career_start_date" /\ v = BadDate
  <2>1. v = FieldDate("PROFILE", "start", AppliedValue(d))
    BY <1>1 DEF CoercedScalar
  <2>2. FieldDate("PROFILE", "career_start_date", AppliedValue(d)) = BadDate
    <3>1. \A x : Bounded("start", x).form = "dash"
      BY DEF Bounded, FirstDayOf, Dash
    <3>2. \A x : Bounded("start", x) # BadDate
      BY <3>1 DEF BadDate
    <3> QED BY <1>1, <2>1, <3>2 DEF FieldDate
  <2>3. HasDateIssue(d)
    BY <1>1, <2>2, NullIsNoField DEF HasDateIssue
  <2> QED BY <2>3 DEF Ready
<1>2. CASE ~(d.field = "career_start_date" /\ v = BadDate)
  <2>1. ApplyProfile(a, i, d) = Register(b, i, "PROFILE", Null, d.field)
    BY <1>2 DEF ApplyProfile
  <2>2. IsAcc(a) /\ IsProfile(a.profile) /\ Reviewed(ds, p0, a.profile)
    BY DEF Sound, IsAcc
  <2>3. /\ DOMAIN q = DOMAIN a.profile /\ q.rows = a.profile.rows /\ q.jobs = a.profile.jobs
        /\ q.rels = a.profile.rels /\ q.skills = a.profile.skills /\ q.exps = a.profile.exps
        /\ q.nextId = a.profile.nextId /\ q.scalars = [a.profile.scalars EXCEPT ![d.field] = v]
    BY <2>2 DEF IsProfile
  <2>4. /\ DOMAIN q.scalars = DOMAIN a.profile.scalars
        /\ \A f \in DOMAIN q.scalars : f # d.field => q.scalars[f] = a.profile.scalars[f]
    BY <2>3
  <2> HIDE DEF q, v
  <2>5. IsProfile(q)
    BY <2>2, <2>3 DEF IsProfile
  <2>6. Grows(a.profile, q)
    BY <2>3 DEF Grows
  <2>7. Grows(p0, q)
    BY <2>2, <2>6, GrowsTransitively DEF Reviewed
  <2>8. ScalarsReviewed(ds, p0, q)
    <3> SUFFICES ASSUME NEW f \in DOMAIN p0.scalars, q.scalars[f] # p0.scalars[f]
                 PROVE  \E k \in DOMAIN ds : /\ Applies(ds[k]) /\ ds[k].entity = "PROFILE"
                                             /\ ds[k].field = f /\ ds[k].old = p0.scalars[f]
      BY DEF ScalarsReviewed
    <3>1. CASE f = d.field
      BY <3>1 DEF Ready
    <3>2. CASE f # d.field
      BY <2>2, <2>4, <3>2 DEF Reviewed, ScalarsReviewed
    <3> QED BY <3>1, <3>2
  <2>9. Reviewed(ds, p0, q)
    BY <2>2, <2>3, <2>4, <2>7, <2>8 DEF Reviewed, RowsReviewed
  <2>10. Leads(ds, p0, a, b)
    BY <2>2, <2>3, <2>5, <2>6, <2>9, ProfileMoves, MovesKeepSound
  <2> HIDE DEF b
  <2>11. ~IsProjectRoot(d)
    BY DEF IsProjectRoot
  <2>12. "PROFILE" \in TargetTypes /\ PointsAt(b.profile, "PROFILE", Null)
    BY DEF TargetTypes, PointsAt
  <2>13. Leads(ds, p0, a, ApplyProfile(a, i, d))
    BY <2>1, <2>10, <2>11, <2>12, RegisterKeepsSound
  <2> QED BY <2>13, NothingToDo
<1> QED BY <1>1, <1>2

LEMMA ApplyJobSound ==
  ASSUME NEW ds, NEW p0, NEW a, Sound(ds, p0, a), NEW i \in DOMAIN ds,
         Applies(ds[i]), Ready(ds[i], p0), ds[i].entity = "JOB"
  PROVE  Achieves(ds, p0, a, i, ApplyJob(a, i, ds[i]))
<1> DEFINE d == ds[i]
           v == AppliedValue(d)
           job == <<v.code, v.type>>
           q == [a.profile EXCEPT !.jobs = @ \cup {job}]
           b == [a EXCEPT !.profile = q]
<1>1. IsAcc(a) /\ IsProfile(a.profile) /\ Reviewed(ds, p0, a.profile)
  BY DEF Sound, IsAcc
<1>2. CASE d.change = "SAME"
  <2>1. ApplyJob(a, i, d) = a
    BY <1>2 DEF ApplyJob
  <2>2. Done(d, p0, a.profile)
    BY <1>1, <1>2 DEF Ready, Known, Done, Reviewed, Grows, Entities
  <2> QED BY <2>1, <2>2, LeadsReflexively DEF Achieves
<1>3. CASE ApplyJob(a, i, d) \in {Fail(a, "code"), Fail(a, "primary")}
  BY <1>3, FailAchievesNothing
<1>4. CASE ApplyJob(a, i, d) = Register(b, i, "JOB", job, "code")
  <2>1. /\ DOMAIN q = DOMAIN a.profile /\ q.rows = a.profile.rows /\ q.jobs = a.profile.jobs \cup {job}
        /\ q.rels = a.profile.rels /\ q.skills = a.profile.skills /\ q.exps = a.profile.exps
        /\ q.nextId = a.profile.nextId /\ q.scalars = a.profile.scalars
    BY <1>1 DEF IsProfile
  <2> HIDE DEF q, job
  <2>2. IsProfile(q)
    BY <1>1, <2>1 DEF IsProfile
  <2>3. Grows(a.profile, q)
    BY <2>1 DEF Grows
  <2>4. Grows(p0, q)
    BY <1>1, <2>3, GrowsTransitively DEF Reviewed
  <2>5. Reviewed(ds, p0, q)
    BY <1>1, <2>1, <2>4 DEF Reviewed, RowsReviewed, ScalarsReviewed
  <2>6. Leads(ds, p0, a, b)
    BY <1>1, <2>1, <2>2, <2>3, <2>5, ProfileMoves, MovesKeepSound
  <2>7. b.profile = q
    BY <1>1 DEF IsAcc
  <2> HIDE DEF b
  <2>8. "JOB" \in TargetTypes /\ PointsAt(b.profile, "JOB", job) /\ ~IsProjectRoot(d)
    BY <2>1, <2>7 DEF TargetTypes, PointsAt, IsProjectRoot
  <2>9. Leads(ds, p0, a, ApplyJob(a, i, d)) /\ ApplyJob(a, i, d).profile = q
    BY <1>4, <2>6, <2>7, <2>8, RegisterKeepsSound
  <2>10. Done(d, p0, q)
    BY <2>1 DEF Done, AppliedValue, Entities, job
  <2> QED BY <2>9, <2>10 DEF Achieves
<1>5. \/ d.change = "SAME"
      \/ ApplyJob(a, i, d) \in {Fail(a, "code"), Fail(a, "primary")}
      \/ ApplyJob(a, i, d) = Register(b, i, "JOB", job, "code")
  BY DEF ApplyJob
<1> QED BY <1>2, <1>3, <1>4, <1>5

LEMMA ApplyTechSound ==
  ASSUME NEW ds, NEW p0, NEW a, Sound(ds, p0, a), NEW i \in DOMAIN ds,
         Applies(ds[i]), Ready(ds[i], p0), ds[i].entity = "TECH"
  PROVE  Achieves(ds, p0, a, i, ApplyTech(a, i, ds[i]))
<1> DEFINE d == ds[i]
           v == AppliedValue(d)
           old == a.profile.skills
           meta == SkillMeta(d, v.code \in DOMAIN old, old[v.code], v.meta)
           skills == Put(old, v.code, meta)
           q == [a.profile EXCEPT !.skills = skills]
           b == [a EXCEPT !.profile = q]
<1>1. IsAcc(a) /\ IsProfile(a.profile) /\ Reviewed(ds, p0, a.profile)
  BY DEF Sound, IsAcc
<1>2. CASE d.change = "SAME"
  <2>1. ApplyTech(a, i, d) = a
    BY <1>2 DEF ApplyTech
  <2>2. Done(d, p0, a.profile)
    BY <1>1, <1>2 DEF Ready, Known, Done, Reviewed, Grows, Entities
  <2> QED BY <2>1, <2>2, LeadsReflexively DEF Achieves
<1>3. CASE ApplyTech(a, i, d) = Fail(a, "code")
  BY <1>3, FailAchievesNothing
<1>4. CASE ApplyTech(a, i, d) = Register(b, i, "TECH", v.code, "code")
  <2> HIDE DEF meta
  <2>1. DOMAIN skills = DOMAIN old \cup {v.code} /\ \A x \in DOMAIN old : x # v.code => skills[x] = old[x]
    BY DEF Put
  <2> HIDE DEF skills
  <2>2. /\ DOMAIN q = DOMAIN a.profile /\ q.rows = a.profile.rows /\ q.jobs = a.profile.jobs
        /\ q.rels = a.profile.rels /\ q.skills = skills /\ q.exps = a.profile.exps
        /\ q.nextId = a.profile.nextId /\ q.scalars = a.profile.scalars
    BY <1>1 DEF IsProfile
  <2> HIDE DEF q
  <2>3. IsProfile(q)
    BY <1>1, <2>2 DEF IsProfile
  <2>4. Grows(a.profile, q)
    BY <2>1, <2>2 DEF Grows
  <2>5. Grows(p0, q)
    BY <1>1, <2>4, GrowsTransitively DEF Reviewed
  <2>6. CodesReviewed(ds, "TECH", p0.skills, q.skills)
    <3> SUFFICES ASSUME NEW c \in DOMAIN p0.skills
                 PROVE  q.skills[c] = p0.skills[c] \/ \E k \in DOMAIN ds : AppliesTo(ds[k], "TECH", c)
      BY DEF CodesReviewed
    <3>1. CASE c = v.code
      BY <3>1 DEF AppliesTo
    <3>2. CASE c # v.code
      <4>1. c \in DOMAIN old /\ (old[c] = p0.skills[c] \/ \E k \in DOMAIN ds : AppliesTo(ds[k], "TECH", c))
        BY <1>1 DEF Reviewed, CodesReviewed, Grows
      <4> QED BY <2>1, <2>2, <3>2, <4>1
    <3> QED BY <3>1, <3>2
  <2>7. Reviewed(ds, p0, q)
    BY <1>1, <2>2, <2>5, <2>6 DEF Reviewed, RowsReviewed, ScalarsReviewed
  <2>8. Leads(ds, p0, a, b)
    BY <1>1, <2>2, <2>3, <2>4, <2>7, ProfileMoves, MovesKeepSound
  <2>9. b.profile = q
    BY <1>1 DEF IsAcc
  <2> HIDE DEF b
  <2>10. "TECH" \in TargetTypes /\ PointsAt(b.profile, "TECH", v.code) /\ ~IsProjectRoot(d)
    BY <2>1, <2>2, <2>9 DEF TargetTypes, PointsAt, IsProjectRoot
  <2>11. Leads(ds, p0, a, ApplyTech(a, i, d)) /\ ApplyTech(a, i, d).profile = q
    BY <1>4, <2>8, <2>9, <2>10, RegisterKeepsSound
  <2>12. Done(d, p0, q)
    BY <2>1, <2>2 DEF Done, AppliedValue, Entities
  <2> QED BY <2>11, <2>12 DEF Achieves
<1>5. \/ d.change = "SAME" \/ ApplyTech(a, i, d) = Fail(a, "code")
      \/ ApplyTech(a, i, d) = Register(b, i, "TECH", v.code, "code")
  BY DEF ApplyTech
<1> QED BY <1>2, <1>3, <1>4, <1>5

LEMMA ApplyExpSound ==
  ASSUME NEW ds, NEW p0, NEW a, Sound(ds, p0, a), NEW i \in DOMAIN ds,
         Applies(ds[i]), Ready(ds[i], p0), ds[i].entity = "EXP"
  PROVE  Achieves(ds, p0, a, i, ApplyExp(a, i, ds[i]))
<1> DEFINE d == ds[i]
           v == AppliedValue(d)
           e == IF "evidence" \in DOMAIN v THEN v.evidence ELSE d.new.evidence
           old == a.profile.exps
           exps == Put(old, v.code, e)
           q == [a.profile EXCEPT !.exps = exps]
           b == [a EXCEPT !.profile = q]
<1>1. IsAcc(a) /\ IsProfile(a.profile) /\ Reviewed(ds, p0, a.profile)
  BY DEF Sound, IsAcc
<1>2. CASE d.change = "SAME"
  <2>1. ApplyExp(a, i, d) = a
    BY <1>2 DEF ApplyExp
  <2>2. Done(d, p0, a.profile)
    BY <1>1, <1>2 DEF Ready, Known, Done, Reviewed, Grows, Entities
  <2> QED BY <2>1, <2>2, LeadsReflexively DEF Achieves
<1>3. CASE ApplyExp(a, i, d) = Fail(a, "code")
  BY <1>3, FailAchievesNothing
<1>4. CASE ApplyExp(a, i, d) = Register(b, i, "EXP", v.code, "code")
  <2> HIDE DEF e
  <2>1. DOMAIN exps = DOMAIN old \cup {v.code} /\ \A x \in DOMAIN old : x # v.code => exps[x] = old[x]
    BY DEF Put
  <2> HIDE DEF exps
  <2>2. /\ DOMAIN q = DOMAIN a.profile /\ q.rows = a.profile.rows /\ q.jobs = a.profile.jobs
        /\ q.rels = a.profile.rels /\ q.skills = a.profile.skills /\ q.exps = exps
        /\ q.nextId = a.profile.nextId /\ q.scalars = a.profile.scalars
    BY <1>1 DEF IsProfile
  <2> HIDE DEF q
  <2>3. IsProfile(q)
    BY <1>1, <2>2 DEF IsProfile
  <2>4. Grows(a.profile, q)
    BY <2>1, <2>2 DEF Grows
  <2>5. Grows(p0, q)
    BY <1>1, <2>4, GrowsTransitively DEF Reviewed
  <2>6. CodesReviewed(ds, "EXP", p0.exps, q.exps)
    <3> SUFFICES ASSUME NEW c \in DOMAIN p0.exps
                 PROVE  q.exps[c] = p0.exps[c] \/ \E k \in DOMAIN ds : AppliesTo(ds[k], "EXP", c)
      BY DEF CodesReviewed
    <3>1. CASE c = v.code
      BY <3>1 DEF AppliesTo
    <3>2. CASE c # v.code
      <4>1. c \in DOMAIN old /\ (old[c] = p0.exps[c] \/ \E k \in DOMAIN ds : AppliesTo(ds[k], "EXP", c))
        BY <1>1 DEF Reviewed, CodesReviewed, Grows
      <4> QED BY <2>1, <2>2, <3>2, <4>1
    <3> QED BY <3>1, <3>2
  <2>7. Reviewed(ds, p0, q)
    BY <1>1, <2>2, <2>5, <2>6 DEF Reviewed, RowsReviewed, ScalarsReviewed
  <2>8. Leads(ds, p0, a, b)
    BY <1>1, <2>2, <2>3, <2>4, <2>7, ProfileMoves, MovesKeepSound
  <2>9. b.profile = q
    BY <1>1 DEF IsAcc
  <2> HIDE DEF b
  <2>10. "EXP" \in TargetTypes /\ PointsAt(b.profile, "EXP", v.code) /\ ~IsProjectRoot(d)
    BY <2>1, <2>2, <2>9 DEF TargetTypes, PointsAt, IsProjectRoot
  <2>11. Leads(ds, p0, a, ApplyExp(a, i, d)) /\ ApplyExp(a, i, d).profile = q
    BY <1>4, <2>8, <2>9, <2>10, RegisterKeepsSound
  <2>12. Done(d, p0, q)
    BY <2>1, <2>2 DEF Done, AppliedValue, Entities
  <2> QED BY <2>11, <2>12 DEF Achieves
<1>5. \/ d.change = "SAME" \/ ApplyExp(a, i, d) = Fail(a, "code")
      \/ ApplyExp(a, i, d) = Register(b, i, "EXP", v.code, "code")
  BY DEF ApplyExp
<1> QED BY <1>2, <1>3, <1>4, <1>5

\* The dates that a decision gives a row are among its sources.
LEMMA OfferedDate ==
  ASSUME NEW ds, NEW p0, NEW i \in DOMAIN ds, Applies(ds[i]), NEW v,
         v = AppliedValue(ds[i]) \/ (Corrects(ds[i]) /\ v = ds[i].decided),
         NEW f \in DateFields, ds[i].field = f \/ (ds[i].field = Null /\ f \in DOMAIN v)
  PROVE  Sourced(ds, p0, ds[i].entity, ds[i].target, f,
                 Coerced(ds[i].entity, f, IF ds[i].field = Null THEN v[f] ELSE v))
<1> DEFINE d == ds[i]
           a == DatesOf(d, v)
<1>1. d \in About(ds, d.entity, d.target)
  BY DEF About, Range
<1>2. a \in DateSources(ds, p0, d.entity, d.target)
  BY <1>1 DEF DateSources, Correction
<1>3. f \in DOMAIN a /\ a[f] = Coerced(d.entity, f, IF d.field = Null THEN v[f] ELSE v)
  BY DEF DatesOf
<1> HIDE DEF a, d
<1> QED BY <1>2, <1>3 DEF Sourced, d

\* A date that the preview could read is one that the application cannot read
\* only where it is the end of a project that goes on.
LEMMA PreviewedDate ==
  ASSUME NEW d, ~HasDateIssue(d), d.entity \in Entities, NEW f \in DateFields,
         d.field = f \/ (d.field = Null /\ f \in DOMAIN AppliedValue(d)),
         Coerced(d.entity, f, IF d.field = Null THEN AppliedValue(d)[f] ELSE AppliedValue(d)) = BadDate
  PROVE  f = "end" /\ d.entity = "PROJECT" /\ GoesOn(d)
<1> DEFINE v == AppliedValue(d)
           e == d.entity
           x == IF d.field = Null THEN v[f] ELSE v
           w == IF e = "PROJECT" THEN Null ELSE e
<1>1. f \in {"start", "end"} /\ f # Null
  BY NullIsNoField, Fields DEF DateFields
<1>2. FieldDate(e, f, x) # BadDate
  <2>1. CASE d.field = f
    BY <1>1, <2>1 DEF HasDateIssue, DateFields
  <2>2. CASE d.field = Null
    <3>1. d.field \notin DateFields \cup {"career_start_date"}
      BY <2>2, NullIsNoField, Fields DEF DateFields
    <3>2. DateOf(v, f) = v[f]
      BY <2>2, <1>1 DEF DateOf
    <3> QED BY <1>1, <2>2, <3>1, <3>2 DEF HasDateIssue
  <2> QED BY <2>1, <2>2
<1>3. FieldDate(w, f, x) = BadDate
  BY DEF Coerced, AppliedDate
<1>4. x # Null /\ e = "PROJECT" /\ f = "end" /\ IsOngoingProjectEnd(x)
  <2>1. Null # "PROJECT" /\ Null # "EMPLOYMENT"
    BY NullIsNoField
  <2>2. e = "PROJECT" /\ w = Null
    BY <1>2, <1>3
  <2> HIDE DEF x, e, w
  <2> QED BY <1>1, <1>2, <1>3, <2>1, <2>2 DEF FieldDate
<1>5. GoesOn(d)
  <2>1. CASE d.field = "end"
    BY <1>1, <1>4, <2>1 DEF GoesOn
  <2>2. CASE d.field = Null
    BY <1>1, <1>4, <2>2 DEF GoesOn, DateOf
  <2> QED BY <1>4, <2>1, <2>2
<1> QED BY <1>4, <1>5

LEMMA PointsAtRow ==
  ASSUME NEW p, NEW e \in Entities, NEW x \in DOMAIN p.rows[e]
  PROVE  e \in TargetTypes /\ PointsAt(p, e, x)
BY DEF TargetTypes, PointsAt, Entities

\* A null is filled, or a correction is taken over, where the diff may do so.
LEMMA NullFillReviewed ==
  ASSUME NEW ds, NEW p0, NEW i \in DOMAIN ds, Applies(ds[i]), NEW e, ds[i].entity = e, ds[i].field = Null,
         NEW row, DOMAIN row = Range(RowFields), RowReviewed(ds, p0, e, ds[i].target, row),
         NEW data, data = ds[i].new, ds[i].status # "MODIFIED"
  PROVE  /\ DOMAIN NullFill(e, row, data) = Range(RowFields)
         /\ RowReviewed(ds, p0, e, ds[i].target, NullFill(e, row, data))
<1> DEFINE d == ds[i]
           new == NullFill(e, row, data)
<1>1. /\ DOMAIN new = Range(RowFields)
      /\ \A f \in Range(RowFields) : /\ row[f] # Null => new[f] = row[f]
                                     /\ \/ new[f] = row[f]
                                        \/ f \in DOMAIN data /\ new[f] = Coerced(e, f, data[f])
  BY DEF NullFill, DateOf
<1> HIDE DEF new
<1>2. ASSUME d.target \in DOMAIN p0.rows[e] PROVE ValuesDecided(ds, p0, e, d.target, new)
  <2> SUFFICES ASSUME NEW f \in Range(RowFields), new[f] # p0.rows[e][d.target][f]
               PROVE  \E k \in DOMAIN ds : /\ Decides(ds[k], e, d.target, f, p0.rows[e][d.target][f])
                                           /\ Gives(ds[k], e, f, p0.rows[e][d.target][f], new[f])
    BY DEF ValuesDecided
  <2>1. CASE row[f] # p0.rows[e][d.target][f]
    <3>1. PICK k \in DOMAIN ds : /\ Decides(ds[k], e, d.target, f, p0.rows[e][d.target][f])
                                  /\ Gives(ds[k], e, f, p0.rows[e][d.target][f], row[f])
      BY <1>2, <2>1 DEF RowReviewed, ValuesDecided
    <3>2. Gives(ds[k], e, f, p0.rows[e][d.target][f], new[f])
      BY <1>1, <2>1, <3>1 DEF Gives
    <3> QED BY <3>1, <3>2
  <2>2. CASE row[f] = p0.rows[e][d.target][f]
    <3>1. p0.rows[e][d.target][f] = Null /\ new[f] = Coerced(e, f, data[f])
      BY <1>1, <2>2
    <3>2. Decides(d, e, d.target, f, p0.rows[e][d.target][f])
      BY <3>1 DEF Decides
    <3>3. Gives(d, e, f, p0.rows[e][d.target][f], new[f])
      BY <3>1 DEF Gives
    <3> QED BY <3>2, <3>3
  <2> QED BY <2>1, <2>2
<1>3. ASSUME d.target \in DOMAIN p0.rows[e], NEW f \in DateFields PROVE Sourced(ds, p0, e, d.target, f, new[f])
  <2>1. Sourced(ds, p0, e, d.target, f, row[f])
    BY <1>3 DEF RowReviewed
  <2>2. CASE f \in DOMAIN data /\ new[f] = Coerced(e, f, data[f])
    <3>1. data = AppliedValue(d)
      BY DEF AppliedValue
    <3> QED BY <2>2, <3>1, OfferedDate
  <2> QED BY <1>1, <2>1, <2>2, Fields DEF DateFields
<1> QED BY <1>1, <1>2, <1>3 DEF new, RowReviewed

LEMMA OverwriteReviewed ==
  ASSUME NEW ds, NEW p0, NEW i \in DOMAIN ds, Applies(ds[i]), NEW e, ds[i].entity = e, ds[i].field = Null,
         ds[i].decided # Null, ds[i].status # "ACCEPTED",
         NEW row, DOMAIN row = Range(RowFields), RowReviewed(ds, p0, e, ds[i].target, row)
  PROVE  /\ DOMAIN Overwrite(e, row, ds[i].decided) = Range(RowFields)
         /\ RowReviewed(ds, p0, e, ds[i].target, Overwrite(e, row, ds[i].decided))
<1> DEFINE d == ds[i]
           new == Overwrite(e, row, d.decided)
<1>1. /\ DOMAIN new = Range(RowFields)
      /\ \A f \in Range(RowFields) :
           new[f] = IF f \in DOMAIN d.decided THEN Coerced(e, f, d.decided[f]) ELSE row[f]
  BY DEF Overwrite
<1> HIDE DEF new
<1>2. ASSUME d.target \in DOMAIN p0.rows[e] PROVE ValuesDecided(ds, p0, e, d.target, new)
  <2> SUFFICES ASSUME NEW f \in Range(RowFields), new[f] # p0.rows[e][d.target][f]
               PROVE  \E k \in DOMAIN ds : /\ Decides(ds[k], e, d.target, f, p0.rows[e][d.target][f])
                                           /\ Gives(ds[k], e, f, p0.rows[e][d.target][f], new[f])
    BY DEF ValuesDecided
  <2>1. CASE f \notin DOMAIN d.decided
    BY <1>1, <1>2, <2>1 DEF RowReviewed, ValuesDecided
  <2>2. CASE f \in DOMAIN d.decided
    BY <2>2 DEF Decides, Gives
  <2> QED BY <2>1, <2>2
<1>3. ASSUME d.target \in DOMAIN p0.rows[e], NEW f \in DateFields PROVE Sourced(ds, p0, e, d.target, f, new[f])
  <2>1. Sourced(ds, p0, e, d.target, f, row[f])
    BY <1>3 DEF RowReviewed
  <2>2. CASE f \in DOMAIN d.decided
    <3>1. d.decided = AppliedValue(d) \/ Corrects(d)
      BY DEF Applies, AppliedValue, Corrects
    <3>2. new[f] = Coerced(e, f, d.decided[f])
      BY <1>1, <2>2, Fields DEF DateFields
    <3> QED BY <2>2, <3>1, <3>2, OfferedDate
  <2> QED BY <1>1, <2>1, <2>2, Fields DEF DateFields
<1> QED BY <1>1, <1>2, <1>3 DEF new, RowReviewed

\* The row that is there is as it was, or as it was decided.
LEMMA KnownRow ==
  ASSUME NEW ds, NEW p0, NEW a, Sound(ds, p0, a), NEW e \in Entities, NEW id \in DOMAIN p0.rows[e]
  PROVE  /\ IsAcc(a) /\ Reviewed(ds, p0, a.profile)
         /\ id \in DOMAIN a.profile.rows[e]
         /\ DOMAIN a.profile.rows[e][id] = Range(RowFields)
         /\ RowReviewed(ds, p0, e, id, a.profile.rows[e][id])
<1>1. IsAcc(a) /\ Reviewed(ds, p0, a.profile)
  BY DEF Sound
<1>2. id \in DOMAIN a.profile.rows[e]
  BY <1>1 DEF Reviewed, Grows
<1> QED BY <1>1, <1>2 DEF Reviewed, RowsReviewed, IsAcc, IsProfile

LEMMA ApplyFieldSound ==
  ASSUME NEW ds, NEW p0, NEW a, Sound(ds, p0, a), NEW i \in DOMAIN ds,
         Applies(ds[i]), Ready(ds[i], p0), ds[i].entity \in Entities, ds[i].field \in Range(RowFields)
  PROVE  Leads(ds, p0, a, ApplyField(a, i, ds[i], ds[i].target))
<1> DEFINE d == ds[i]
           e == d.entity
           id == d.target
           value == Coerced(e, d.field, AppliedValue(d))
           row == [a.profile.rows[e][id] EXCEPT ![d.field] = value]
           b == SetRow(a, e, id, row)
<1>1. id # Null /\ id \in DOMAIN p0.rows[e] /\ d.old = p0.rows[e][id][d.field]
  BY DEF Ready
<1>2. /\ IsAcc(a) /\ Reviewed(ds, p0, a.profile) /\ id \in DOMAIN a.profile.rows[e]
      /\ DOMAIN a.profile.rows[e][id] = Range(RowFields)
      /\ RowReviewed(ds, p0, e, id, a.profile.rows[e][id])
  BY <1>1, KnownRow
<1>3. ApplyField(a, i, d, id) = Register(b, i, e, id, d.field)
  BY DEF ApplyField
<1>4. /\ DOMAIN row = Range(RowFields)
      /\ \A f \in Range(RowFields) : row[f] = IF f = d.field THEN value ELSE a.profile.rows[e][id][f]
  BY <1>2
<1> HIDE DEF row
<1>5. RowReviewed(ds, p0, e, id, row)
  <2>1. ValuesDecided(ds, p0, e, id, row)
    <3> SUFFICES ASSUME NEW f \in Range(RowFields), row[f] # p0.rows[e][id][f]
                 PROVE  \E k \in DOMAIN ds : /\ Decides(ds[k], e, id, f, p0.rows[e][id][f])
                                             /\ Gives(ds[k], e, f, p0.rows[e][id][f], row[f])
      BY DEF ValuesDecided
    <3>1. CASE f = d.field
      BY <1>1, <3>1, NullIsNoField DEF Decides, Gives
    <3>2. CASE f # d.field
      BY <1>1, <1>2, <1>4, <3>2 DEF RowReviewed, ValuesDecided
    <3> QED BY <3>1, <3>2
  <2>2. ASSUME NEW f \in DateFields PROVE Sourced(ds, p0, e, id, f, row[f])
    <3>1. f \in Range(RowFields)
      BY Fields DEF DateFields
    <3>2. CASE f = d.field
      <4>1. d.field # Null
        BY NullIsNoField
      <4>2. row[f] = Coerced(e, f, AppliedValue(d))
        BY <1>4, <3>1, <3>2
      <4> QED BY <3>2, <4>1, <4>2, OfferedDate
    <3>3. CASE f # d.field
      BY <1>1, <1>2, <1>4, <3>1, <3>3 DEF RowReviewed
    <3> QED BY <3>2, <3>3
  <2> QED BY <2>1, <2>2 DEF RowReviewed
<1>6. ASSUME RowError(row) = "date" PROVE DateExcuse(ds, p0)
  <2>1. RowError(a.profile.rows[e][id]) = "none"
    BY <1>2 DEF IsAcc, RowsChecked
  <2>2. PICK f \in DateFields : row[f] = BadDate
    BY <1>6 DEF RowError, DateFields
  <2>3. f \in Range(RowFields) /\ a.profile.rows[e][id][f] # BadDate
    BY <2>1, Fields DEF RowError, DateFields
  <2>4. f = d.field /\ Coerced(e, f, AppliedValue(d)) = BadDate
    BY <1>4, <2>2, <2>3
  <2>5. d.field # Null /\ ~HasDateIssue(d)
    BY NullIsNoField DEF Ready
  <2>6. d.entity = "PROJECT" /\ GoesOn(d)
    BY <2>4, <2>5, PreviewedDate
  <2>7. d.status # "MERGED" /\ d \in Range(ds)
    BY <2>5 DEF Ready, IsProjectRoot, Range
  <2> QED BY <2>6, <2>7 DEF DateExcuse
<1>7. Moves(ds, p0, a, b)
  BY <1>1, <1>2, <1>4, <1>5, <1>6, SetRowMoves
<1> HIDE DEF b
<1>8. Leads(ds, p0, a, b)
  BY <1>7, MovesKeepSound
<1>9. id \in DOMAIN b.profile.rows[e]
  BY <1>2, <1>7 DEF Moves, Grows
<1>10. ~IsProjectRoot(d)
  BY NullIsNoField DEF IsProjectRoot
<1> QED BY <1>3, <1>8, <1>9, <1>10, PointsAtRow, RegisterKeepsSound

\* A row that the preview found in order has its dates refused only for the end
\* of a project that goes on.
LEMMA PreviewedRow ==
  ASSUME NEW d, ~HasDateIssue(d), d.field = Null, d.entity \in Entities, NEW row,
         row = NullFill(d.entity, Blank, AppliedValue(d)), RowError(row) \in {"date", "order"}
  PROVE  RowError(row) = "date" /\ d.entity = "PROJECT" /\ GoesOn(d)
<1> DEFINE v == AppliedValue(d)
           e == d.entity
           start == FieldDate(e, "start", DateOf(v, "start"))
           end == FieldDate(e, "end", DateOf(v, "end"))
           w == IF e = "PROJECT" THEN Null ELSE e
<1>1. BadDate \notin {start, end} /\ InOrder(start, end)
  <2>1. d.field \notin DateFields \cup {"career_start_date"}
    BY NullIsNoField, Fields DEF DateFields
  <2> QED BY <2>1 DEF HasDateIssue
<1>2. /\ row.start = IF DateOf(v, "start") # Null THEN FieldDate(w, "start", v.start) ELSE Null
      /\ row.end = IF DateOf(v, "end") # Null THEN FieldDate(w, "end", v.end) ELSE Null
  <2>1. \A f \in {"start", "end"} :
          row[f] = IF DateOf(v, f) # Null THEN FieldDate(w, f, v[f]) ELSE Null
    BY Fields DEF NullFill, Blank, Coerced, AppliedDate, DateFields
  <2> QED BY <2>1
<1>3. \A f \in {"start", "end"} : DateOf(v, f) # Null => DateOf(v, f) = v[f]
  BY DEF DateOf
<1>4. \A f : FieldDate(e, f, Null) = Null
  BY DEF FieldDate
<1>5. row.start = start
  <2>1. \A x : FieldDate(w, "start", x) = FieldDate(e, "start", x)
    BY DEF FieldDate
  <2> QED BY <1>2, <1>3, <1>4, <2>1
<1>6. CASE row.end = end
  <2>1. RowError(row) \in {"name", "none"}
    BY <1>1, <1>5, <1>6 DEF RowError
  <2> QED BY <2>1
<1>7. CASE row.end # end
  <2>1. DateOf(v, "end") # Null /\ DateOf(v, "end") = v.end /\ FieldDate(w, "end", v.end) # FieldDate(e, "end", v.end)
    BY <1>2, <1>3, <1>4, <1>7
  <2>2. e = "PROJECT" /\ w = Null
    BY <2>1
  <2>3. Null # "PROJECT" /\ Null # "EMPLOYMENT" /\ v.end # Null
    BY <2>1, NullIsNoField
  <2>4. IsOngoingProjectEnd(v.end)
    BY <2>1, <2>2, <2>3 DEF FieldDate
  <2>5. row.end = BadDate
    BY <1>2, <2>1, <2>2, <2>3, <2>4 DEF FieldDate, IsOngoingProjectEnd, Confirmable
  <2>6. Null # "end"
    BY NullIsNoField, Fields
  <2> QED BY <2>1, <2>2, <2>4, <2>5, <2>6 DEF RowError, GoesOn
<1> QED BY <1>6, <1>7

LEMMA BlankRow == \A e, data : DOMAIN NullFill(e, Blank, data) = Range(RowFields)
BY DEF NullFill, Blank

LEMMA ApplyCareerSound ==
  ASSUME NEW ds, NEW p0, NEW a, Sound(ds, p0, a), NEW i \in DOMAIN ds,
         Applies(ds[i]), Ready(ds[i], p0), ds[i].entity \in Entities \ {"PROJECT"}
  PROVE  Achieves(ds, p0, a, i, ApplyCareer(a, i, ds[i]))
<1> DEFINE d == ds[i]
           e == d.entity
           id == d.target
           v == AppliedValue(d)
<1>1. IsAcc(a) /\ Reviewed(ds, p0, a.profile) /\ ~IsProjectRoot(d) /\ e \in Entities
  BY DEF Sound, IsProjectRoot
<1>2. CASE d.field # Null
  <2>1. d.field \in Range(RowFields)
    BY <1>2 DEF Ready
  <2>2. ApplyCareer(a, i, d) = ApplyField(a, i, d, d.target)
    BY <1>2 DEF ApplyCareer
  <2> QED BY <1>2, <2>1, <2>2, ApplyFieldSound, NothingToDo DEF Entities
<1>3. CASE d.field = Null /\ id # Null
  <2> DEFINE old == a.profile.rows[e][id]
             row == IF d.status = "ACCEPTED" THEN NullFill(e, old, v) ELSE Overwrite(e, old, v)
             b == SetRow(a, e, id, row)
  <2>1. ApplyCareer(a, i, d) = Register(b, i, e, id, Null)
    BY <1>3 DEF ApplyCareer
  <2>2. id \in DOMAIN p0.rows[e]
    BY <1>3 DEF Ready
  <2>3. /\ id \in DOMAIN a.profile.rows[e]
        /\ DOMAIN old = Range(RowFields) /\ RowReviewed(ds, p0, e, id, old)
    BY <2>2, KnownRow
  <2>4. DOMAIN row = Range(RowFields) /\ RowReviewed(ds, p0, e, id, row)
    <3>1. CASE d.status = "ACCEPTED"
      <4>1. row = NullFill(e, old, v)
        BY <3>1
      <4>2. row = NullFill(e, old, d.new)
        BY <3>1, <4>1 DEF AppliedValue
      <4> HIDE DEF old, v, row
      <4>3. /\ DOMAIN NullFill(e, old, d.new) = Range(RowFields)
            /\ RowReviewed(ds, p0, e, id, NullFill(e, old, d.new))
        BY <1>3, <2>3, <3>1, NullFillReviewed
      <4> QED BY <4>2, <4>3
    <3>2. CASE d.status # "ACCEPTED"
      <4>1. d.status = "MODIFIED" /\ d.decided # Null
        BY <3>2 DEF Applies, Ready, IsProjectRoot
      <4>2. row = Overwrite(e, old, d.decided)
        BY <4>1 DEF AppliedValue
      <4> HIDE DEF old, v, row
      <4> QED BY <1>3, <2>3, <3>2, <4>1, <4>2, OverwriteReviewed
    <3> QED BY <3>1, <3>2
  <2>5. RowError(row) # "date"
    <3>1. RowError(old) = "none"
      BY <1>1, <2>3 DEF IsAcc, RowsChecked
    <3>2. ASSUME NEW f \in DateFields PROVE row[f] # BadDate
      <4>1. f \in Range(RowFields) /\ old[f] # BadDate
        BY <3>1, Fields DEF RowError, DateFields
      <4>2. row[f] = old[f] \/ (f \in DOMAIN v /\ row[f] = Coerced(e, f, v[f]))
        BY <2>3, <4>1 DEF NullFill, Overwrite, DateOf
      <4>3. ASSUME f \in DOMAIN v PROVE Coerced(e, f, v[f]) # BadDate
        <5>1. ~HasDateIssue(d) /\ e # "PROJECT"
          BY DEF Ready
        <5> QED BY <1>1, <1>3, <4>3, <5>1, PreviewedDate
      <4> QED BY <4>1, <4>2, <4>3
    <3> HIDE DEF row
    <3> QED BY <3>2 DEF RowError, DateFields
  <2> HIDE DEF row
  <2>6. Moves(ds, p0, a, b)
    BY <1>1, <2>2, <2>3, <2>4, <2>5, SetRowMoves
  <2> HIDE DEF b
  <2>7. Leads(ds, p0, a, b)
    BY <2>6, MovesKeepSound
  <2>8. id \in DOMAIN b.profile.rows[e]
    BY <1>1, <2>3, <2>6 DEF Moves, Grows
  <2>9. Leads(ds, p0, a, ApplyCareer(a, i, d))
    BY <1>1, <2>1, <2>7, <2>8, PointsAtRow, RegisterKeepsSound
  <2>10. Done(d, p0, ApplyCareer(a, i, d).profile)
    BY <1>3 DEF Done, Entities
  <2> QED BY <2>9, <2>10 DEF Achieves
<1>4. CASE d.field = Null /\ id = Null
  <2> DEFINE row == NullFill(e, Blank, v)
             b == CreateRow(a, e, row)
  <2>1. ApplyCareer(a, i, d) = Register(b, i, e, a.profile.nextId, Null)
    BY <1>4 DEF ApplyCareer
  <2>2. DOMAIN row = Range(RowFields)
    BY BlankRow
  <2>3. RowError(row) \notin {"date", "order"}
    BY <1>1, <1>4, PreviewedRow DEF Ready
  <2> HIDE DEF row
  <2>4. /\ Moves(ds, p0, a, b)
        /\ b.error = "none" => IsNewRow(p0, b.profile, e, a.profile.nextId, row)
    BY <1>1, <2>2, <2>3, CreateRowMoves
  <2> HIDE DEF b
  <2>5. Leads(ds, p0, a, b)
    BY <2>4, MovesKeepSound
  <2>6. b.error = "none" => PointsAt(b.profile, e, a.profile.nextId)
    <3>1. b.error = "none" => a.profile.nextId \in DOMAIN b.profile.rows[e]
      BY <2>4 DEF IsNewRow
    <3> HIDE DEF e
    <3> QED BY <1>1, <3>1, PointsAtRow
  <2>7. e \in TargetTypes
    BY <1>1 DEF TargetTypes
  <2>8. /\ Leads(ds, p0, a, ApplyCareer(a, i, d))
        /\ ApplyCareer(a, i, d).profile = b.profile /\ ApplyCareer(a, i, d).error = b.error
    BY <1>1, <2>1, <2>5, <2>6, <2>7, RegisterKeepsSound
  <2>9. ASSUME b.error = "none" PROVE Done(d, p0, b.profile)
    <3>1. CASE d.status = "ACCEPTED"
      <4>1. row = NullFill(e, Blank, d.new)
        BY <3>1 DEF AppliedValue, row
      <4>2. Created(p0, b.profile, e, d.new)
        BY <2>4, <2>9, <4>1 DEF Created, IsNewRow
      <4> QED BY <1>1, <4>2 DEF Done, Entities
    <3>2. CASE d.status # "ACCEPTED"
      BY <3>2 DEF Done
    <3> QED BY <3>1, <3>2
  <2> QED BY <2>8, <2>9 DEF Achieves
<1> QED BY <1>2, <1>3, <1>4

-----------------------------------------------------------------------------
(* The application of a project diff *)

\* A project has relations, if only none.
LEMMA ProjectHasLinks ==
  ASSUME NEW a, IsAcc(a), NEW id \in DOMAIN a.profile.rows["PROJECT"]
  PROVE  id \in DOMAIN a.profile.rels
BY DEF IsAcc, IsProfile

LEMMA MergeProjectSound ==
  ASSUME NEW ds, NEW p0, NEW a, Sound(ds, p0, a), NEW i \in DOMAIN ds,
         Applies(ds[i]), Ready(ds[i], p0), ds[i].status = "MERGED"
  PROVE  /\ Achieves(ds, p0, a, i, MergeProject(a, i, ds[i]))
         /\ MergeProject(a, i, ds[i]).error = "none"
              => ds[i].target \in DOMAIN MergeProject(a, i, ds[i]).profile.rows["PROJECT"]
<1> DEFINE d == ds[i]
           id == d.target
           old == a.profile.rows["PROJECT"][id]
           filled == NullFill("PROJECT", old, d.new)
           row == IF d.decided = Null THEN filled ELSE Overwrite("PROJECT", filled, d.decided)
           first == SetRow(a, "PROJECT", id, filled)
           merged == SetRow(first, "PROJECT", id, row)
           linked == InsertRelations(merged, id, d.new)
           last == IF d.decided = Null THEN linked ELSE InsertRelations(linked, id, d.decided)
<1>1. IsProjectRoot(d) /\ id # Null /\ d.entity = "PROJECT" /\ d.field = Null /\ "PROJECT" \in Entities
  BY DEF Ready, IsProjectRoot, Entities
<1>2. id \in DOMAIN p0.rows["PROJECT"]
  BY <1>1 DEF Ready
<1>3. /\ IsAcc(a) /\ Reviewed(ds, p0, a.profile) /\ id \in DOMAIN a.profile.rows["PROJECT"]
      /\ DOMAIN old = Range(RowFields) /\ RowReviewed(ds, p0, "PROJECT", id, old)
  BY <1>1, <1>2, KnownRow
<1>4. /\ \A f \in DateFields : f \in Range(RowFields) /\ old[f] # BadDate
      /\ AppliedValue(d) = d.new /\ d \in Range(ds) /\ ~HasDateIssue(d)
  <2>1. RowError(old) = "none"
    BY <1>1, <1>3 DEF IsAcc, RowsChecked
  <2> QED BY <2>1, Fields DEF RowError, DateFields, AppliedValue, Range, Ready
<1>5. MergeProject(a, i, d) = IF merged.error # "none" THEN merged ELSE Register(last, i, "PROJECT", id, Null)
  BY DEF MergeProject
<1> HIDE DEF old
<1>6. DOMAIN filled = Range(RowFields) /\ RowReviewed(ds, p0, "PROJECT", id, filled)
  BY <1>1, <1>3, NullFillReviewed
<1>20. ASSUME NEW f \in DateFields, filled[f] = BadDate PROVE DateExcuse(ds, p0)
  <2>1. old[f] = Null /\ f \in DOMAIN d.new /\ Coerced("PROJECT", f, d.new[f]) = BadDate
    BY <1>3, <1>4, <1>20 DEF NullFill, DateOf
  <2>2. f = "end" /\ GoesOn(d)
    BY <1>1, <1>4, <2>1, PreviewedDate
  <2>3. MayLack(ds, p0, "PROJECT", id, "end")
    BY <1>2, <1>3, <2>1, <2>2 DEF RowReviewed, Sourced, MayLack
  <2> QED BY <1>1, <1>4, <2>2, <2>3 DEF DateExcuse
<1>21. RowError(filled) = "date" => DateExcuse(ds, p0)
  <2> HIDE DEF filled
  <2> QED BY <1>20 DEF RowError, DateFields
<1> HIDE DEF filled
<1>7. DOMAIN row = Range(RowFields) /\ RowReviewed(ds, p0, "PROJECT", id, row)
  <2>1. CASE d.decided = Null
    BY <1>6, <2>1
  <2>2. CASE d.decided # Null
    BY <1>1, <1>6, <2>2, OverwriteReviewed
  <2> QED BY <2>1, <2>2
<1>22. ASSUME RowError(row) = "date" PROVE DateExcuse(ds, p0)
  <2>1. PICK f \in DateFields : row[f] = BadDate
    BY <1>22 DEF RowError, DateFields
  <2>2. CASE filled[f] = BadDate
    BY <1>20, <2>2
  <2>3. CASE filled[f] # BadDate
    <3>1. d.decided # Null /\ f \in DOMAIN d.decided /\ Coerced("PROJECT", f, d.decided[f]) = BadDate
      BY <1>4, <1>6, <2>1, <2>3 DEF Overwrite
    <3>2. Corrects(d) /\ f \in DOMAIN Correction(d) /\ Correction(d)[f] = BadDate
      BY <1>1, <3>1 DEF Corrects, Correction, DatesOf
    <3> QED BY <1>1, <1>4, <3>2 DEF DateExcuse
  <2> QED BY <2>2, <2>3
<1> HIDE DEF row
<1>8. Moves(ds, p0, a, first)
  BY <1>1, <1>2, <1>3, <1>6, <1>21, SetRowMoves
<1>9. id \in DOMAIN first.profile.rows["PROJECT"] /\ IsAcc(first) /\ Reviewed(ds, p0, first.profile)
  BY <1>1, <1>3, <1>8 DEF Moves, Grows
<1> HIDE DEF first
<1>10. Moves(ds, p0, first, merged)
  BY <1>1, <1>2, <1>7, <1>9, <1>22, SetRowMoves
<1>11. id \in DOMAIN merged.profile.rows["PROJECT"] /\ IsAcc(merged) /\ Reviewed(ds, p0, merged.profile)
  BY <1>1, <1>9, <1>10 DEF Moves, Grows
<1> HIDE DEF merged
<1>12. Moves(ds, p0, merged, linked)
  BY <1>11, ProjectHasLinks, InsertRelationsMoves
<1>13. id \in DOMAIN linked.profile.rows["PROJECT"] /\ IsAcc(linked) /\ Reviewed(ds, p0, linked.profile)
  BY <1>1, <1>11, <1>12 DEF Moves, Grows
<1> HIDE DEF linked
<1>14. Moves(ds, p0, linked, last)
  <2>1. Moves(ds, p0, linked, InsertRelations(linked, id, d.decided))
    BY <1>13, ProjectHasLinks, InsertRelationsMoves
  <2>2. Moves(ds, p0, linked, linked)
    BY <1>13, NothingMoves
  <2> QED BY <2>1, <2>2
<1>15. id \in DOMAIN last.profile.rows["PROJECT"]
  BY <1>1, <1>13, <1>14 DEF Moves, Grows
<1> HIDE DEF last
<1>16. Leads(ds, p0, a, merged) /\ Leads(ds, p0, a, last)
  <2>1. Moves(ds, p0, a, merged)
    BY <1>8, <1>10, MovesTransitively
  <2>2. Moves(ds, p0, a, last)
    BY <1>12, <1>14, <2>1, MovesTransitively
  <2> QED BY <2>1, <2>2, MovesKeepSound
<1>17. /\ Leads(ds, p0, a, Register(last, i, "PROJECT", id, Null))
       /\ Register(last, i, "PROJECT", id, Null).profile = last.profile
  BY <1>1, <1>15, <1>16, PointsAtRow, RegisterKeepsSound
<1>18. Leads(ds, p0, a, MergeProject(a, i, d))
  BY <1>5, <1>16, <1>17
<1>19. Achieves(ds, p0, a, i, MergeProject(a, i, d))
  BY <1>18, NothingToDo
<1> QED BY <1>5, <1>11, <1>15, <1>17, <1>19

LEMMA CreateProjectSound ==
  ASSUME NEW ds, NEW p0, NEW a, Sound(ds, p0, a), NEW i \in DOMAIN ds,
         Applies(ds[i]), Ready(ds[i], p0), IsProjectRoot(ds[i]), ds[i].status # "MERGED"
  PROVE  /\ Achieves(ds, p0, a, i, CreateProject(a, i, ds[i]))
         /\ CreateProject(a, i, ds[i]).error = "none"
              => a.profile.nextId \in DOMAIN CreateProject(a, i, ds[i]).profile.rows["PROJECT"]
<1> DEFINE d == ds[i]
           v == AppliedValue(d)
           id == a.profile.nextId
           row == NullFill("PROJECT", Blank, v)
           created == CreateRow(a, "PROJECT", row)
           linked == InsertRelations(created, id, v)
<1>1. d.entity = "PROJECT" /\ d.field = Null /\ "PROJECT" \in Entities /\ IsAcc(a) /\ Reviewed(ds, p0, a.profile)
  BY DEF IsProjectRoot, Entities, Sound
<1>2. CreateProject(a, i, d) = IF created.error # "none" THEN created ELSE Register(linked, i, "PROJECT", id, Null)
  BY DEF CreateProject
<1>3. DOMAIN row = Range(RowFields)
  BY BlankRow
<1>4. RowError(row) \in {"date", "order"} => Excused(ds, p0, RowError(row))
  <2> SUFFICES ASSUME RowError(row) \in {"date", "order"} PROVE Excused(ds, p0, RowError(row))
    OBVIOUS
  <2>1. RowError(row) = "date" /\ GoesOn(d)
    BY <1>1, PreviewedRow DEF Ready
  <2>2. d \in Range(ds)
    BY DEF Range
  <2> QED BY <1>1, <2>1, <2>2 DEF Excused, DateExcuse
<1>5. d.status = "ACCEPTED" => row = NullFill("PROJECT", Blank, d.new)
  BY DEF AppliedValue
<1> HIDE DEF row
<1>6. /\ Moves(ds, p0, a, created)
      /\ created.error = "none" => IsNewRow(p0, created.profile, "PROJECT", id, row)
  BY <1>1, <1>3, <1>4, CreateRowMoves
<1> HIDE DEF created
<1>7. Leads(ds, p0, a, created)
  BY <1>6, MovesKeepSound
<1>8. CASE created.error # "none"
  BY <1>2, <1>7, <1>8, NothingToDo
<1>9. CASE created.error = "none"
  <2>1. /\ IsAcc(created) /\ Reviewed(ds, p0, created.profile)
        /\ id \in DOMAIN created.profile.rows["PROJECT"] \ DOMAIN p0.rows["PROJECT"]
        /\ created.profile.rows["PROJECT"][id] = row
    BY <1>6, <1>9 DEF Moves, IsNewRow
  <2> HIDE DEF id, v
  <2>2. Moves(ds, p0, created, linked)
    BY <2>1, ProjectHasLinks, InsertRelationsMoves
  <2> HIDE DEF linked
  <2>3. id \in DOMAIN linked.profile.rows["PROJECT"] /\ linked.profile.rows["PROJECT"][id] = row
    BY <1>1, <2>1, <2>2 DEF Moves, Stays
  <2>4. Leads(ds, p0, a, linked)
    <3>1. Moves(ds, p0, a, linked)
      BY <1>6, <2>2, MovesTransitively
    <3> QED BY <3>1, MovesKeepSound
  <2>5. /\ Leads(ds, p0, a, Register(linked, i, "PROJECT", id, Null))
        /\ Register(linked, i, "PROJECT", id, Null).profile = linked.profile
    BY <1>1, <2>3, <2>4, PointsAtRow, RegisterKeepsSound
  <2>6. CreateProject(a, i, d) = Register(linked, i, "PROJECT", id, Null)
    BY <1>2, <1>9
  <2>7. d.status = "ACCEPTED" => Created(p0, linked.profile, "PROJECT", d.new)
    BY <1>5, <2>1, <2>3 DEF Created
  <2>8. Done(d, p0, linked.profile)
    BY <1>1, <2>7 DEF Done
  <2> QED BY <2>3, <2>5, <2>6, <2>8 DEF Achieves, id
<1> QED BY <1>8, <1>9

LEMMA ApplyProjectRootSound ==
  ASSUME NEW ds, NEW p0, NEW a, Sound(ds, p0, a), a.error = "none", NEW i \in DOMAIN ds,
         Applies(ds[i]), Ready(ds[i], p0), IsProjectRoot(ds[i])
  PROVE  Achieves(ds, p0, a, i, ApplyProjectRoot(a, i, ds[i]))
<1> DEFINE d == ds[i]
           done == IF d.status = "MERGED" THEN MergeProject(a, i, d) ELSE CreateProject(a, i, d)
           id == IF d.status = "MERGED" THEN d.target ELSE a.profile.nextId
           at == Put(done.projAt, d.idx, id)
<1>1. ApplyProjectRoot(a, i, d) = [done EXCEPT !.projAt = at]
  BY DEF ApplyProjectRoot
<1>2. Achieves(ds, p0, a, i, done) /\ (done.error = "none" => id \in DOMAIN done.profile.rows["PROJECT"])
  BY MergeProjectSound, CreateProjectSound
<1> HIDE DEF done, id
<1>3. done.error = "none" => \A k \in DOMAIN at : at[k] \in DOMAIN done.profile.rows["PROJECT"]
  BY <1>2 DEF Put, Sound, Leads, Achieves
<1> HIDE DEF at
<1>4. Leads(ds, p0, a, done)
  BY <1>2 DEF Achieves
<1> QED BY <1>1, <1>2, <1>3, <1>4, ProjectKnownKeepsSound DEF Achieves

LEMMA ApplyProjectChildSound ==
  ASSUME NEW ds, NEW p0, NEW a, Sound(ds, p0, a), a.error = "none", NEW i \in DOMAIN ds,
         Applies(ds[i]), Ready(ds[i], p0), ds[i].entity = "PROJECT", ~IsProjectRoot(ds[i])
  PROVE  Achieves(ds, p0, a, i, ApplyProjectChild(a, i, ds[i]))
<1> DEFINE d == ds[i]
           id == IF d.target # Null THEN d.target
                 ELSE IF d.idx \in DOMAIN a.projAt THEN a.projAt[d.idx] ELSE Null
           v == AppliedValue(d)
           at == SetDefault(a.projAt, d.idx, id)
           known == [a EXCEPT !.projAt = at]
           link == <<d.field, v.code>>
           b == InsertRelation(known, id, link)
<1>1. ApplyProjectChild(a, i, d) =
        IF id = Null THEN Fail(a, "target")
        ELSE IF d.field \in Range(RowFields) THEN ApplyField(known, i, d, id)
        ELSE IF v.code = Null THEN Fail(a, "code")
        ELSE Register(b, i, "RELATION", <<id, d.field, v.code>>, "code")
  BY DEF ApplyProjectChild
<1>2. IsAcc(a) /\ Reviewed(ds, p0, a.profile) /\ "PROJECT" \in Entities
  BY DEF Sound, Entities
<1>3. Leads(ds, p0, a, Fail(a, "target")) /\ Leads(ds, p0, a, Fail(a, "code"))
  BY <1>2, FailMoves, MovesKeepSound
<1>4. ASSUME id # Null
      PROVE  /\ d.field \in Range(RowFields) => Leads(ds, p0, a, ApplyField(known, i, d, id))
             /\ Leads(ds, p0, a, Register(b, i, "RELATION", <<id, d.field, v.code>>, "code"))
  <2>1. id \in DOMAIN a.profile.rows["PROJECT"]
    <3>1. CASE d.target # Null
      BY <1>2, <3>1 DEF Ready, Reviewed, Grows
    <3>2. CASE d.target = Null
      BY <1>4, <3>2 DEF Sound
    <3> QED BY <3>1, <3>2
  <2>2. d.field \in Range(RowFields) => id = d.target
    BY <1>2 DEF Ready
  <2> HIDE DEF id
  <2>3. \A k \in DOMAIN at : at[k] \in DOMAIN a.profile.rows["PROJECT"]
    BY <2>1 DEF SetDefault, Put, Sound
  <2> HIDE DEF at
  <2>4. Leads(ds, p0, a, known) /\ known.profile = a.profile
    <3>1. Leads(ds, p0, a, a)
      BY LeadsReflexively
    <3> QED BY <2>3, <3>1, ProjectKnownKeepsSound
  <2> HIDE DEF known
  <2>5. d.field \in Range(RowFields) => Leads(ds, p0, a, ApplyField(known, i, d, id))
    <3>1. Sound(ds, p0, known)
      BY <2>4 DEF Leads
    <3>2. d.field \in Range(RowFields) => Leads(ds, p0, known, ApplyField(known, i, d, id))
      BY <1>2, <2>2, <3>1, ApplyFieldSound
    <3> QED BY <2>4, <3>2, LeadsTransitively
  <2>6. IsAcc(known) /\ Reviewed(ds, p0, known.profile) /\ id \in DOMAIN known.profile.rels
    BY <2>1, <2>4, ProjectHasLinks DEF Leads, Sound
  <2> HIDE DEF link
  <2>7. Moves(ds, p0, known, b) /\ (b.error = "none" => link \in b.profile.rels[id])
    BY <2>6, InsertRelationMoves
  <2>8. Leads(ds, p0, a, b) /\ id \in DOMAIN b.profile.rels
    <3>1. Leads(ds, p0, known, b)
      BY <2>4, <2>7, MovesKeepSound DEF Leads
    <3> QED BY <2>4, <2>6, <2>7, <3>1, LeadsTransitively DEF Moves, Grows
  <2> HIDE DEF b, v
  <2>9. "RELATION" \in TargetTypes /\ (b.error = "none" => PointsAt(b.profile, "RELATION", <<id, d.field, v.code>>))
    BY <2>7, <2>8 DEF TargetTypes, PointsAt, link
  <2>10. Leads(ds, p0, a, Register(b, i, "RELATION", <<id, d.field, v.code>>, "code"))
    BY <2>8, <2>9, RegisterKeepsSound
  <2> QED BY <2>5, <2>10
<1>5. Leads(ds, p0, a, ApplyProjectChild(a, i, d))
  BY <1>1, <1>3, <1>4
<1>6. d.field # Null
  BY DEF IsProjectRoot
<1> QED BY <1>5, <1>6, NothingToDo

-----------------------------------------------------------------------------
(* The application of the decided diffs *)

LEMMA ApplyOneSound ==
  ASSUME NEW ds, NEW p0, NEW a, Sound(ds, p0, a), a.error = "none", NEW i \in DOMAIN ds,
         Applies(ds[i]), Ready(ds[i], p0)
  PROVE  Achieves(ds, p0, a, i, ApplyOne(a, i, ds[i]))
<1> DEFINE d == ds[i]
<1>1. CASE d.entity = "PROFILE"
  BY <1>1, ApplyProfileSound DEF ApplyOne, IsProjectRoot, Entities
<1>2. CASE d.entity = "JOB"
  BY <1>2, ApplyJobSound DEF ApplyOne, IsProjectRoot, Entities
<1>3. CASE d.entity = "TECH"
  BY <1>3, ApplyTechSound DEF ApplyOne, IsProjectRoot, Entities
<1>4. CASE d.entity = "EXP"
  BY <1>4, ApplyExpSound DEF ApplyOne, IsProjectRoot, Entities
<1>5. CASE d.entity \in Entities \ {"PROJECT"}
  BY <1>5, ApplyCareerSound DEF ApplyOne, IsProjectRoot, Entities
<1>6. CASE IsProjectRoot(d)
  <2>1. ApplyOne(a, i, d) = ApplyProjectRoot(a, i, d)
    BY <1>6 DEF ApplyOne, IsProjectRoot, Entities
  <2> QED BY <1>6, <2>1, ApplyProjectRootSound
<1>7. CASE d.entity = "PROJECT" /\ ~IsProjectRoot(d)
  <2>1. ApplyOne(a, i, d) = ApplyProjectChild(a, i, d)
    BY <1>7 DEF ApplyOne, Entities
  <2> QED BY <1>7, <2>1, ApplyProjectChildSound
<1>8. d.entity \in {"PROFILE", "JOB", "TECH", "EXP"} \cup Entities
  BY DEF Ready
<1> QED BY <1>1, <1>2, <1>3, <1>4, <1>5, <1>6, <1>7, <1>8

-----------------------------------------------------------------------------
(* Lists *)

\* A set of naturals that is not empty has a least element.
LEMMA Least ==
  ASSUME NEW S \in SUBSET Nat, S # {}
  PROVE  \E m \in S : \A n \in S : m <= n
<1>1. PICK m \in S : \A n \in S : ~ (<<n, m>> \in OpToRel(<, Nat))
  BY WFMin, NatLessThanWellFounded
<1>2. \A n \in S : ~ (n < m)
  BY <1>1 DEF OpToRel
<1> QED BY <1>2

\* f is a function on the first n numbers.
Numbered(f, n) == f = [i \in 1..n |-> f[i]]

LEMMA ListOf ==
  ASSUME NEW n \in Nat, NEW f, Numbered(f, n)
  PROVE  /\ IsList(f) /\ Len(f) = n /\ DOMAIN f = 1..n
         /\ \A S : (\A i \in 1..n : f[i] \in S) => f \in Seq(S)
<1>1. ASSUME NEW S, \A i \in 1..n : f[i] \in S
      PROVE  f \in Seq(S) /\ Len(f) = n
  <2>1. f \in [1..n -> S]
    BY <1>1 DEF Numbered
  <2> QED BY <2>1
<1>2. \A i \in 1..n : f[i] \in Range(f)
  BY DEF Range, Numbered
<1>3. Len(f) = n /\ DOMAIN f = 1..n
  BY <1>1, <1>2 DEF Numbered
<1>4. IsList(f)
  BY <1>3 DEF IsList, Numbered
<1> QED BY <1>1, <1>3, <1>4

LEMMA ListFacts ==
  ASSUME NEW s, IsList(s)
  PROVE  Len(s) \in Nat /\ DOMAIN s = 1..Len(s) /\ \A S : (\A i \in DOMAIN s : s[i] \in S) => s \in Seq(S)
<1>1. Len(s) \in Nat /\ Numbered(s, Len(s))
  BY DEF IsList, Numbered
<1>2. DOMAIN s = 1..Len(s)
  BY <1>1, ListOf
<1> QED BY <1>1, <1>2, ListOf

LEMMA ListOfSeq ==
  ASSUME NEW S, NEW s \in Seq(S)
  PROVE  IsList(s) /\ \A i \in DOMAIN s : s[i] \in S
BY DEF IsList

\* The lists of ss are appended one after the other.
LEMMA FlattenStepwise ==
  ASSUME NEW S, NEW ss \in Seq(Seq(S))
  PROVE  \E g : /\ g = [i \in 1..Len(ss) |-> IF i = 1 THEN ss[i] ELSE g[i - 1] \o ss[i]]
                /\ FlattenSeq(ss) = IF Len(ss) = 0 THEN ss ELSE g[Len(ss)]
<1> DEFINE n == Len(ss)
           Flattens(g, m) == g = [i \in 1..m |-> IF i = 1 THEN ss[i] ELSE g[i - 1] \o ss[i]]
           Missing == {m \in Nat : ~\E g : Flattens(g, m)}
           flatten == CHOOSE g : Flattens(g, n)
<1>1. n \in Nat /\ \A i \in 1..n : ss[i] \in Seq(S)
  OBVIOUS
<1>2. FlattenSeq(ss) = IF n = 0 THEN ss ELSE flatten[n]
  BY Zenon DEF FlattenSeq
<1>3. Missing = {}
  <2> SUFFICES ASSUME Missing # {} PROVE FALSE
    OBVIOUS
  <2>1. PICK m \in Missing : \A k \in Missing : m <= k
    BY Least
  <2>2. m # 0
    <3>1. Flattens([i \in 1..0 |-> 0], 0)
      OBVIOUS
    <3> QED BY <2>1, <3>1
  <2>3. m \in Nat /\ m - 1 \in Nat /\ m - 1 \notin Missing
    <3>1. m \in Nat
      BY <2>1
    <3>2. m - 1 \in Nat /\ ~(m <= m - 1)
      BY <2>2, <3>1
    <3> HIDE DEF Missing
    <3> QED BY <2>1, <3>1, <3>2
  <2>4. PICK g : Flattens(g, m - 1)
    BY <2>3
  <2> DEFINE h == [i \in 1..m |-> IF i = m THEN IF m = 1 THEN ss[m] ELSE g[m - 1] \o ss[m] ELSE g[i]]
  <2>5. \A i \in 1..m : h[i] = IF i = 1 THEN ss[i] ELSE h[i - 1] \o ss[i]
    <3> SUFFICES ASSUME NEW i \in 1..m PROVE h[i] = IF i = 1 THEN ss[i] ELSE h[i - 1] \o ss[i]
      OBVIOUS
    <3>1. i \in Nat /\ i - 1 < m /\ (i # 1 => i - 1 \in 1..m) /\ (i # 1 => i - 1 # m) /\ (i # m => i \in 1..(m - 1))
      BY <2>3
    <3>2. CASE i = m
      BY <3>1, <3>2
    <3>3. CASE i # m
      <4>1. h[i] = g[i] /\ g[i] = IF i = 1 THEN ss[i] ELSE g[i - 1] \o ss[i]
        BY <2>4, <3>1, <3>3
      <4>2. i # 1 => h[i - 1] = g[i - 1]
        BY <3>1
      <4> QED BY <4>1, <4>2
    <3> QED BY <3>2, <3>3
  <2>6. h = [i \in 1..m |-> h[i]]
    OBVIOUS
  <2> HIDE DEF h
  <2>7. Flattens(h, m)
    BY <2>5, <2>6
  <2> QED BY <2>1, <2>7
<1>4. Flattens(flatten, n)
  <2>1. \E g : Flattens(g, n)
    BY <1>1, <1>3
  <2> QED BY <2>1
<1> QED BY <1>2, <1>4

\* Nothing else is in the result, and nothing is missing.
LEMMA FlattenTyped ==
  ASSUME NEW S, NEW ss \in Seq(Seq(S))
  PROVE  /\ FlattenSeq(ss) \in Seq(S)
         /\ \A i \in DOMAIN ss : \A j \in DOMAIN ss[i] :
              \E k \in DOMAIN FlattenSeq(ss) : FlattenSeq(ss)[k] = ss[i][j]
<1> DEFINE n == Len(ss)
           Holds(t, m) == \A i \in 1..m : \A j \in DOMAIN ss[i] : \E k \in DOMAIN t : t[k] = ss[i][j]
           Good(t, m) == t \in Seq(S) /\ Holds(t, m)
<1>1. n \in Nat /\ DOMAIN ss = 1..n /\ \A i \in 1..n : ss[i] \in Seq(S)
  OBVIOUS
<1>2. PICK g : /\ g = [i \in 1..n |-> IF i = 1 THEN ss[i] ELSE g[i - 1] \o ss[i]]
               /\ FlattenSeq(ss) = IF n = 0 THEN ss ELSE g[n]
  BY FlattenStepwise
<1> HIDE DEF Good
<1> DEFINE Wrong == {m \in Nat : m \in 1..n /\ ~Good(g[m], m)}
<1>3. Wrong = {}
  <2> SUFFICES ASSUME Wrong # {} PROVE FALSE
    OBVIOUS
  <2>1. PICK m \in Wrong : \A k \in Wrong : m <= k
    BY Least
  <2>2. m \in 1..n /\ g[m] = IF m = 1 THEN ss[m] ELSE g[m - 1] \o ss[m]
    BY <1>2, <2>1
  <2>3. m # 1
    <3>1. ASSUME m = 1 PROVE Good(ss[1], 1)
      BY <1>1, <2>2, <3>1 DEF Good
    <3> QED BY <2>1, <2>2, <3>1
  <2>4. m - 1 \in 1..n /\ m - 1 \in Nat /\ m - 1 < m
    BY <1>1, <2>2, <2>3
  <2>5. Good(g[m - 1], m - 1)
    BY <2>1, <2>4
  <2> DEFINE s == g[m - 1]
             t == ss[m]
  <2>6. s \in Seq(S) /\ t \in Seq(S) /\ s \o t \in Seq(S)
    BY <1>1, <2>2, <2>5 DEF Good
  <2>7. Holds(s \o t, m)
    <3> SUFFICES ASSUME NEW i \in 1..m, NEW j \in DOMAIN ss[i]
                 PROVE  \E k \in DOMAIN (s \o t) : (s \o t)[k] = ss[i][j]
      OBVIOUS
    <3>1. CASE i = m
      <4>1. j \in DOMAIN t /\ ss[i][j] = t[j]
        BY <3>1
      <4> HIDE DEF s, t
      <4>2. Len(s) + j \in DOMAIN (s \o t) /\ (s \o t)[Len(s) + j] = t[j]
        BY <2>6, <4>1
      <4> QED BY <4>1, <4>2
    <3>2. CASE i # m
      <4>1. i \in 1..(m - 1)
        BY <2>4, <3>2
      <4>2. PICK k \in DOMAIN s : s[k] = ss[i][j]
        BY <2>5, <4>1 DEF Good
      <4> HIDE DEF s, t
      <4>3. k \in DOMAIN (s \o t) /\ (s \o t)[k] = s[k]
        BY <2>6, <4>2
      <4> QED BY <4>2, <4>3
    <3> QED BY <3>1, <3>2
  <2>8. Good(s \o t, m)
    BY <2>6, <2>7 DEF Good
  <2> QED BY <2>1, <2>2, <2>3, <2>8
<1>4. CASE n = 0
  <2>1. ss = <<>>
    BY <1>4
  <2> QED BY <1>2, <1>4, <2>1
<1>5. CASE n # 0
  <2>1. n \in 1..n
    BY <1>1, <1>5
  <2>2. Good(g[n], n)
    BY <1>1, <1>3, <2>1
  <2>3. FlattenSeq(ss) = g[n]
    BY <1>2, <1>5
  <2>4. g[n] \in Seq(S) /\ \A i \in DOMAIN ss : \A j \in DOMAIN ss[i] : \E k \in DOMAIN g[n] : g[n][k] = ss[i][j]
    BY <1>1, <2>2 DEF Good
  <2> HIDE DEF n
  <2> QED BY <2>3, <2>4
<1> QED BY <1>4, <1>5

\* Every diff has its turn.
LEMMA OrderTyped ==
  ASSUME NEW ds, IsList(ds)
  PROVE  /\ ApplicationOrder(ds) \in Seq(DOMAIN ds)
         /\ \A i \in DOMAIN ds : \E k \in DOMAIN ApplicationOrder(ds) : ApplicationOrder(ds)[k] = i
<1> DEFINE OfTurn(t) == FlattenSeq([i \in 1..Len(ds) |-> IF Turn(ds[i]) = t THEN <<i>> ELSE <<>>])
<1>1. Len(ds) \in Nat /\ DOMAIN ds = 1..Len(ds)
  BY ListFacts
<1>2. \A t : /\ OfTurn(t) \in Seq(DOMAIN ds)
             /\ \A i \in DOMAIN ds : Turn(ds[i]) = t => \E k \in DOMAIN OfTurn(t) : OfTurn(t)[k] = i
  <2> SUFFICES ASSUME NEW t
               PROVE  /\ OfTurn(t) \in Seq(DOMAIN ds)
                      /\ \A i \in DOMAIN ds : Turn(ds[i]) = t => \E k \in DOMAIN OfTurn(t) : OfTurn(t)[k] = i
    OBVIOUS
  <2> DEFINE ss == [i \in 1..Len(ds) |-> IF Turn(ds[i]) = t THEN <<i>> ELSE <<>>]
  <2>1. DOMAIN ss = 1..Len(ds) /\ Numbered(ss, Len(ds))
    BY DEF Numbered
  <2>2. \A i \in 1..Len(ds) : ss[i] \in Seq(DOMAIN ds) /\ (Turn(ds[i]) = t => 1 \in DOMAIN ss[i] /\ ss[i][1] = i)
    <3>1. \A i \in DOMAIN ds : <<i>> \in Seq(DOMAIN ds) /\ <<>> \in Seq(DOMAIN ds)
      OBVIOUS
    <3>2. \A i \in DOMAIN ds : DOMAIN <<i>> = 1..1 /\ <<i>>[1] = i
      OBVIOUS
    <3>3. \A i \in 1..Len(ds) : ss[i] = IF Turn(ds[i]) = t THEN <<i>> ELSE <<>>
      OBVIOUS
    <3> HIDE DEF ss
    <3> TAKE i \in 1..Len(ds)
    <3>4. CASE Turn(ds[i]) = t
      <4>1. ss[i] = <<i>> /\ i \in DOMAIN ds
        BY <1>1, <3>3, <3>4
      <4>2. DOMAIN <<i>> = 1..1 /\ <<i>>[1] = i /\ 1 \in 1..1 /\ <<i>> \in Seq(DOMAIN ds)
        BY <3>1, <4>1
      <4> QED BY <4>1, <4>2
    <3>5. CASE Turn(ds[i]) # t
      BY <1>1, <3>1, <3>3, <3>5
    <3> QED BY <3>4, <3>5
  <2> HIDE DEF ss
  <2>3. ss \in Seq(Seq(DOMAIN ds))
    BY <1>1, <2>1, <2>2, ListOf
  <2>4. /\ FlattenSeq(ss) \in Seq(DOMAIN ds)
        /\ \A i \in DOMAIN ss : \A j \in DOMAIN ss[i] :
             \E k \in DOMAIN FlattenSeq(ss) : FlattenSeq(ss)[k] = ss[i][j]
    BY <2>3, FlattenTyped
  <2>5. \A i \in DOMAIN ds : Turn(ds[i]) = t => \E k \in DOMAIN FlattenSeq(ss) : FlattenSeq(ss)[k] = i
    BY <1>1, <2>1, <2>2, <2>4
  <2> QED BY <2>4, <2>5 DEF ss
<1>3. ApplicationOrder(ds) = OfTurn(1) \o OfTurn(2) \o OfTurn(3)
  BY DEF ApplicationOrder
<1>4. \A i : Turn(ds[i]) \in {1, 2, 3}
  BY DEF Turn
<1> HIDE DEF OfTurn
<1> DEFINE r == OfTurn(1)
           s == OfTurn(2)
           t == OfTurn(3)
<1>5. r \in Seq(DOMAIN ds) /\ s \in Seq(DOMAIN ds) /\ t \in Seq(DOMAIN ds)
  BY <1>2
<1>6. \A i \in DOMAIN ds : \/ \E k \in DOMAIN r : r[k] = i
                           \/ \E k \in DOMAIN s : s[k] = i
                           \/ \E k \in DOMAIN t : t[k] = i
  <2>1. \A i \in DOMAIN ds : Turn(ds[i]) = 1 => \E k \in DOMAIN r : r[k] = i
    BY <1>2
  <2>2. \A i \in DOMAIN ds : Turn(ds[i]) = 2 => \E k \in DOMAIN s : s[k] = i
    BY <1>2
  <2>3. \A i \in DOMAIN ds : Turn(ds[i]) = 3 => \E k \in DOMAIN t : t[k] = i
    BY <1>2
  <2> HIDE DEF r, s, t
  <2> QED BY <1>4, <2>1, <2>2, <2>3
<1> HIDE DEF r, s, t
<1>7. \A k \in DOMAIN r : k \in DOMAIN (r \o s \o t) /\ (r \o s \o t)[k] = r[k]
  BY <1>5
<1>8. \A k \in DOMAIN s : Len(r) + k \in DOMAIN (r \o s \o t) /\ (r \o s \o t)[Len(r) + k] = s[k]
  BY <1>5
<1>9. \A k \in DOMAIN t : Len(r) + Len(s) + k \in DOMAIN (r \o s \o t) /\ (r \o s \o t)[Len(r) + Len(s) + k] = t[k]
  BY <1>5
<1>10. r \o s \o t \in Seq(DOMAIN ds)
  BY <1>5
<1>11. \A i \in DOMAIN ds : \E k \in DOMAIN (r \o s \o t) : (r \o s \o t)[k] = i
  BY <1>6, <1>7, <1>8, <1>9
<1> QED BY <1>3, <1>10, <1>11 DEF r, s, t

LEMMA ApplyNextSound ==
  ASSUME NEW ds, NEW p0, NEW a, Sound(ds, p0, a), NEW i \in DOMAIN ds,
         Applies(ds[i]) => Ready(ds[i], p0)
  PROVE  /\ Leads(ds, p0, a, ApplyNext(a, i, ds[i]))
         /\ ApplyNext(a, i, ds[i]).error = "none" => a.error = "none"
         /\ Applies(ds[i]) /\ ApplyNext(a, i, ds[i]).error = "none" => Done(ds[i], p0, ApplyNext(a, i, ds[i]).profile)
<1>1. CASE a.error # "none" \/ ~Applies(ds[i])
  <2>1. ApplyNext(a, i, ds[i]) = a
    BY <1>1 DEF ApplyNext
  <2> QED BY <1>1, <2>1, LeadsReflexively
<1>2. CASE a.error = "none" /\ Applies(ds[i])
  <2>1. ApplyNext(a, i, ds[i]) = ApplyOne(a, i, ds[i])
    BY <1>2 DEF ApplyNext
  <2> QED BY <1>2, <2>1, ApplyOneSound DEF Achieves
<1> QED BY <1>1, <1>2

\* The diffs are applied one after the other, from a profile nothing has changed.
LEMMA ApplyAllSound ==
  ASSUME NEW ds, IsList(ds), NEW p0, IsProfile(p0), RowsChecked(p0), NEW codes,
         \A i \in DOMAIN ds : Applies(ds[i]) => Ready(ds[i], p0)
  PROVE  /\ Sound(ds, p0, ApplyAll(ds, p0, codes))
         /\ ApplyAll(ds, p0, codes).error = "none" =>
              \A i \in DOMAIN ds : Applies(ds[i]) => Done(ds[i], p0, ApplyAll(ds, p0, codes).profile)
<1> DEFINE order == ApplicationOrder(ds)
           start == [profile |-> p0, active |-> codes, pending |-> {},
                     projAt |-> <<>>, applied |-> {}, error |-> "none"]
           Step(a, n) == ApplyNext(a, order[n], ds[order[n]])
           Applied(g, m) == g = [n \in 0..m |-> IF n = 0 THEN start ELSE Step(g[n - 1], n)]
           Missing == {m \in Nat : ~\E g : Applied(g, m)}
           after == CHOOSE g : Applied(g, Len(order))
<1>1. ApplyAll(ds, p0, codes) = after[Len(order)]
  BY Zenon DEF ApplyAll
<1>2. Len(order) \in Nat /\ \A n \in 1..Len(order) : order[n] \in DOMAIN ds
  BY OrderTyped
<1>3. Sound(ds, p0, start)
  <2>1. /\ DOMAIN start = {"profile", "active", "pending", "projAt", "applied", "error"}
        /\ start.profile = p0 /\ start.projAt = <<>> /\ start.applied = {} /\ start.error = "none"
    OBVIOUS
  <2> HIDE DEF start
  <2>2. Reviewed(ds, p0, p0)
    <3>1. ASSUME NEW e \in Entities, NEW id \in DOMAIN p0.rows[e], NEW f \in DateFields
          PROVE  Sourced(ds, p0, e, id, f, p0.rows[e][id][f])
      <4> DEFINE a == [x \in DateFields |-> p0.rows[e][id][x]]
      <4>1. a \in DateSources(ds, p0, e, id) /\ f \in DOMAIN a /\ a[f] = p0.rows[e][id][f]
        BY DEF DateSources
      <4> QED BY <4>1 DEF Sourced
    <3>2. RowsReviewed(ds, p0, p0)
      BY <3>1 DEF RowsReviewed, RowReviewed, ValuesDecided
    <3> QED BY <3>2, GrowsReflexively DEF Reviewed, ScalarsReviewed, CodesReviewed
  <2> QED BY <2>1, <2>2 DEF Sound, IsAcc
<1> HIDE DEF start, order
<1>4. Missing = {}
  <2> SUFFICES ASSUME Missing # {} PROVE FALSE
    OBVIOUS
  <2> HIDE DEF Step
  <2>1. PICK m \in Missing : \A k \in Missing : m <= k
    BY Least
  <2>2. m # 0
    <3>1. Applied([n \in 0..0 |-> start], 0)
      OBVIOUS
    <3> QED BY <2>1, <3>1
  <2>3. m \in Nat /\ m - 1 \in Nat /\ m - 1 \notin Missing
    <3>1. m \in Nat
      BY <2>1
    <3>2. m - 1 \in Nat /\ ~(m <= m - 1)
      BY <2>2, <3>1
    <3> HIDE DEF Missing
    <3> QED BY <2>1, <3>1, <3>2
  <2>4. PICK g : Applied(g, m - 1)
    BY <2>3
  <2> DEFINE h == [n \in 0..m |-> IF n = m THEN Step(g[m - 1], m) ELSE g[n]]
  <2>5. \A n \in 0..m : h[n] = IF n = 0 THEN start ELSE Step(h[n - 1], n)
    <3> SUFFICES ASSUME NEW n \in 0..m PROVE h[n] = IF n = 0 THEN start ELSE Step(h[n - 1], n)
      OBVIOUS
    <3>1. n \in Nat /\ (n # 0 => n - 1 \in 0..m) /\ (n # 0 => n - 1 # m) /\ (n # m => n \in 0..(m - 1))
      BY <2>3
    <3>2. n # 0 => h[n - 1] = g[n - 1]
      BY <3>1
    <3>3. CASE n = m
      BY <2>2, <3>2, <3>3
    <3>4. CASE n # m
      <4>1. h[n] = g[n] /\ g[n] = IF n = 0 THEN start ELSE Step(g[n - 1], n)
        BY <2>4, <3>1, <3>4
      <4> QED BY <3>2, <4>1
    <3> QED BY <3>3, <3>4
  <2>6. h = [n \in 0..m |-> h[n]]
    OBVIOUS
  <2> HIDE DEF h
  <2>7. Applied(h, m)
    BY <2>5, <2>6
  <2> QED BY <2>1, <2>7
<1>5. Applied(after, Len(order))
  <2>1. \E g : Applied(g, Len(order))
    BY <1>2, <1>4
  <2> QED BY <2>1
<1> HIDE DEF after
<1> DEFINE Lasts(m) == after[m].error = "none" =>
             \A n \in 1..m : Applies(ds[order[n]]) => Done(ds[order[n]], p0, after[m].profile)
           Wrong == {m \in Nat : m \in 0..Len(order) /\ ~(Sound(ds, p0, after[m]) /\ Lasts(m))}
<1>6. Wrong = {}
  <2> SUFFICES ASSUME Wrong # {} PROVE FALSE
    OBVIOUS
  <2>1. PICK m \in Wrong : \A k \in Wrong : m <= k
    BY Least
  <2>2. m \in 0..Len(order) /\ after[m] = IF m = 0 THEN start ELSE ApplyNext(after[m - 1], order[m], ds[order[m]])
    BY <1>5, <2>1
  <2>3. m # 0
    <3>1. m = 0 => Sound(ds, p0, after[m]) /\ Lasts(m)
      BY <1>3, <2>2
    <3> QED BY <2>1, <3>1
  <2>4. m - 1 \in 0..Len(order) /\ m - 1 \in Nat /\ m - 1 < m /\ m \in 1..Len(order)
    BY <1>2, <2>2, <2>3
  <2>5. Sound(ds, p0, after[m - 1]) /\ Lasts(m - 1)
    BY <2>1, <2>4
  <2>6. order[m] \in DOMAIN ds
    BY <1>2, <2>4
  <2> DEFINE a == after[m - 1]
             b == after[m]
             d == ds[order[m]]
  <2>7. /\ Leads(ds, p0, a, b)
        /\ b.error = "none" => a.error = "none"
        /\ Applies(d) /\ b.error = "none" => Done(d, p0, b.profile)
    <3>1. b = ApplyNext(a, order[m], d)
      BY <2>2, <2>3
    <3> HIDE DEF a, b
    <3> QED BY <2>5, <2>6, <3>1, ApplyNextSound DEF a
  <2>8. Lasts(m)
    <3> SUFFICES ASSUME b.error = "none", NEW n \in 1..m, Applies(ds[order[n]])
                 PROVE  Done(ds[order[n]], p0, b.profile)
      OBVIOUS
    <3>1. CASE n = m
      BY <2>7, <3>1
    <3>2. CASE n # m
      <4>1. n \in 1..(m - 1)
        BY <2>4, <3>2
      <4>2. Done(ds[order[n]], p0, a.profile)
        BY <2>5, <2>7, <4>1
      <4> HIDE DEF a, b
      <4> QED BY <2>7, <4>2, DoneStays DEF Leads
    <3> QED BY <3>1, <3>2
  <2>9. Sound(ds, p0, after[m])
    BY <2>7 DEF Leads
  <2> QED BY <2>1, <2>8, <2>9
<1>7. Sound(ds, p0, after[Len(order)]) /\ Lasts(Len(order))
  <2>1. Len(order) \in 0..Len(order) /\ Len(order) \in Nat
    BY <1>2
  <2> QED BY <1>6, <2>1
<1>8. \A i \in DOMAIN ds : \E n \in 1..Len(order) : order[n] = i
  BY <1>2, OrderTyped DEF order
<1> QED BY <1>1, <1>7, <1>8

-----------------------------------------------------------------------------
(* The diffs that build_diffs proposes *)

\* What a decision relies on: it may only be a correction with a value or a merge
\* into a known project, and a field diff names its row.
WellFormed(d) ==
  /\ DOMAIN d = {"entity", "idx", "item", "field", "target", "change", "old", "new", "refs",
                 "status", "decided"}
  /\ d.entity \in {"PROFILE", "JOB", "TECH", "EXP"} \cup Entities
  /\ d.status = "MODIFIED" => d.decided # Null
  /\ d.status = "MERGED" => IsProjectRoot(d) /\ d.target # Null
  /\ d.entity \in Entities =>
       /\ d.field \in Range(RowFields) => d.target # Null
       /\ d.field \notin Range(RowFields) \cup {Null} => d.entity = "PROJECT"

\* A diff shows what p has.
Fresh(d, p) ==
  /\ Known(d, p)
  /\ d.entity = "PROFILE" => d.old = p.scalars[d.field]
  /\ d.entity \in Entities /\ d.field \in Range(RowFields)
       => d.old = p.rows[d.entity][d.target][d.field]

\* The items of a candidate that diffs of an entity are about.
Items(from, entity) ==
  CASE entity = "JOB" -> from.jobs [] entity = "TECH" -> from.skills [] entity = "EXP" -> from.exps
    [] OTHER -> from.rows[entity]

\* A diff of a whole item has the value of the item that it names.
From(d, from) ==
  /\ d.entity = "PROFILE" => d.field # Null
  /\ d.field = Null => d.idx \in DOMAIN Items(from, d.entity) /\ d.new = Items(from, d.entity)[d.idx].val

Proposed(d, from, p) == WellFormed(d) /\ Fresh(d, p) /\ From(d, from)

AllProposed(s, from, p) == IsList(s) /\ \A i \in DOMAIN s : Proposed(s[i], from, p)

LEMMA NothingProposed == \A from, p : AllProposed(<<>>, from, p)
BY DEF AllProposed, IsList

LEMMA OneProposed ==
  ASSUME NEW from, NEW p, NEW d, Proposed(d, from, p)
  PROVE  AllProposed(<<d>>, from, p)
BY ListOf DEF AllProposed, IsList

LEMMA BothProposed ==
  ASSUME NEW from, NEW p, NEW s, NEW t, AllProposed(s, from, p), AllProposed(t, from, p)
  PROVE  AllProposed(s \o t, from, p)
<1> DEFINE S == Range(s) \cup Range(t)
<1>1. s \in Seq(S) /\ t \in Seq(S)
  BY ListFacts DEF AllProposed, Range
<1>2. \A d \in S : Proposed(d, from, p)
  BY DEF AllProposed, Range
<1> HIDE DEF S
<1>3. s \o t \in Seq(S)
  BY <1>1
<1>4. IsList(s \o t) /\ \A i \in DOMAIN (s \o t) : (s \o t)[i] \in S
  BY <1>3, ListOfSeq
<1> QED BY <1>2, <1>4 DEF AllProposed

\* What each element of a list gives, one after the other.
LEMMA FlattenElements ==
  ASSUME NEW n \in Nat, NEW ss, Numbered(ss, n), \A i \in 1..n : IsList(ss[i])
  PROVE  /\ IsList(FlattenSeq(ss))
         /\ \A k \in DOMAIN FlattenSeq(ss) : \E i \in 1..n : \E j \in DOMAIN ss[i] :
              FlattenSeq(ss)[k] = ss[i][j]
<1> DEFINE S == UNION {Range(ss[i]) : i \in 1..n}
<1>1. \A i \in 1..n : ss[i] \in Seq(S)
  BY ListFacts DEF Range
<1>2. \A x \in S : \E i \in 1..n : \E j \in DOMAIN ss[i] : x = ss[i][j]
  BY DEF Range
<1> HIDE DEF S
<1>3. ss \in Seq(Seq(S))
  BY <1>1, ListOf
<1>4. FlattenSeq(ss) \in Seq(S)
  BY <1>3, FlattenTyped
<1> QED BY <1>2, <1>4, ListOfSeq

LEMMA EachProposed ==
  ASSUME NEW from, NEW p, NEW n \in Nat, NEW ss, Numbered(ss, n), \A i \in 1..n : AllProposed(ss[i], from, p)
  PROVE  AllProposed(FlattenSeq(ss), from, p)
BY FlattenElements DEF AllProposed

\* What a filter leaves of a list.
LEMMA Filtered ==
  ASSUME NEW s, IsList(s), NEW ss, Numbered(ss, Len(s)),
         \A k \in 1..Len(s) : ss[k] = <<s[k]>> \/ ss[k] = <<>>
  PROVE  /\ IsList(FlattenSeq(ss))
         /\ \A k \in DOMAIN FlattenSeq(ss) : \E j \in DOMAIN s : FlattenSeq(ss)[k] = s[j]
<1>1. Len(s) \in Nat /\ DOMAIN s = 1..Len(s)
  BY ListFacts
<1>2. \A x : IsList(<<x>>) /\ DOMAIN <<x>> = 1..1 /\ <<x>>[1] = x
  BY DEF IsList
<1>3. IsList(<<>>) /\ DOMAIN <<>> = {}
  BY DEF IsList
<1>4. \A k \in 1..Len(s) : IsList(ss[k])
  BY <1>2, <1>3
<1>5. \A k \in 1..Len(s) : \A j \in DOMAIN ss[k] : ss[k][j] = s[k]
  <2> SUFFICES ASSUME NEW k \in 1..Len(s), NEW j \in DOMAIN ss[k] PROVE ss[k][j] = s[k]
    OBVIOUS
  <2>1. CASE ss[k] = <<s[k]>>
    BY <1>2, <2>1
  <2>2. CASE ss[k] = <<>>
    BY <1>3, <2>2
  <2> QED BY <2>1, <2>2
<1>6. /\ IsList(FlattenSeq(ss))
      /\ \A k \in DOMAIN FlattenSeq(ss) : \E i \in 1..Len(s) : \E j \in DOMAIN ss[i] :
           FlattenSeq(ss)[k] = ss[i][j]
  <2> DEFINE n == Len(s)
  <2>1. n \in Nat /\ Numbered(ss, n) /\ \A i \in 1..n : IsList(ss[i])
    BY <1>1, <1>4
  <2> HIDE DEF n
  <2>2. /\ IsList(FlattenSeq(ss))
        /\ \A k \in DOMAIN FlattenSeq(ss) : \E i \in 1..n : \E j \in DOMAIN ss[i] :
             FlattenSeq(ss)[k] = ss[i][j]
    BY <2>1, FlattenElements
  <2> QED BY <2>2 DEF n
<1> QED BY <1>1, <1>5, <1>6

\* A new diff is pending and not yet about a row.
LEMMA DiffFields ==
  ASSUME NEW entity, NEW idx, NEW change, NEW new, NEW refs
  PROVE  /\ DOMAIN Diff(entity, idx, change, new, refs)
              = {"entity", "idx", "item", "field", "target", "change", "old", "new", "refs",
                 "status", "decided"}
         /\ Diff(entity, idx, change, new, refs).entity = entity
         /\ Diff(entity, idx, change, new, refs).idx = idx
         /\ Diff(entity, idx, change, new, refs).new = new
         /\ Diff(entity, idx, change, new, refs).change = change
         /\ Diff(entity, idx, change, new, refs).field = Null
         /\ Diff(entity, idx, change, new, refs).target = Null
         /\ Diff(entity, idx, change, new, refs).status = "PENDING"
BY DEF Diff

\* A root diff, with whatever row it may be about.
LEMMA RootProposed ==
  ASSUME NEW from, NEW p, NEW d,
         DOMAIN d = {"entity", "idx", "item", "field", "target", "change", "old", "new", "refs",
                     "status", "decided"},
         d.entity \in {"JOB", "TECH", "EXP"} \cup Entities, d.field = Null, d.status = "PENDING",
         d.idx \in DOMAIN Items(from, d.entity), d.new = Items(from, d.entity)[d.idx].val, Known(d, p)
  PROVE  Proposed(d, from, p)
BY NullIsNoField DEF Proposed, WellFormed, Fresh, From, Entities

\* A diff of a field or of a relation.
LEMMA PartProposed ==
  ASSUME NEW from, NEW p, NEW d, WellFormed(d), d.field # Null,
         d.entity = "PROFILE" => d.old = p.scalars[d.field],
         d.entity \in Entities /\ d.field \in Range(RowFields) => d.old = p.rows[d.entity][d.target][d.field]
  PROVE  Proposed(d, from, p)
BY DEF Proposed, Fresh, Known, From

LEMMA FieldList == IsList(RowFields) /\ DOMAIN RowFields = 1..4
BY ListOf DEF RowFields, IsList

LEMMA ScalarDiffsProposed ==
  ASSUME NEW from, NEW p, NEW scalars, IsList(scalars), \A k \in DOMAIN scalars : IsScalar(scalars[k])
  PROVE  AllProposed(ScalarDiffs(scalars, p), from, p)
<1> DEFINE Derive(s) == IF s.field = "career_document_value" /\ MonthsOf[s.val] # Null
                        THEN <<[s EXCEPT !.field = "career_confirmed_months", !.val = MonthsOf[s.val]]>>
                        ELSE <<>>
           ss == [i \in 1..Len(scalars) |-> Derive(scalars[i])]
           derived == FlattenSeq(ss)
           all == scalars \o derived
           result == [i \in 1..Len(all) |-> ScalarDiff(all[i].field, p.scalars[all[i].field], all[i])]
<1>1. DerivedMonths(scalars) = derived
  BY Zenon DEF DerivedMonths
<1>2. Len(scalars) \in Nat
  BY ListFacts
<1>3. /\ Numbered(ss, Len(scalars)) /\ \A i \in 1..Len(scalars) : IsList(ss[i])
      /\ \A i \in 1..Len(scalars) : \A k \in DOMAIN ss[i] : ss[i][k].field # Null
  <2>1. \A s : IsList(Derive(s))
    <3>1. \A x : IsList(<<x>>)
      BY DEF IsList
    <3>2. IsList(<<>>)
      BY DEF IsList
    <3> QED BY <3>1, <3>2
  <2>2. ASSUME NEW s, IsScalar(s), NEW k \in DOMAIN Derive(s) PROVE Derive(s)[k].field # Null
    <3> DEFINE x == [s EXCEPT !.field = "career_confirmed_months", !.val = MonthsOf[s.val]]
    <3>1. CASE Derive(s) = <<x>>
      <4>1. DOMAIN <<x>> = 1..1 /\ <<x>>[1] = x
        OBVIOUS
      <4>2. Derive(s)[k] = x
        BY <2>2, <3>1, <4>1
      <4>3. x.field = "career_confirmed_months"
        BY <2>2 DEF IsScalar
      <4> QED BY <4>2, <4>3, NullAssumption
    <3>2. CASE Derive(s) = <<>>
      BY <2>2, <3>2
    <3> QED BY <3>1, <3>2
  <2>3. DOMAIN scalars = 1..Len(scalars)
    BY ListFacts
  <2> HIDE DEF Derive
  <2> QED BY <2>1, <2>2, <2>3 DEF Numbered
<1> HIDE DEF ss
<1>4. IsList(derived) /\ \A k \in DOMAIN derived : derived[k].field # Null
  BY <1>2, <1>3, FlattenElements
<1> HIDE DEF derived
<1>5. Len(all) \in Nat /\ \A i \in 1..Len(all) : all[i].field # Null
  <2> DEFINE S == Range(scalars) \cup Range(derived)
  <2>1. scalars \in Seq(S) /\ derived \in Seq(S)
    <3>1. \A s : \A i \in DOMAIN s : s[i] \in Range(s)
      BY DEF Range
    <3> QED BY <1>4, <3>1, ListFacts
  <2>2. \A x \in S : x.field # Null
    BY <1>4 DEF Range, IsScalar
  <2> HIDE DEF S
  <2>3. all \in Seq(S)
    BY <2>1
  <2> HIDE DEF all
  <2> QED BY <2>2, <2>3
<1> HIDE DEF all
<1>6. ScalarDiffs(scalars, p) = result
  BY <1>1, Zenon DEF ScalarDiffs, all
<1>7. Numbered(result, Len(all))
  BY DEF Numbered
<1>8. \A i \in 1..Len(all) : Proposed(result[i], from, p)
  <2>1. \A field, old, item :
          /\ DOMAIN ScalarDiff(field, old, item)
               = {"entity", "idx", "item", "field", "target", "change", "old", "new", "refs", "status", "decided"}
          /\ ScalarDiff(field, old, item).entity = "PROFILE" /\ ScalarDiff(field, old, item).field = field
          /\ ScalarDiff(field, old, item).old = old /\ ScalarDiff(field, old, item).status = "PENDING"
    BY DEF ScalarDiff, Diff
  <2>2. ASSUME NEW item, item.field # Null PROVE Proposed(ScalarDiff(item.field, p.scalars[item.field], item), from, p)
    <3> DEFINE d == ScalarDiff(item.field, p.scalars[item.field], item)
    <3>1. /\ DOMAIN d = {"entity", "idx", "item", "field", "target", "change", "old", "new", "refs",
                         "status", "decided"}
          /\ d.entity = "PROFILE" /\ d.field = item.field /\ d.old = p.scalars[item.field] /\ d.status = "PENDING"
      BY <2>1
    <3> HIDE DEF d
    <3>2. WellFormed(d) /\ d.entity \notin Entities
      BY <3>1 DEF WellFormed, Entities
    <3>3. Proposed(d, from, p)
      BY <2>2, <3>1, <3>2, PartProposed
    <3> QED BY <3>3 DEF d
  <2> QED BY <1>5, <2>2
<1> HIDE DEF result
<1> QED BY <1>5, <1>6, <1>7, <1>8, ListOf DEF AllProposed

LEMMA RootDiffFields ==
  ASSUME NEW entity, NEW i, NEW change, NEW cand, NEW target
  PROVE  /\ DOMAIN RootDiff(entity, i, change, cand, target)
              = {"entity", "idx", "item", "field", "target", "change", "old", "new", "refs", "status", "decided"}
         /\ RootDiff(entity, i, change, cand, target).entity = entity
         /\ RootDiff(entity, i, change, cand, target).idx = i
         /\ RootDiff(entity, i, change, cand, target).new = cand.val
         /\ RootDiff(entity, i, change, cand, target).change = change
         /\ RootDiff(entity, i, change, cand, target).field = Null
         /\ RootDiff(entity, i, change, cand, target).status = "PENDING"
         /\ RootDiff(entity, i, change, cand, target).target = target
BY DEF RootDiff, Diff

\* A career item that is linked to a row is like it.
LikeItsRow(entity, v, target, rows) ==
  entity # "PROJECT" /\ target # Null => Similar(entity, v, rows[target])

\* The diff of a row's item that nobody needs to create.
LEMMA RowProposed ==
  ASSUME NEW from, NEW p, NEW entity \in Entities, NEW i \in DOMAIN from.rows[entity],
         NEW change, change # "NEW", NEW target, NEW old,
         LikeItsRow(entity, from.rows[entity][i].val, target, p.rows[entity])
  PROVE  Proposed([RootDiff(entity, i, change, from.rows[entity][i], target) EXCEPT !.old = old], from, p)
<1> DEFINE cand == from.rows[entity][i]
           root == RootDiff(entity, i, change, cand, target)
           d == [root EXCEPT !.old = old]
<1>1. /\ DOMAIN d = DOMAIN root /\ d.entity = root.entity /\ d.field = root.field /\ d.status = root.status
      /\ d.idx = root.idx /\ d.new = root.new /\ d.change = root.change /\ d.target = root.target
  BY RootDiffFields
<1> HIDE DEF d
<1>2. Items(from, entity) = from.rows[entity]
  BY DEF Items, Entities
<1>3. Known(d, p)
  <2>1. d.entity = entity /\ d.new = cand.val /\ d.change # "NEW" /\ d.target = target
    BY <1>1, RootDiffFields
  <2> HIDE DEF cand
  <2>2. LikeItsRow(d.entity, d.new, d.target, p.rows[d.entity]) /\ entity \notin {"JOB", "TECH", "EXP"}
    BY <2>1 DEF cand, Entities
  <2> QED BY <2>1, <2>2 DEF Known, LikeItsRow
<1>4. Proposed(d, from, p)
  BY <1>1, <1>2, <1>3, RootDiffFields, RootProposed
<1> QED BY <1>4 DEF d

LEMMA ReviewDiffProposed ==
  ASSUME NEW from, NEW p, NEW entity \in Entities, NEW i \in DOMAIN from.rows[entity], NEW target,
         LikeItsRow(entity, from.rows[entity][i].val, target, p.rows[entity])
  PROVE  AllProposed(ReviewDiff(entity, from.rows[entity][i], i, p.rows[entity], target), from, p)
<1> DEFINE cand == from.rows[entity][i]
           old == IF target = Null THEN Null ELSE p.rows[entity][target]
           d == [RootDiff(entity, i, "REVIEW", cand, target) EXCEPT !.old = old]
<1>1. ReviewDiff(entity, cand, i, p.rows[entity], target) = <<d>>
  BY DEF ReviewDiff
<1>2. Proposed(d, from, p)
  <2> HIDE DEF old
  <2> QED BY RowProposed
<1> HIDE DEF d
<1> QED BY <1>1, <1>2, OneProposed

LEMMA LinkedDiffsProposed ==
  ASSUME NEW from, NEW p, NEW entity \in Entities, NEW i \in DOMAIN from.rows[entity], NEW id, id # Null,
         LikeItsRow(entity, from.rows[entity][i].val, id, p.rows[entity]),
         NEW fields, IsList(fields), \A k \in DOMAIN fields : fields[k] \in Range(RowFields)
  PROVE  AllProposed(LinkedDiffs(entity, from.rows[entity][i], i, id, p.rows[entity][id], fields), from, p)
<1> DEFINE cand == from.rows[entity][i]
           old == p.rows[entity][id]
           same == [RootDiff(entity, i, "SAME", cand, id) EXCEPT !.old = old]
           d(f) == [Diff(entity, i, FieldChange(old, f), cand.val[f], cand.refs)
                      EXCEPT !.field = f, !.target = id, !.old = old[f]]
           changed == [k \in 1..Len(fields) |-> d(fields[k])]
<1>1. LinkedDiffs(entity, cand, i, id, old, fields) = IF fields = <<>> THEN <<same>> ELSE changed
  BY DEF LinkedDiffs, FieldDiffs
<1>2. Proposed(same, from, p)
  BY RowProposed
<1>3. \A f \in Range(RowFields) : Proposed(d(f), from, p)
  <2> SUFFICES ASSUME NEW f \in Range(RowFields) PROVE Proposed(d(f), from, p)
    OBVIOUS
  <2>1. /\ DOMAIN d(f) = {"entity", "idx", "item", "field", "target", "change", "old", "new", "refs",
                          "status", "decided"}
        /\ d(f).entity = entity /\ d(f).field = f /\ d(f).target = id /\ d(f).old = old[f]
        /\ d(f).status = "PENDING"
    BY DEF Diff
  <2> HIDE DEF d
  <2>2. WellFormed(d(f)) /\ d(f).field # Null /\ d(f).entity # "PROFILE"
    BY <2>1, NullIsNoField DEF WellFormed, Entities
  <2> QED BY <2>1, <2>2, PartProposed
<1>4. Len(fields) \in Nat /\ DOMAIN fields = 1..Len(fields)
  BY ListFacts
<1>5. AllProposed(changed, from, p)
  <2>1. Numbered(changed, Len(fields)) /\ \A k \in 1..Len(fields) : Proposed(changed[k], from, p)
    <3> HIDE DEF d
    <3> QED BY <1>3, <1>4 DEF Numbered
  <2> HIDE DEF changed
  <2> QED BY <1>4, <2>1, ListOf DEF AllProposed
<1> HIDE DEF same, changed
<1>6. AllProposed(<<same>>, from, p)
  BY <1>2, OneProposed
<1> QED BY <1>1, <1>5, <1>6

LEMMA ChangedFieldsTyped ==
  ASSUME NEW old, NEW cand
  PROVE  /\ IsList(ChangedFields(old, cand))
         /\ \A k \in DOMAIN ChangedFields(old, cand) : ChangedFields(old, cand)[k] \in Range(RowFields)
<1> DEFINE ss == [k \in 1..Len(RowFields) |-> IF Changes(old, cand, RowFields[k]) THEN <<RowFields[k]>> ELSE <<>>]
<1>1. ChangedFields(old, cand) = FlattenSeq(ss)
  BY Zenon DEF ChangedFields, Filter
<1>2. Numbered(ss, Len(RowFields)) /\ \A k \in 1..Len(RowFields) : ss[k] = <<RowFields[k]>> \/ ss[k] = <<>>
  BY DEF Numbered
<1> HIDE DEF ss
<1> QED BY <1>1, <1>2, FieldList, Filtered DEF Range

LEMMA ProjectFieldsTyped ==
  ASSUME NEW old, NEW cand
  PROVE  /\ IsList(ProjectFields(old, cand))
         /\ \A k \in DOMAIN ProjectFields(old, cand) : ProjectFields(old, cand)[k] \in Range(RowFields)
<1> DEFINE Shown(f) == Changes(old, cand, f) /\ ~Restates(f, old[f], cand[f])
           ss == [k \in 1..Len(RowFields) |-> IF Shown(RowFields[k]) THEN <<RowFields[k]>> ELSE <<>>]
<1>1. ProjectFields(old, cand) = FlattenSeq(ss)
  BY Zenon DEF ProjectFields, Filter
<1>2. Numbered(ss, Len(RowFields)) /\ \A k \in 1..Len(RowFields) : ss[k] = <<RowFields[k]>> \/ ss[k] = <<>>
  BY DEF Numbered
<1> HIDE DEF ss
<1> QED BY <1>1, <1>2, FieldList, Filtered DEF Range

\* The only element of a set is one.
LEMMA TheOnlyElement == ASSUME NEW S, TheOnly(S) # Null PROVE TheOnly(S) \in S
<1>1. Cardinality(S) = 1
  BY DEF TheOnly
<1>2. S # {}
  BY <1>1, FS_EmptySet
<1> QED BY <1>1, <1>2 DEF TheOnly

LEMMA SelfCompatible == ASSUME NEW d, WholeDate(d) PROVE DatesCompatible(d, d)
<1>1. ASSUME d # Null, HasParts(d) PROVE PartsAgree(d, d)
  <2>1. Len(d.p) \in Nat
    BY <1>1 DEF WholeDate, IsList
  <2> QED BY <2>1 DEF PartsAgree, IsPrefix
<1> QED BY <1>1 DEF DatesCompatible

\* An item with the natural key of a row is like it.
LEMMA SameKeySimilar ==
  ASSUME NEW entity \in Entities \ {"PROJECT"}, NEW c, NEW r, WholeDate(c.start), WholeDate(c.end),
         NaturalKey(entity, r) = NaturalKey(entity, c)
  PROVE  Similar(entity, c, r)
<1>1. DatesCompatible(c.start, c.start) /\ DatesCompatible(c.end, c.end)
  BY SelfCompatible
<1>2. CASE entity = "EMPLOYMENT"
  <2>1. r.name = c.name /\ r.start = c.start /\ EmploymentEndKey(r.end) = EmploymentEndKey(c.end)
    BY <1>2 DEF NaturalKey
  <2>2. EmploymentEndsCompatible(c.end, r.end)
    BY <1>1, <2>1 DEF EmploymentEndKey, EmploymentEndsCompatible
  <2> QED BY <1>1, <1>2, <2>1, <2>2 DEF Similar
<1>3. CASE entity = "EDUCATION"
  <2>1. r.name = c.name /\ r.sub = c.sub /\ r.start = c.start /\ r.end = c.end
    BY <1>3 DEF NaturalKey
  <2> QED BY <1>1, <1>3, <2>1 DEF Similar, OptionalAgree
<1>4. CASE entity = "CERTIFICATION"
  <2>1. r.name = c.name /\ r.sub = c.sub /\ r.start = c.start
    BY <1>4 DEF NaturalKey
  <2> QED BY <1>1, <1>4, <2>1 DEF Similar, OptionalAgree
<1> QED BY <1>2, <1>3, <1>4 DEF Entities

LEMMA CareerDiffsProposed ==
  ASSUME NEW from, NEW p, NEW entity \in Entities \ {"PROJECT"}, NEW i \in DOMAIN from.rows[entity],
         WholeDate(from.rows[entity][i].val.start), WholeDate(from.rows[entity][i].val.end)
  PROVE  AllProposed(CareerDiffs(entity, from.rows[entity][i], i, p.rows[entity]), from, p)
<1> DEFINE cand == from.rows[entity][i]
           rows == p.rows[entity]
           c == cand.val
           exact == {id \in DOMAIN rows : NaturalKey(entity, rows[id]) = NaturalKey(entity, c)}
           similar == {id \in DOMAIN rows : Similar(entity, c, rows[id])}
           ambiguous == c.name = Null \/ Cardinality(exact) > 1
           fills == exact = {} /\ Cardinality(similar) = 1 /\ FillsOnly(entity, rows[TheOnly(similar)], c)
           linked == IF ambiguous THEN Null ELSE IF fills THEN TheOnly(similar) ELSE TheOnly(exact)
           unknown == ~ambiguous /\ similar = {} /\ ~(entity = "EMPLOYMENT" /\ DatesNeedReview(c))
           maybe == IF ambiguous THEN Null ELSE TheOnly(similar)
           new == RootDiff(entity, i, "NEW", cand, Null)
<1>1. CareerDiffs(entity, cand, i, rows) =
        IF linked # Null THEN LinkedDiffs(entity, cand, i, linked, rows[linked], ChangedFields(rows[linked], c))
        ELSE IF unknown THEN <<new>> ELSE ReviewDiff(entity, cand, i, rows, maybe)
  BY Zenon DEF CareerDiffs
<1>2. entity \in Entities
  OBVIOUS
<1>3. LikeItsRow(entity, c, linked, rows) /\ LikeItsRow(entity, c, maybe, rows)
  <2>1. \A id \in similar : Similar(entity, c, rows[id])
    OBVIOUS
  <2>2. \A id \in exact : Similar(entity, c, rows[id])
    BY SameKeySimilar
  <2>3. TheOnly(similar) # Null => TheOnly(similar) \in similar
    BY TheOnlyElement
  <2>4. TheOnly(exact) # Null => TheOnly(exact) \in exact
    BY TheOnlyElement
  <2> HIDE DEF exact, similar, ambiguous, fills
  <2>5. linked \in {Null, TheOnly(similar), TheOnly(exact)} /\ maybe \in {Null, TheOnly(similar)}
    OBVIOUS
  <2> HIDE DEF linked, maybe
  <2> QED BY <2>1, <2>2, <2>3, <2>4, <2>5 DEF LikeItsRow
<1>4. unknown => Proposed(new, from, p)
  <2> SUFFICES ASSUME unknown PROVE Proposed(new, from, p)
    OBVIOUS
  <2>1. \A id \in DOMAIN rows : ~Similar(entity, c, rows[id])
    OBVIOUS
  <2>2. Items(from, entity) = from.rows[entity]
    BY DEF Items, Entities
  <2>3. Known(new, p)
    <3> HIDE DEF unknown, new, c
    <3>1. new.entity = entity /\ new.field = Null /\ new.target = Null /\ new.new = c
      BY RootDiffFields DEF new, c
    <3> QED BY <2>1, <3>1 DEF Known, Entities
  <2> QED BY <1>2, <2>2, <2>3, RootDiffFields, RootProposed
<1> HIDE DEF linked, unknown, maybe, new
<1>5. CASE linked # Null
  BY <1>1, <1>2, <1>3, <1>5, ChangedFieldsTyped, LinkedDiffsProposed
<1>6. unknown => AllProposed(<<new>>, from, p)
  BY <1>4, OneProposed
<1>7. AllProposed(ReviewDiff(entity, cand, i, rows, maybe), from, p)
  BY <1>2, <1>3, ReviewDiffProposed
<1> QED BY <1>1, <1>5, <1>6, <1>7

LEMMA RelationDiffsProposed ==
  ASSUME NEW from, NEW p, NEW cand, IsList(cand.val.rels), NEW i, NEW id, NEW known, NEW unmappedOnly
  PROVE  AllProposed(RelationDiffs(cand, i, id, known, unmappedOnly), from, p)
<1> DEFINE rels == cand.val.rels
           Change(rel) == IF rel.val.code = Null THEN "REVIEW" ELSE "UPDATE"
           Shown(rel) == /\ rel.val.kind \in RelationKinds
                         /\ IF rel.val.code = Null THEN rel.val.raw # Null
                            ELSE ~unmappedOnly /\ <<rel.val.kind, rel.val.code>> \notin known
           d(rel, k) == [Diff("PROJECT", i, Change(rel), rel.val, rel.refs)
                           EXCEPT !.item = k, !.field = rel.val.kind, !.target = id]
           Propose(rel, k) == IF ~Shown(rel) THEN <<>> ELSE <<d(rel, k)>>
           ss == [k \in 1..Len(rels) |-> Propose(rels[k], k)]
<1>1. RelationDiffs(cand, i, id, known, unmappedOnly) = FlattenSeq(ss)
  BY Zenon DEF RelationDiffs, DiffsOfEach
<1>2. \A rel, k : rel.val.kind \in RelationKinds => Proposed(d(rel, k), from, p)
  <2> SUFFICES ASSUME NEW rel, NEW k, rel.val.kind \in RelationKinds PROVE Proposed(d(rel, k), from, p)
    OBVIOUS
  <2>1. /\ DOMAIN d(rel, k) = {"entity", "idx", "item", "field", "target", "change", "old", "new", "refs",
                               "status", "decided"}
        /\ d(rel, k).entity = "PROJECT" /\ d(rel, k).field = rel.val.kind /\ d(rel, k).status = "PENDING"
    BY DEF Diff
  <2> HIDE DEF d
  <2>2. rel.val.kind \notin Range(RowFields) /\ rel.val.kind # Null
    BY Fields, NullAssumption DEF RelationKinds
  <2>3. WellFormed(d(rel, k)) /\ d(rel, k).entity # "PROFILE"
    BY <2>1, <2>2 DEF WellFormed, Entities
  <2> QED BY <2>1, <2>2, <2>3, PartProposed
<1>3. \A rel, k : AllProposed(Propose(rel, k), from, p)
  <2> HIDE DEF d
  <2> QED BY <1>2, OneProposed, NothingProposed
<1> HIDE DEF Propose
<1>4. Numbered(ss, Len(rels)) /\ \A k \in 1..Len(rels) : AllProposed(ss[k], from, p)
  BY <1>3 DEF Numbered
<1> HIDE DEF ss
<1>5. Len(rels) \in Nat
  BY ListFacts
<1> QED BY <1>1, <1>4, <1>5, EachProposed

\* A project that nobody suspects has no namesake.
LEMMA SuspectsNamesakes ==
  ASSUME NEW c, NEW rows, Suspects(c, rows) = {}
  PROVE  \A id \in DOMAIN rows : ~SameNameMatch(c, rows[id])
<1> DEFINE Found(M(_, _)) == {id \in DOMAIN rows : M(c, rows[id])}
           namesakes == Found(SameNameMatch)
           tiers == <<namesakes, Found(NameDateMatch), Found(CustomerDateMatch), Found(CustomerOverlapMatch)>>
           hits == {k \in DOMAIN tiers : tiers[k] # {}}
           least == CHOOSE k \in hits : \A j \in hits : k <= j
<1>1. Suspects(c, rows) = IF hits = {} THEN {} ELSE tiers[least]
  BY Zenon DEF Suspects
<1>2. DOMAIN tiers = 1..4 /\ tiers[1] = namesakes
  OBVIOUS
<1> HIDE DEF tiers
<1>3. hits # {} => least \in hits
  <2>1. hits \in SUBSET Nat
    BY <1>2
  <2> HIDE DEF hits
  <2>2. hits # {} => \E k \in hits : \A j \in hits : k <= j
    BY <2>1, Least
  <2> QED BY <2>2
<1>4. hits = {}
  <2> HIDE DEF least
  <2> QED BY <1>1, <1>3
<1>5. namesakes = {}
  BY <1>2, <1>4
<1> QED BY <1>5

LEMMA ProjectDiffsProposed ==
  ASSUME NEW from, NEW p, NEW i \in DOMAIN from.rows["PROJECT"], IsList(from.rows["PROJECT"][i].val.rels)
  PROVE  AllProposed(ProjectDiffs(from.rows["PROJECT"][i], i, p.rows["PROJECT"], p.rels), from, p)
<1> DEFINE cand == from.rows["PROJECT"][i]
           rows == p.rows["PROJECT"]
           c == cand.val
           exact == {id \in DOMAIN rows : ProjectKey(rows[id]) = ProjectKey(c)}
           identity == {id \in DOMAIN rows : IdentityMatch(c, rows[id])}
           matches == IF exact = {} THEN identity ELSE exact
           linked == TheOnly(matches)
           unmapped == RelationDiffs(cand, i, Null, {}, TRUE)
           fields == ProjectFields(rows[linked], c)
           more == RelationDiffs(cand, i, linked, p.rels[linked], FALSE)
           maybe == IF matches = {} THEN TheOnly(Suspects(c, rows)) ELSE Null
           alone == matches = {} /\ Suspects(c, rows) = {}
           new == RootDiff("PROJECT", i, "NEW", cand, Null)
<1>1. "PROJECT" \in Entities /\ \A v, target : LikeItsRow("PROJECT", v, target, rows)
  BY DEF Entities, LikeItsRow
<1>2. ProjectDiffs(cand, i, rows, p.rels) =
        IF c.name = Null THEN ReviewDiff("PROJECT", cand, i, rows, Null) \o unmapped
        ELSE IF linked # Null
        THEN IF fields = <<>> /\ more # <<>> THEN more
             ELSE LinkedDiffs("PROJECT", cand, i, linked, rows[linked], fields) \o more
        ELSE IF alone THEN <<new>> \o unmapped
        ELSE ReviewDiff("PROJECT", cand, i, rows, maybe)
  BY Zenon DEF ProjectDiffs
<1>3. AllProposed(unmapped, from, p) /\ AllProposed(more, from, p)
  BY RelationDiffsProposed
<1>4. linked # Null => AllProposed(LinkedDiffs("PROJECT", cand, i, linked, rows[linked], fields), from, p)
  <2> HIDE DEF linked
  <2> QED BY <1>1, ProjectFieldsTyped, LinkedDiffsProposed
<1>5. /\ AllProposed(ReviewDiff("PROJECT", cand, i, rows, Null), from, p)
      /\ AllProposed(ReviewDiff("PROJECT", cand, i, rows, maybe), from, p)
  <2> HIDE DEF maybe
  <2> QED BY <1>1, ReviewDiffProposed
<1>6. alone => AllProposed(<<new>>, from, p)
  <2> SUFFICES ASSUME alone PROVE AllProposed(<<new>>, from, p)
    OBVIOUS
  <2>1. \A id \in DOMAIN rows : ~SameNameMatch(c, rows[id])
    BY SuspectsNamesakes
  <2>2. Items(from, "PROJECT") = from.rows["PROJECT"]
    BY DEF Items
  <2> HIDE DEF new, alone, c
  <2>3. Known(new, p)
    <3>1. new.entity = "PROJECT" /\ new.new = c
      BY RootDiffFields DEF new, c
    <3> QED BY <2>1, <3>1 DEF Known
  <2>4. Proposed(new, from, p)
    BY <1>1, <2>2, <2>3, RootDiffFields, RootProposed DEF new
  <2> QED BY <2>4, OneProposed
<1> HIDE DEF linked, unmapped, fields, more, maybe, alone, new
<1> QED BY <1>2, <1>3, <1>4, <1>5, <1>6, BothProposed

\* An element of a sequence of diffs may be anything that each item gives.
LEMMA BuildDiffsProposed ==
  ASSUME NEW p, NEW c, IsCandidate(c)
  PROVE  AllProposed(BuildDiffs(c, p), c, p)
<1> DEFINE jobs == FlattenSeq([i \in 1..Len(c.jobs) |-> <<JobDiff(c.jobs[i], i, p.jobs)>>])
           skills == FlattenSeq([i \in 1..Len(c.skills) |-> <<SkillDiff(c.skills[i], i, p.skills)>>])
           exps == FlattenSeq([i \in 1..Len(c.exps) |-> <<ExpertiseDiff(c.exps[i], i, p.exps)>>])
           career(e) == FlattenSeq([i \in 1..Len(c.rows[e]) |-> CareerDiffs(e, c.rows[e][i], i, p.rows[e])])
           projects == FlattenSeq([i \in 1..Len(c.rows["PROJECT"]) |->
                                     ProjectDiffs(c.rows["PROJECT"][i], i, p.rows["PROJECT"], p.rels)])
<1>1. BuildDiffs(c, p) = ScalarDiffs(c.scalars, p) \o jobs \o skills \o exps
                         \o career("EMPLOYMENT") \o career("EDUCATION") \o career("CERTIFICATION") \o projects
  BY Zenon DEF BuildDiffs, DiffsOfEach
<1>2. AllProposed(jobs, c, p)
  <2> DEFINE ss == [i \in 1..Len(c.jobs) |-> <<JobDiff(c.jobs[i], i, p.jobs)>>]
  <2>1. ASSUME NEW i \in DOMAIN c.jobs PROVE Proposed(JobDiff(c.jobs[i], i, p.jobs), c, p)
    <3> DEFINE x == c.jobs[i]
               d == JobDiff(x, i, p.jobs)
    <3>1. /\ DOMAIN d = {"entity", "idx", "item", "field", "target", "change", "old", "new", "refs",
                         "status", "decided"}
          /\ d.entity = "JOB" /\ d.field = Null /\ d.status = "PENDING" /\ d.idx = i /\ d.new = x.val
          /\ d.change = CodeChange(x.val.code, <<x.val.code, x.val.type>> \in p.jobs, TRUE, "SAME")
      BY DEF JobDiff, Diff
    <3>2. /\ d.change = "SAME" => <<x.val.code, x.val.type>> \in p.jobs
          /\ d.change = "NEW" => <<x.val.code, x.val.type>> \notin p.jobs
      BY <3>1 DEF CodeChange
    <3>3. Items(c, "JOB") = c.jobs
      BY DEF Items
    <3> HIDE DEF d, x
    <3>4. Known(d, p)
      BY <3>1, <3>2 DEF Known, Entities
    <3>5. Proposed(d, c, p)
      BY <3>1, <3>3, <3>4, RootProposed DEF x
    <3> QED BY <3>5 DEF d, x
  <2>2. Numbered(ss, Len(c.jobs)) /\ \A i \in 1..Len(c.jobs) : AllProposed(ss[i], c, p)
    <3>1. DOMAIN c.jobs = 1..Len(c.jobs)
      BY ListFacts DEF IsCandidate
    <3> QED BY <2>1, <3>1, OneProposed DEF Numbered
  <2> HIDE DEF ss
  <2>3. Len(c.jobs) \in Nat
    BY ListFacts DEF IsCandidate
  <2>4. AllProposed(FlattenSeq(ss), c, p)
    BY <2>2, <2>3, EachProposed
  <2> QED BY <2>4 DEF ss
<1>3. ASSUME NEW entity \in {"TECH", "EXP"}, NEW i \in DOMAIN Items(c, entity),
             NEW known, DOMAIN known = DOMAIN (IF entity = "TECH" THEN p.skills ELSE p.exps),
             NEW data, NEW unlike, unlike \notin {"SAME", "NEW"}
      PROVE  Proposed(CodedDiff(entity, Items(c, entity)[i], i, known, data, unlike), c, p)
  <2> DEFINE x == Items(c, entity)[i]
             d == CodedDiff(entity, x, i, known, data, unlike)
  <2>1. /\ DOMAIN d = {"entity", "idx", "item", "field", "target", "change", "old", "new", "refs",
                       "status", "decided"}
        /\ d.entity = entity /\ d.field = Null /\ d.status = "PENDING" /\ d.idx = i /\ d.new = x.val
        /\ \E same : d.change = CodeChange(x.val.code, x.val.code \in DOMAIN known, same, unlike)
    BY DEF CodedDiff, Diff
  <2>2. /\ d.change = "SAME" => x.val.code \in DOMAIN known
        /\ d.change = "NEW" => x.val.code \notin DOMAIN known
    BY <1>3, <2>1 DEF CodeChange
  <2> HIDE DEF d, x
  <2>3. Known(d, p)
    BY <1>3, <2>1, <2>2 DEF Known, Entities
  <2>4. Proposed(d, c, p)
    BY <2>1, <2>3, RootProposed DEF x
  <2> QED BY <2>4 DEF d, x
<1>4. AllProposed(skills, c, p)
  <2> DEFINE ss == [i \in 1..Len(c.skills) |-> <<SkillDiff(c.skills[i], i, p.skills)>>]
  <2>1. \A i \in DOMAIN c.skills : Proposed(SkillDiff(c.skills[i], i, p.skills), c, p)
    <3>1. Items(c, "TECH") = c.skills
      BY DEF Items
    <3> QED BY <1>3, <3>1 DEF SkillDiff
  <2>2. Len(c.skills) \in Nat /\ DOMAIN c.skills = 1..Len(c.skills)
    BY ListFacts DEF IsCandidate
  <2>3. Numbered(ss, Len(c.skills)) /\ \A i \in 1..Len(c.skills) : AllProposed(ss[i], c, p)
    BY <2>1, <2>2, OneProposed DEF Numbered
  <2> HIDE DEF ss
  <2>4. AllProposed(FlattenSeq(ss), c, p)
    BY <2>2, <2>3, EachProposed
  <2> QED BY <2>4 DEF ss
<1>5. AllProposed(exps, c, p)
  <2> DEFINE ss == [i \in 1..Len(c.exps) |-> <<ExpertiseDiff(c.exps[i], i, p.exps)>>]
  <2>1. \A i \in DOMAIN c.exps : Proposed(ExpertiseDiff(c.exps[i], i, p.exps), c, p)
    <3>1. Items(c, "EXP") = c.exps
      BY DEF Items
    <3> QED BY <1>3, <3>1 DEF ExpertiseDiff
  <2>2. Len(c.exps) \in Nat /\ DOMAIN c.exps = 1..Len(c.exps)
    BY ListFacts DEF IsCandidate
  <2>3. Numbered(ss, Len(c.exps)) /\ \A i \in 1..Len(c.exps) : AllProposed(ss[i], c, p)
    BY <2>1, <2>2, OneProposed DEF Numbered
  <2> HIDE DEF ss
  <2>4. AllProposed(FlattenSeq(ss), c, p)
    BY <2>2, <2>3, EachProposed
  <2> QED BY <2>4 DEF ss
<1>6. ASSUME NEW e \in Entities \ {"PROJECT"} PROVE AllProposed(career(e), c, p)
  <2> DEFINE ss == [i \in 1..Len(c.rows[e]) |-> CareerDiffs(e, c.rows[e][i], i, p.rows[e])]
  <2>1. Numbered(ss, Len(c.rows[e])) /\ \A i \in 1..Len(c.rows[e]) : AllProposed(ss[i], c, p)
    <3>1. DOMAIN c.rows[e] = 1..Len(c.rows[e])
      BY ListFacts DEF IsCandidate
    <3>2. \A i \in DOMAIN c.rows[e] : WholeDate(c.rows[e][i].val.start) /\ WholeDate(c.rows[e][i].val.end)
      BY DEF IsCandidate, IsItem
    <3> QED BY <3>1, <3>2, CareerDiffsProposed DEF Numbered
  <2> HIDE DEF ss
  <2>2. Len(c.rows[e]) \in Nat
    BY ListFacts DEF IsCandidate
  <2>3. AllProposed(FlattenSeq(ss), c, p)
    BY <2>1, <2>2, EachProposed
  <2> QED BY <2>3 DEF ss
<1>7. AllProposed(projects, c, p)
  <2> DEFINE items == c.rows["PROJECT"]
             ss == [i \in 1..Len(items) |-> ProjectDiffs(items[i], i, p.rows["PROJECT"], p.rels)]
  <2>1. IsList(items) /\ \A i \in DOMAIN items : IsList(items[i].val.rels)
    BY DEF IsCandidate, Entities
  <2>2. Len(items) \in Nat /\ DOMAIN items = 1..Len(items)
    BY <2>1, ListFacts
  <2>3. Numbered(ss, Len(items)) /\ \A i \in 1..Len(items) : AllProposed(ss[i], c, p)
    BY <2>1, <2>2, ProjectDiffsProposed DEF Numbered
  <2> HIDE DEF ss, items
  <2>4. AllProposed(FlattenSeq(ss), c, p)
    BY <2>2, <2>3, EachProposed
  <2> QED BY <2>4 DEF ss, items
<1>8. AllProposed(ScalarDiffs(c.scalars, p), c, p)
  BY ScalarDiffsProposed DEF IsCandidate
<1>9. AllProposed(career("EMPLOYMENT"), c, p) /\ AllProposed(career("EDUCATION"), c, p) /\ AllProposed(career("CERTIFICATION"), c, p)
  BY <1>6 DEF Entities
<1> DEFINE a == ScalarDiffs(c.scalars, p) \o jobs
           b == a \o skills \o exps
           d == b \o career("EMPLOYMENT") \o career("EDUCATION")
<1> HIDE DEF jobs, skills, exps, career, projects
<1>10. AllProposed(a, c, p)
  BY <1>2, <1>8, BothProposed
<1>11. AllProposed(b, c, p)
  BY <1>4, <1>5, <1>10, BothProposed
<1>12. AllProposed(d, c, p)
  BY <1>9, <1>11, BothProposed
<1>13. AllProposed(d \o career("CERTIFICATION") \o projects, c, p)
  BY <1>7, <1>9, <1>12, BothProposed
<1> QED BY <1>1, <1>13

-----------------------------------------------------------------------------
(* The guards leave a candidate a candidate *)

ItemList(s) == IsList(s) /\ \A k \in DOMAIN s : IsItem(s[k])

WholeDates(pages) == \A i \in DOMAIN pages : WholeDate(pages[i].start) /\ WholeDate(pages[i].end)

LEMMA WholeConflict == \A ends : WholeDate(Conflict(ends))
BY DEF WholeDate, Conflict, HasParts

LEMMA WholePreferred ==
  ASSUME NEW a, NEW b, WholeDate(a), WholeDate(b)
  PROVE  WholeDate(PreferDate(a, b))
<1>1. PreferDate(a, b) = a \/ PreferDate(a, b) = b
  BY DEF PreferDate
<1> QED BY <1>1

LEMMA WholeMergedEnd ==
  ASSUME NEW a, NEW b, WholeDate(a), WholeDate(b)
  PROVE  WholeDate(MergedEnd(a, b))
<1>1. MergedEnd(a, b) = PreferDate(a, b) \/ MergedEnd(a, b) = a \/ MergedEnd(a, b) = Conflict({a, b})
  BY DEF MergedEnd
<1> QED BY <1>1, WholePreferred, WholeConflict

\* An item with other evidence and another row, of whole dates.
LEMMA ItemOf ==
  ASSUME NEW x, DOMAIN x = {"val", "refs"}, {"name", "sub", "start", "end"} \subseteq DOMAIN x.val,
         WholeDate(x.val.start), WholeDate(x.val.end)
  PROVE  IsItem(x)
BY Fields DEF IsItem, IsFound

LEMMA ItemFields ==
  ASSUME NEW x, IsItem(x)
  PROVE  /\ DOMAIN x = {"val", "refs"}
         /\ {"name", "sub", "start", "end"} \subseteq DOMAIN x.val
         /\ WholeDate(x.val.start) /\ WholeDate(x.val.end)
BY Fields DEF IsItem, IsFound

LEMMA MergedIsItem ==
  ASSUME NEW entity \in {"EMPLOYMENT", "EDUCATION", "CERTIFICATION"}, NEW pages, NEW a, NEW b, IsItem(a), IsItem(b)
  PROVE  IsItem(Merged(entity, pages, a, b))
<1>1. /\ WholeDate(PreferDate(a.val.start, b.val.start)) /\ WholeDate(PreferDate(a.val.end, b.val.end))
      /\ WholeDate(MergedEnd(a.val.end, b.val.end))
  BY ItemFields, WholePreferred, WholeMergedEnd
<1>2. CASE entity = "EMPLOYMENT"
  <2> DEFINE m == MergeEmployment(pages, a, b)
  <2>1. /\ DOMAIN m = {"val", "refs"} /\ DOMAIN m.val = {"name", "sub", "start", "end"}
        /\ m.val.start = PreferDate(a.val.start, b.val.start) /\ m.val.end = MergedEnd(a.val.end, b.val.end)
    BY DEF MergeEmployment
  <2> HIDE DEF m
  <2>2. IsItem(m)
    BY <1>1, <2>1, ItemOf
  <2> QED BY <1>2, <2>2 DEF Merged, m
<1>3. CASE entity = "EDUCATION"
  <2> DEFINE v == [a.val EXCEPT !.sub = First(@, b.val.sub), !.start = PreferDate(@, b.val.start),
                                !.end = PreferDate(@, b.val.end)]
             m == MergeSchool(a, b)
  <2>1. m.val = v /\ DOMAIN m = {"val", "refs"}
    BY DEF MergeSchool
  <2>2. /\ DOMAIN v = DOMAIN a.val
        /\ v.start = PreferDate(a.val.start, b.val.start) /\ v.end = PreferDate(a.val.end, b.val.end)
    BY ItemFields
  <2> HIDE DEF m, v
  <2>3. IsItem(m)
    BY <1>1, <2>1, <2>2, ItemFields, ItemOf
  <2> QED BY <1>3, <2>3 DEF Merged, m
<1>4. CASE entity = "CERTIFICATION"
  <2> DEFINE m == MergeCertificate(a, b)
  <2>1. /\ DOMAIN m = {"val", "refs"} /\ DOMAIN m.val = {"name", "sub", "start", "end"}
        /\ m.val.start = PreferDate(a.val.start, b.val.start) /\ m.val.end = PreferDate(a.val.end, b.val.end)
    BY DEF MergeCertificate
  <2> HIDE DEF m
  <2>2. IsItem(m)
    BY <1>1, <2>1, ItemOf
  <2> QED BY <1>4, <2>2 DEF Merged, m
<1> QED BY <1>2, <1>3, <1>4

LEMMA PlaceKeepsItems ==
  ASSUME NEW entity \in {"EMPLOYMENT", "EDUCATION", "CERTIFICATION"}, NEW pages,
         NEW s, ItemList(s), NEW row, IsItem(row)
  PROVE  ItemList(Place(entity, pages, s, row))
<1> DEFINE at == Min({i \in DOMAIN s : Duplicates(entity, pages, s[i], row)})
           t == [s EXCEPT ![at] = Merged(entity, pages, @, row)]
           all == Append(s, row)
<1>1. Place(entity, pages, s, row) = all \/ Place(entity, pages, s, row) = t
  BY Zenon DEF Place, PlaceAt
<1>2. IsList(s) /\ Len(s) \in Nat /\ DOMAIN s = 1..Len(s) /\ \A k \in DOMAIN s : IsItem(s[k])
  BY ListFacts DEF ItemList
<1> HIDE DEF at
<1>3. ItemList(t)
  <2>1. Numbered(t, Len(s))
    BY <1>2 DEF Numbered
  <2>2. \A k \in DOMAIN s : t[k] = s[k] \/ t[k] = Merged(entity, pages, s[k], row)
    OBVIOUS
  <2>3. \A k \in DOMAIN s : IsItem(t[k])
    BY <1>2, <2>2, MergedIsItem
  <2>4. DOMAIN t = DOMAIN s
    OBVIOUS
  <2> HIDE DEF t
  <2> QED BY <1>2, <2>1, <2>3, <2>4, ListOf DEF ItemList
<1>4. ItemList(all)
  <2> DEFINE S == {x \in Range(s) \cup {row} : IsItem(x)}
  <2>1. \A i \in DOMAIN s : s[i] \in S
    BY <1>2 DEF Range
  <2>2. row \in S /\ \A x \in S : IsItem(x)
    OBVIOUS
  <2> HIDE DEF S
  <2>3. s \in Seq(S)
    BY <1>2, <2>1, ListFacts
  <2>4. all \in Seq(S)
    BY <2>2, <2>3
  <2> HIDE DEF all
  <2>5. IsList(all) /\ \A i \in DOMAIN all : all[i] \in S
    BY <2>4, ListOfSeq
  <2> QED BY <2>2, <2>5 DEF ItemList
<1> QED BY <1>1, <1>3, <1>4

LEMMA DedupeKeepsItems ==
  ASSUME NEW entity \in {"EMPLOYMENT", "EDUCATION", "CERTIFICATION"}, NEW pages, NEW rows, ItemList(rows)
  PROVE  ItemList(Dedupe(entity, pages, rows))
<1> DEFINE Step(kept, n) == Place(entity, pages, kept, rows[n])
           Built(g, m) == g = [n \in 0..m |-> IF n = 0 THEN <<>> ELSE Step(g[n - 1], n)]
           Missing == {m \in Nat : ~\E g : Built(g, m)}
           kept == CHOOSE g : Built(g, Len(rows))
<1>1. Dedupe(entity, pages, rows) = kept[Len(rows)]
  BY Zenon DEF Dedupe
<1>2. Len(rows) \in Nat /\ DOMAIN rows = 1..Len(rows) /\ \A k \in DOMAIN rows : IsItem(rows[k])
  BY ListFacts DEF ItemList
<1>3. ASSUME NEW s, ItemList(s), NEW n \in DOMAIN rows PROVE ItemList(Step(s, n))
  BY <1>2, <1>3, PlaceKeepsItems
<1> HIDE DEF Step
<1>4. Missing = {}
  <2> SUFFICES ASSUME Missing # {} PROVE FALSE
    OBVIOUS
  <2>1. PICK m \in Missing : \A k \in Missing : m <= k
    BY Least
  <2>2. m # 0
    <3>1. Built([n \in 0..0 |-> <<>>], 0)
      OBVIOUS
    <3> QED BY <2>1, <3>1
  <2>3. m \in Nat /\ m - 1 \in Nat /\ m - 1 \notin Missing
    <3>1. m \in Nat
      BY <2>1
    <3>2. m - 1 \in Nat /\ ~(m <= m - 1)
      BY <2>2, <3>1
    <3> HIDE DEF Missing
    <3> QED BY <2>1, <3>1, <3>2
  <2>4. PICK g : Built(g, m - 1)
    BY <2>3
  <2> DEFINE h == [n \in 0..m |-> IF n = m THEN Step(g[m - 1], m) ELSE g[n]]
  <2>5. \A n \in 0..m : h[n] = IF n = 0 THEN <<>> ELSE Step(h[n - 1], n)
    <3> SUFFICES ASSUME NEW n \in 0..m PROVE h[n] = IF n = 0 THEN <<>> ELSE Step(h[n - 1], n)
      OBVIOUS
    <3>1. n \in Nat /\ (n # 0 => n - 1 \in 0..m) /\ (n # 0 => n - 1 # m) /\ (n # m => n \in 0..(m - 1))
      BY <2>3
    <3>2. n # 0 => h[n - 1] = g[n - 1]
      BY <3>1
    <3>3. CASE n = m
      BY <2>2, <3>2, <3>3
    <3>4. CASE n # m
      <4>1. h[n] = g[n] /\ g[n] = IF n = 0 THEN <<>> ELSE Step(g[n - 1], n)
        BY <2>4, <3>1, <3>4
      <4> QED BY <3>2, <4>1
    <3> QED BY <3>3, <3>4
  <2>6. h = [n \in 0..m |-> h[n]]
    OBVIOUS
  <2> HIDE DEF h
  <2>7. Built(h, m)
    BY <2>5, <2>6
  <2> QED BY <2>1, <2>7
<1>5. Built(kept, Len(rows))
  <2>1. \E g : Built(g, Len(rows))
    BY <1>2, <1>4
  <2> QED BY <2>1
<1> HIDE DEF kept
<1> DEFINE Wrong == {m \in Nat : m \in 0..Len(rows) /\ ~ItemList(kept[m])}
<1>6. Wrong = {}
  <2> SUFFICES ASSUME Wrong # {} PROVE FALSE
    OBVIOUS
  <2>1. PICK m \in Wrong : \A k \in Wrong : m <= k
    BY Least
  <2>2. m \in 0..Len(rows) /\ kept[m] = IF m = 0 THEN <<>> ELSE Step(kept[m - 1], m)
    BY <1>5, <2>1
  <2>3. m # 0
    BY <2>1, <2>2 DEF ItemList, IsList
  <2>4. m - 1 \in 0..Len(rows) /\ m - 1 \in Nat /\ m - 1 < m /\ m \in DOMAIN rows
    BY <1>2, <2>2, <2>3
  <2>5. ItemList(kept[m - 1])
    BY <2>1, <2>4
  <2>6. ItemList(Step(kept[m - 1], m))
    BY <1>3, <2>4, <2>5
  <2> QED BY <2>1, <2>2, <2>3, <2>6
<1>7. Len(rows) \in 0..Len(rows)
  BY <1>2
<1> QED BY <1>1, <1>2, <1>6, <1>7

\* A list whose elements are each rewritten.
LEMMA ItemsRewritten ==
  ASSUME NEW s, ItemList(s), NEW t, Numbered(t, Len(s)), \A k \in DOMAIN s : IsItem(t[k])
  PROVE  ItemList(t)
<1>1. IsList(s) /\ Len(s) \in Nat /\ DOMAIN s = 1..Len(s)
  BY ListFacts DEF ItemList
<1>2. IsList(t) /\ DOMAIN t = 1..Len(s)
  BY <1>1, ListOf
<1> QED BY <1>1, <1>2 DEF ItemList

LEMMA ItemsFiltered ==
  ASSUME NEW s, ItemList(s), NEW ss, Numbered(ss, Len(s)),
         \A k \in 1..Len(s) : ss[k] = <<s[k]>> \/ ss[k] = <<>>
  PROVE  ItemList(FlattenSeq(ss))
BY Filtered DEF ItemList

LEMMA SettledIsItem ==
  ASSUME NEW pages, NEW row, IsItem(row)
  PROVE  IsItem(SettleEnd(pages, row))
<1> DEFINE chain == ExplainingChain(pages, row.val)
           dotted == Dot(pages[Last(chain)].end.p)
           reviewed == ReviewedEnd(row.val, LinkedEnds(pages, row.val))
           refs == row.refs \cup {pages[i].doc : i \in Range(chain)}
           a == [row EXCEPT !.val.end = dotted, !.refs = refs]
           b == [row EXCEPT !.val.end = reviewed]
<1>1. /\ DOMAIN row = {"val", "refs"} /\ {"name", "sub", "start", "end"} \subseteq DOMAIN row.val
      /\ WholeDate(row.val.start) /\ WholeDate(row.val.end)
  BY ItemFields
<1>2. WholeDate(dotted)
  BY DEF WholeDate, Dot, HasParts
<1>3. WholeDate(reviewed)
  <2>1. reviewed = row.val.end \/ \E ends : reviewed = Conflict(ends)
    BY DEF ReviewedEnd
  <2> QED BY <1>1, <2>1, WholeConflict
<1>4. SettleEnd(pages, row) = row \/ SettleEnd(pages, row) = a \/ SettleEnd(pages, row) = b
  BY DEF SettleEnd, EndFrom
<1> HIDE DEF dotted, reviewed, refs, chain
<1>5. IsItem(a)
  <2>1. /\ DOMAIN a = DOMAIN row /\ DOMAIN a.val = DOMAIN row.val
        /\ a.val.start = row.val.start /\ a.val.end = dotted
    BY <1>1
  <2> HIDE DEF a
  <2> QED BY <1>1, <1>2, <2>1, ItemOf
<1>6. IsItem(b)
  <2>1. /\ DOMAIN b = DOMAIN row /\ DOMAIN b.val = DOMAIN row.val
        /\ b.val.start = row.val.start /\ b.val.end = reviewed
    BY <1>1
  <2> HIDE DEF b
  <2> QED BY <1>1, <1>3, <2>1, ItemOf
<1> QED BY <1>4, <1>5, <1>6

LEMMA EnrichedIsItem ==
  ASSUME NEW pages, IsList(pages), WholeDates(pages), NEW row, IsItem(row)
  PROVE  IsItem(Enrich(pages, row))
<1> DEFINE Filled(i, f) ==
             IF pages[i][f] = Null THEN row.val[f]
             ELSE IF row.val[f] = Null THEN pages[i][f]
             ELSE IF f \in DateFields /\ DatesCompatible(row.val[f], pages[i][f])
             THEN PreferDate(row.val[f], pages[i][f]) ELSE row.val[f]
           With(i) == [row.val EXCEPT !.sub = Filled(i, "sub"), !.start = Filled(i, "start"),
                                      !.end = Filled(i, "end")]
           Adds(i) == /\ pages[i].section = "education" /\ pages[i].name = row.val.name
                      /\ \E f \in {"sub", "start", "end"} :
                           /\ pages[i][f] # Null
                           /\ \/ row.val[f] = Null
                              \/ f \in DateFields /\ DatesCompatible(row.val[f], pages[i][f])
           at == {i \in DOMAIN pages : Adds(i)}
           least == CHOOSE i \in at : \A j \in at : i <= j
           x == [row EXCEPT !.val = With(least)]
<1>1. Enrich(pages, row) = IF row.val.name = Null \/ at = {} THEN row ELSE x
  BY Zenon DEF Enrich
<1>2. /\ DOMAIN row = {"val", "refs"} /\ {"name", "sub", "start", "end"} \subseteq DOMAIN row.val
      /\ WholeDate(row.val.start) /\ WholeDate(row.val.end)
  BY ItemFields
<1>3. ASSUME NEW i \in DOMAIN pages, NEW f \in {"start", "end"} PROVE WholeDate(Filled(i, f))
  <2>1. WholeDate(row.val[f]) /\ WholeDate(pages[i][f])
    <3>1. f = "start" \/ f = "end"
      BY <1>3
    <3> QED BY <1>2, <3>1 DEF WholeDates
  <2>2. \/ Filled(i, f) = row.val[f] \/ Filled(i, f) = pages[i][f]
        \/ Filled(i, f) = PreferDate(row.val[f], pages[i][f])
    OBVIOUS
  <2> QED BY <2>1, <2>2, WholePreferred
<1> HIDE DEF Filled, Adds
<1>4. ASSUME at # {} PROVE least \in DOMAIN pages
  <2>1. at \subseteq Nat
    <3>1. DOMAIN pages = 1..Len(pages) /\ Len(pages) \in Nat
      BY ListFacts
    <3> QED BY <3>1
  <2>2. \E i \in at : \A j \in at : i <= j
    BY <1>4, <2>1, Least
  <2>3. least \in at
    BY <2>2
  <2> QED BY <2>3
<1> HIDE DEF at, least
<1>5. ASSUME at # {} PROVE IsItem(x)
  <2>1. WholeDate(Filled(least, "start")) /\ WholeDate(Filled(least, "end"))
    BY <1>3, <1>4, <1>5
  <2> DEFINE v == With(least)
  <2>2. DOMAIN v = DOMAIN row.val /\ v.start = Filled(least, "start") /\ v.end = Filled(least, "end")
    BY <1>2
  <2> HIDE DEF v
  <2>3. DOMAIN x = DOMAIN row /\ x.val = v
    BY <1>2 DEF v
  <2> HIDE DEF x
  <2> QED BY <1>2, <2>1, <2>2, <2>3, ItemOf
<1> QED BY <1>1, <1>5

LEMMA GuardedIsCandidate ==
  ASSUME NEW c, IsCandidate(c), NEW name, NEW pages, IsList(pages), WholeDates(pages)
  PROVE  IsCandidate(Guarded(c, name, pages))
<1> DEFINE g == Guarded(c, name, pages)
           schools == GuardEducation(c, pages)
           NotLeaked(s) == <<s.field, s.val>> \notin Leaked
           scalars == Filter(c.scalars, NotLeaked)
           certificates == GuardCertificates(c, {Key(s.val.name) : s \in Range(schools)} \ {Null}, pages)
           jobs == GuardEmployment(c, pages)
           projects == GuardProjects(c, name)
           rows == [EMPLOYMENT |-> jobs, EDUCATION |-> schools, CERTIFICATION |-> certificates, PROJECT |-> projects]
<1>1. g = [c EXCEPT !.scalars = scalars, !.rows = rows]
  BY Zenon DEF Guarded
<1>2. \A e \in Entities : ItemList(c.rows[e])
  BY DEF IsCandidate, ItemList
<1>3. IsList(scalars) /\ \A k \in DOMAIN scalars : IsScalar(scalars[k])
  <2> DEFINE ss == [k \in 1..Len(c.scalars) |-> IF NotLeaked(c.scalars[k]) THEN <<c.scalars[k]>> ELSE <<>>]
  <2>1. scalars = FlattenSeq(ss)
    BY Zenon DEF Filter
  <2>2. Numbered(ss, Len(c.scalars)) /\ \A k \in 1..Len(c.scalars) : ss[k] = <<c.scalars[k]>> \/ ss[k] = <<>>
    BY DEF Numbered
  <2> HIDE DEF ss, scalars
  <2>3. IsList(c.scalars) /\ \A k \in DOMAIN c.scalars : IsScalar(c.scalars[k])
    BY DEF IsCandidate
  <2>4. /\ IsList(FlattenSeq(ss))
        /\ \A k \in DOMAIN FlattenSeq(ss) : \E j \in DOMAIN c.scalars : FlattenSeq(ss)[k] = c.scalars[j]
    BY <2>2, <2>3, Filtered
  <2> QED BY <2>1, <2>3, <2>4
<1>4. ItemList(jobs)
  <2> DEFINE Keep(row) == ~IsCustomer(pages, row.val, c.rows["PROJECT"])
             all == c.rows["EMPLOYMENT"]
             ss == [k \in 1..Len(all) |-> IF Keep(all[k]) THEN <<all[k]>> ELSE <<>>]
             kept == Filter(all, Keep)
             settled == [k \in DOMAIN kept |-> SettleEnd(pages, kept[k])]
  <2>1. jobs = IF pages = <<>> THEN all ELSE Dedupe("EMPLOYMENT", pages, settled)
    BY Zenon DEF GuardEmployment
  <2>2. ItemList(all)
    BY <1>2 DEF Entities
  <2>3. kept = FlattenSeq(ss)
    BY Zenon DEF Filter
  <2> HIDE DEF all
  <2>4. Numbered(ss, Len(all)) /\ \A k \in 1..Len(all) : ss[k] = <<all[k]>> \/ ss[k] = <<>>
    BY DEF Numbered
  <2> HIDE DEF ss
  <2>5. ItemList(kept)
    BY <2>2, <2>3, <2>4, ItemsFiltered
  <2> HIDE DEF kept
  <2>6. Numbered(settled, Len(kept)) /\ \A k \in DOMAIN kept : IsItem(settled[k])
    <3>1. DOMAIN kept = 1..Len(kept) /\ \A k \in DOMAIN kept : IsItem(kept[k])
      BY <2>5, ListFacts DEF ItemList
    <3>2. \A k \in DOMAIN kept : settled[k] = SettleEnd(pages, kept[k])
      OBVIOUS
    <3> QED BY <3>1, <3>2, SettledIsItem DEF Numbered
  <2> HIDE DEF settled
  <2>7. ItemList(settled)
    BY <2>5, <2>6, ItemsRewritten
  <2> QED BY <2>1, <2>2, <2>7, DedupeKeepsItems
<1>5. ItemList(schools)
  <2> DEFINE merged == Dedupe("EDUCATION", pages, c.rows["EDUCATION"])
  <2>1. schools = [k \in DOMAIN merged |-> Enrich(pages, merged[k])]
    BY Zenon DEF GuardEducation, EnrichAll
  <2>2. ItemList(merged)
    BY <1>2, DedupeKeepsItems DEF Entities
  <2> HIDE DEF merged, schools
  <2>3. Numbered(schools, Len(merged)) /\ \A k \in DOMAIN merged : IsItem(schools[k])
    <3>1. DOMAIN merged = 1..Len(merged) /\ \A k \in DOMAIN merged : IsItem(merged[k])
      BY <2>2, ListFacts DEF ItemList
    <3>2. \A k \in DOMAIN merged : schools[k] = Enrich(pages, merged[k])
      BY <2>1
    <3> QED BY <2>1, <3>1, <3>2, EnrichedIsItem DEF Numbered
  <2> QED BY <2>2, <2>3, ItemsRewritten
<1>6. ItemList(certificates)
  <2> DEFINE names == {Key(s.val.name) : s \in Range(schools)} \ {Null}
             merged == Dedupe("CERTIFICATION", pages, c.rows["CERTIFICATION"])
             Issued(r) == \E i \in DOMAIN pages : pages[i].section = "certification"
                                                  /\ pages[i].name = r.name /\ pages[i].sub = r.sub
             Clean(row) == IF row.val.sub # Null /\ Key(row.val.sub) \in names /\ ~Issued(row.val)
                           THEN [row EXCEPT !.val.sub = Null] ELSE row
  <2>1. certificates = [k \in DOMAIN merged |-> Clean(merged[k])]
    BY Zenon DEF GuardCertificates, ClearIssuers
  <2>2. ItemList(merged)
    BY <1>2, DedupeKeepsItems DEF Entities
  <2>3. ASSUME NEW row, IsItem(row) PROVE IsItem(Clean(row))
    <3> DEFINE r == [row EXCEPT !.val.sub = Null]
    <3>1. DOMAIN row = {"val", "refs"} /\ {"start", "end"} \subseteq DOMAIN row.val
      BY <2>3, ItemFields
    <3>2. /\ DOMAIN r = DOMAIN row /\ DOMAIN r.val = DOMAIN row.val
          /\ r.val.start = row.val.start /\ r.val.end = row.val.end
      BY <3>1
    <3>3. Clean(row) = r \/ Clean(row) = row
      OBVIOUS
    <3> HIDE DEF r, Clean
    <3>4. IsItem(r)
      BY <2>3, <3>2, ItemFields, ItemOf
    <3> QED BY <2>3, <3>3, <3>4
  <2> HIDE DEF merged, certificates, Clean
  <2>4. Numbered(certificates, Len(merged)) /\ \A k \in DOMAIN merged : IsItem(certificates[k])
    <3>1. DOMAIN merged = 1..Len(merged) /\ \A k \in DOMAIN merged : IsItem(merged[k])
      BY <2>2, ListFacts DEF ItemList
    <3>2. \A k \in DOMAIN merged : certificates[k] = Clean(merged[k])
      BY <2>1
    <3> QED BY <2>1, <2>3, <3>1, <3>2 DEF Numbered
  <2> QED BY <2>2, <2>4, ItemsRewritten
<1>7. ItemList(projects) /\ \A k \in DOMAIN projects : IsList(projects[k].val.rels)
  <2> DEFINE said == {k \in DOMAIN c.scalars : c.scalars[k].field = "name"}
             names == {name} \cup {c.scalars[k].val : k \in said}
             customers == {Key(p.val.sub) : p \in Range(c.rows["PROJECT"])} \ {Null}
             Bare(r) == Null = r.start /\ Null = r.end /\ r.rels = <<>>
             Keep(p) == /\ ~(p.val.name \in PersonNames
                             /\ Key(p.val.name) \in {Key(n) : n \in names \cap PersonNames})
                        /\ ~(Key(p.val.name) \in customers /\ Bare(p.val))
             all == c.rows["PROJECT"]
             ss == [k \in 1..Len(all) |-> IF Keep(all[k]) THEN <<all[k]>> ELSE <<>>]
  <2>1. projects = FlattenSeq(ss)
    BY Zenon DEF GuardProjects, Filter
  <2>2. ItemList(all) /\ \A k \in DOMAIN all : IsList(all[k].val.rels)
    BY <1>2 DEF IsCandidate, Entities
  <2> HIDE DEF all, Keep
  <2>3. Numbered(ss, Len(all)) /\ \A k \in 1..Len(all) : ss[k] = <<all[k]>> \/ ss[k] = <<>>
    BY DEF Numbered
  <2> HIDE DEF ss, projects
  <2>4. /\ IsList(FlattenSeq(ss))
        /\ \A k \in DOMAIN FlattenSeq(ss) : \E j \in DOMAIN all : FlattenSeq(ss)[k] = all[j]
    BY <2>2, <2>3, Filtered DEF ItemList
  <2>5. \A k \in DOMAIN all : IsItem(all[k])
    BY <2>2 DEF ItemList
  <2> QED BY <2>1, <2>2, <2>4, <2>5 DEF ItemList
<1> HIDE DEF scalars, jobs, schools, certificates, projects
<1>8. /\ DOMAIN rows = Entities /\ rows["PROJECT"] = projects
      /\ \A e \in Entities : ItemList(rows[e])
  BY <1>4, <1>5, <1>6, <1>7 DEF Entities
<1> HIDE DEF rows
<1>9. /\ DOMAIN g = DOMAIN c /\ g.scalars = scalars /\ g.rows = rows
      /\ g.jobs = c.jobs /\ g.skills = c.skills /\ g.exps = c.exps
  BY <1>1 DEF IsCandidate
<1> HIDE DEF g
<1>10. IsCandidate(g)
  <2>1. \A e \in Entities : IsList(g.rows[e]) /\ \A k \in DOMAIN g.rows[e] : IsItem(g.rows[e][k])
    BY <1>8, <1>9 DEF ItemList
  <2>2. \A k \in DOMAIN g.rows["PROJECT"] : IsList(g.rows["PROJECT"][k].val.rels)
    BY <1>7, <1>8, <1>9
  <2> QED BY <1>3, <1>8, <1>9, <2>1, <2>2 DEF IsCandidate
<1> QED BY <1>10 DEF g

-----------------------------------------------------------------------------
(* The invariant *)

\* Profile and candidate keep their shape, and the run's version is not ahead.
Shaped ==
  /\ IsProfile(profile) /\ RowsChecked(profile) /\ IsCandidate(candidate)
  /\ version \in Nat /\ base \in Nat /\ base <= version

\* The diffs are what a decision relies on and about the items of the candidate,
\* and while nobody has changed the profile they show the values it has.
Diffs ==
  /\ IsList(diffs) /\ \A i \in DOMAIN diffs : WellFormed(diffs[i]) /\ From(diffs[i], candidate)
  /\ status = "REVIEWING" /\ version = base => \A i \in DOMAIN diffs : Fresh(diffs[i], profile)

Links == \A l \in links : l[1] \in TargetTypes /\ PointsAt(profile, l[1], l[2])

ReviewInv == Shaped /\ Diffs /\ Links /\ PreviewedDatesConfirm

\* What a confirmation may change, in the words of the property.
Confirmed(ds, p, q) ==
  /\ \A e \in Entities : \A id \in DOMAIN p.rows[e] :
       /\ id \in DOMAIN q.rows[e]
       /\ \A f \in Range(RowFields) : LET old == p.rows[e][id][f] IN
            q.rows[e][id][f] # old => \E i \in DOMAIN ds : Decides(ds[i], e, id, f, old)
  /\ \A f \in DOMAIN p.scalars : LET old == p.scalars[f] IN
       q.scalars[f] # old
         => \E i \in DOMAIN ds : /\ Applies(ds[i]) /\ ds[i].entity = "PROFILE"
                                 /\ ds[i].field = f /\ ds[i].old = old
  /\ p.jobs \subseteq q.jobs
  /\ \A k \in DOMAIN p.rels : p.rels[k] \subseteq q.rels[k]
  /\ Untouched(p.skills, q.skills, LAMBDA c : \E i \in DOMAIN ds : AppliesTo(ds[i], "TECH", c))
  /\ Untouched(p.exps, q.exps, LAMBDA c : \E i \in DOMAIN ds : AppliesTo(ds[i], "EXP", c))

LEMMA ReviewedIsConfirmed ==
  ASSUME NEW ds, NEW p, NEW q, Reviewed(ds, p, q)
  PROVE  Confirmed(ds, p, q)
<1>1. Untouched(p.skills, q.skills, LAMBDA c : \E i \in DOMAIN ds : AppliesTo(ds[i], "TECH", c))
  <2>1. \A x \in DOMAIN p.skills : x \in DOMAIN q.skills
                                   /\ (q.skills[x] = p.skills[x] \/ \E i \in DOMAIN ds : AppliesTo(ds[i], "TECH", x))
    BY DEF Reviewed, Grows, CodesReviewed
  <2> QED BY <2>1, Zenon DEF Untouched
<1>2. Untouched(p.exps, q.exps, LAMBDA c : \E i \in DOMAIN ds : AppliesTo(ds[i], "EXP", c))
  <2>1. \A x \in DOMAIN p.exps : x \in DOMAIN q.exps
                                 /\ (q.exps[x] = p.exps[x] \/ \E i \in DOMAIN ds : AppliesTo(ds[i], "EXP", x))
    BY DEF Reviewed, Grows, CodesReviewed
  <2> QED BY <2>1, Zenon DEF Untouched
<1>3. \A e \in Entities : \A id \in DOMAIN p.rows[e] :
        /\ id \in DOMAIN q.rows[e]
        /\ \A f \in Range(RowFields) : LET old == p.rows[e][id][f] IN
             q.rows[e][id][f] # old => \E i \in DOMAIN ds : Decides(ds[i], e, id, f, old)
  BY DEF Reviewed, Grows, RowsReviewed, RowReviewed, ValuesDecided
<1>4. \A f \in DOMAIN p.scalars : LET old == p.scalars[f] IN
        q.scalars[f] # old
          => \E i \in DOMAIN ds : /\ Applies(ds[i]) /\ ds[i].entity = "PROFILE"
                                  /\ ds[i].field = f /\ ds[i].old = old
  BY DEF Reviewed, ScalarsReviewed
<1>5. p.jobs \subseteq q.jobs /\ \A k \in DOMAIN p.rels : p.rels[k] \subseteq q.rels[k]
  BY DEF Reviewed, Grows
<1> QED BY <1>1, <1>2, <1>3, <1>4, <1>5 DEF Confirmed

-----------------------------------------------------------------------------
(* What was accepted is not proposed again *)

\* The confirm step reads a date as its first or last day, which the diff engine
\* finds compatible with the date.
LEMMA BoundedCompatible ==
  ASSUME NEW d, d # Null, WholeDate(d), d.form # "dot", Confirmable(d), NEW f
  PROVE  DatesCompatible(d, Bounded(f, d))
<1> DEFINE b == Bounded(f, d)
<1>1. HasParts(d) /\ IsList(d.p) /\ Len(d.p) \in 1..3
  BY DEF Confirmable, WholeDate, HasParts
<1>2. \E m, n : b = Dash(<<d.p[1], IF Len(d.p) > 1 THEN d.p[2] ELSE m, IF Len(d.p) > 2 THEN d.p[3] ELSE n>>)
  <2>1. FirstDayOf(d) = Dash(<<d.p[1], IF Len(d.p) > 1 THEN d.p[2] ELSE 1, IF Len(d.p) > 2 THEN d.p[3] ELSE 1>>)
    BY DEF FirstDayOf
  <2>2. \E m : LastDayOf(d) = Dash(<<d.p[1], IF Len(d.p) > 1 THEN d.p[2] ELSE 12, IF Len(d.p) > 2 THEN d.p[3] ELSE m>>)
    BY DEF LastDayOf
  <2> QED BY <2>1, <2>2 DEF Bounded
<1> HIDE DEF b
<1>3. PICK m, n : b = Dash(<<d.p[1], IF Len(d.p) > 1 THEN d.p[2] ELSE m, IF Len(d.p) > 2 THEN d.p[3] ELSE n>>)
  BY <1>2
<1>4. /\ HasParts(b) /\ Len(b.p) = 3 /\ b.p[1] = d.p[1]
      /\ Len(d.p) > 1 => b.p[2] = d.p[2]
      /\ Len(d.p) > 2 => b.p[3] = d.p[3]
  BY <1>3 DEF Dash, HasParts
<1>5. IsPrefix(d.p, b.p)
  <2> DEFINE l == Len(d.p)
             x == SubSeq(d.p, 1, l)
             y == SubSeq(b.p, 1, l)
  <2>1. l \in 1..3
    BY <1>1
  <2>2. \A k \in 1..l : d.p[k] = b.p[k]
    BY <1>4, <2>1
  <2> HIDE DEF l
  <2>3. x = [k \in 1..l |-> d.p[k]] /\ y = [k \in 1..l |-> b.p[k]]
    BY <2>1
  <2>4. x = y
    BY <2>2, <2>3
  <2> QED BY <1>4, <2>1, <2>4 DEF IsPrefix, l
<1> QED BY <1>1, <1>4, <1>5 DEF DatesCompatible, PartsAgree, b

LEMMA ReadCompatible ==
  ASSUME NEW e, NEW f, NEW d, WholeDate(d), d = Null \/ d.form # "dot", FieldDate(e, f, d) # BadDate
  PROVE  FieldDate(e, f, d) = Null \/ DatesCompatible(d, FieldDate(e, f, d))
<1>1. CASE d = Null
  BY <1>1 DEF FieldDate
<1>2. CASE d # Null
  <2>1. FieldDate(e, f, d) = Null \/ (Confirmable(d) /\ FieldDate(e, f, d) = Bounded(f, d))
    BY <1>2 DEF FieldDate
  <2> QED BY <1>2, <2>1, BoundedCompatible
<1> QED BY <1>1, <1>2

\* A row is like an item when its values are the item's or were like them before.
LEMMA StillSimilar ==
  ASSUME NEW e \in Entities \ {"PROJECT"}, NEW v, NEW row,
         \A f \in DateFields : /\ WholeDate(v[f]) /\ (v[f] = Null \/ v[f].form # "dot")
                               /\ FieldDate(e, f, v[f]) # BadDate,
         row.name = v.name, e # "EMPLOYMENT" => OptionalAgree(v.sub, row.sub),
         row.start = FieldDate(e, "start", v.start) \/ DatesCompatible(v.start, row.start),
         \/ row.end = FieldDate(e, "end", v.end)
         \/ IF e = "EMPLOYMENT" THEN EmploymentEndsCompatible(v.end, row.end)
            ELSE e = "EDUCATION" => DatesCompatible(v.end, row.end)
  PROVE  Similar(e, v, row)
<1>1. \A f \in DateFields : FieldDate(e, f, v[f]) = Null \/ DatesCompatible(v[f], FieldDate(e, f, v[f]))
  BY ReadCompatible
<1>2. DatesCompatible(v.start, row.start)
  BY <1>1 DEF DateFields, DatesCompatible
<1>3. row.end = FieldDate(e, "end", v.end) => DatesCompatible(v.end, row.end)
  BY <1>1 DEF DateFields, DatesCompatible
<1>4. e = "EMPLOYMENT" => EmploymentEndsCompatible(v.end, row.end)
  BY <1>3 DEF EmploymentEndsCompatible
<1>5. e = "EDUCATION" => DatesCompatible(v.end, row.end)
  BY <1>3
<1> QED BY <1>2, <1>4, <1>5 DEF Similar, Entities

Undotted(v) == \A f \in DateFields : v[f] = Null \/ v[f].form # "dot"

\* No other decision of ds is about the row of the i-th.
Alone(ds, i) ==
  \A k \in DOMAIN ds \ {i} :
    ~(Applies(ds[k]) /\ ds[k].entity = ds[i].entity /\ ds[k].target = ds[i].target)

\* What the property says of the diffs ds of a candidate, and the profile q after
\* their confirmation.
NotAgain(ds, from, q) ==
  LET again == BuildDiffs(from, q)
  IN  \A i \in DOMAIN ds, j \in DOMAIN again :
        /\ ds[i].status = "ACCEPTED" /\ ds[i].field = Null
        /\ again[j].entity = ds[i].entity /\ again[j].idx = ds[i].idx
        /\ again[j].field = Null
        /\ ds[i].entity \in Entities \ {"PROJECT"} =>
             Undotted(ds[i].new) /\ (ds[i].target = Null \/ Alone(ds, i))
        => again[j].change # "NEW"

\* The row of an item that was accepted is like the item.
LEMMA AcceptedIsSimilar ==
  ASSUME NEW ds, NEW p0, IsProfile(p0), NEW p, IsProfile(p), Reviewed(ds, p0, p), NEW i \in DOMAIN ds,
         Ready(ds[i], p0), Done(ds[i], p0, p),
         ds[i].status = "ACCEPTED", ds[i].field = Null, ds[i].entity \in Entities \ {"PROJECT"},
         Range(RowFields) \subseteq DOMAIN ds[i].new,
         WholeDate(ds[i].new.start), WholeDate(ds[i].new.end), Undotted(ds[i].new),
         ds[i].target = Null \/ Alone(ds, i)
  PROVE  \E id \in DOMAIN p.rows[ds[i].entity] : Similar(ds[i].entity, ds[i].new, p.rows[ds[i].entity][id])
<1> DEFINE d == ds[i]
           e == d.entity
           v == d.new
<1>1. {"name", "sub", "start", "end"} \subseteq DOMAIN v
  BY Fields
<1>2. \A f \in DateFields : /\ WholeDate(v[f]) /\ (v[f] = Null \/ v[f].form # "dot")
                            /\ FieldDate(e, f, v[f]) # BadDate
  <2>1. AppliedValue(d) = v /\ DateOf(v, "start") = v.start /\ DateOf(v, "end") = v.end
    BY <1>1 DEF AppliedValue, DateOf
  <2>2. d.field \notin DateFields \cup {"career_start_date"} /\ d.field = Null /\ e \in Entities
    BY NullIsNoField, Fields DEF DateFields
  <2>3. ~HasDateIssue(d)
    BY DEF Ready
  <2>4. BadDate \notin {FieldDate(e, "start", v.start), FieldDate(e, "end", v.end)}
    BY <2>1, <2>2, <2>3, Zenon DEF HasDateIssue
  <2> QED BY <2>4 DEF DateFields, Undotted
<1>3. e # "PROJECT" /\ "start" \in DateFields /\ "end" \in DateFields /\ "name" \notin DateFields /\ "sub" \notin DateFields
  BY DEF DateFields
<1>4. /\ Coerced(e, "name", v.name) = v.name /\ Coerced(e, "sub", v.sub) = v.sub
      /\ Coerced(e, "start", v.start) = FieldDate(e, "start", v.start)
      /\ Coerced(e, "end", v.end) = FieldDate(e, "end", v.end)
  BY <1>3 DEF Coerced, AppliedDate
<1>5. CASE d.target = Null
  <2>1. PICK id \in DOMAIN p.rows[e] \ DOMAIN p0.rows[e] : p.rows[e][id] = NullFill(e, Blank, v)
    BY <1>5 DEF Done, Created
  <2> DEFINE row == NullFill(e, Blank, v)
  <2>2. \A f \in Range(RowFields) : row[f] = IF DateOf(v, f) # Null THEN Coerced(e, f, v[f]) ELSE Null
    BY DEF NullFill, Blank
  <2>3. \A f \in Range(RowFields) : DateOf(v, f) = v[f]
    BY DEF DateOf
  <2> HIDE DEF row
  <2>4. /\ row.name = v.name /\ row.sub = v.sub
        /\ row.start = FieldDate(e, "start", v.start) /\ row.end = FieldDate(e, "end", v.end)
    BY <1>4, <2>2, <2>3, Fields DEF FieldDate
  <2>5. OptionalAgree(v.sub, row.sub)
    BY <2>4 DEF OptionalAgree
  <2> HIDE DEF e, v
  <2>6. Similar(e, v, row)
    BY <1>2, <2>4, <2>5, StillSimilar DEF e
  <2> QED BY <2>1, <2>6 DEF row, e, v, d
<1>6. CASE d.target # Null
  <2> DEFINE t == d.target
             old == p0.rows[e][t]
             row == p.rows[e][t]
  <2>1. t \in DOMAIN p0.rows[e] /\ t \in DOMAIN p.rows[e] /\ Similar(e, v, old)
    BY <1>6 DEF Ready, Known, Reviewed, Grows
  <2>2. ASSUME NEW f \in Range(RowFields), row[f] # old[f]
        PROVE  row[f] = Coerced(e, f, v[f])
    <3>1. PICK k \in DOMAIN ds : Decides(ds[k], e, t, f, old[f]) /\ Gives(ds[k], e, f, old[f], row[f])
      BY <2>1, <2>2 DEF Reviewed, RowsReviewed, RowReviewed, ValuesDecided
    <3>2. k = i
      BY <1>6, <3>1 DEF Decides, Alone
    <3> QED BY <3>1, <3>2 DEF Gives
  <2> HIDE DEF row, old, t, e, v
  <2>3. /\ row.name = old.name \/ row.name = v.name
        /\ row.sub = old.sub \/ row.sub = v.sub
        /\ row.start = old.start \/ row.start = FieldDate(e, "start", v.start)
        /\ row.end = old.end \/ row.end = FieldDate(e, "end", v.end)
    BY <1>4, <2>2, Fields
  <2>4. /\ old.name = v.name /\ DatesCompatible(v.start, old.start)
        /\ IF e = "EMPLOYMENT" THEN EmploymentEndsCompatible(v.end, old.end)
           ELSE e = "EDUCATION" => DatesCompatible(v.end, old.end)
    BY <2>1 DEF Similar
  <2>5. e # "EMPLOYMENT" => OptionalAgree(v.sub, row.sub)
    <3>1. e # "EMPLOYMENT" => OptionalAgree(v.sub, old.sub)
      BY <2>1 DEF Similar, Entities, e
    <3> QED BY <2>3, <3>1 DEF OptionalAgree
  <2>6. Similar(e, v, row)
    BY <1>2, <2>3, <2>4, <2>5, StillSimilar DEF e
  <2> QED BY <2>1, <2>6 DEF row, t, e, v, d
<1> QED BY <1>5, <1>6

LEMMA AcceptedIsNotNew ==
  ASSUME NEW ds, NEW from, IsCandidate(from), \A i \in DOMAIN ds : From(ds[i], from),
         NEW p0, IsProfile(p0), NEW p, IsProfile(p), Reviewed(ds, p0, p),
         \A i \in DOMAIN ds : Applies(ds[i]) => Ready(ds[i], p0) /\ Done(ds[i], p0, p)
  PROVE  NotAgain(ds, from, p)
<1> DEFINE again == BuildDiffs(from, p)
<1>1. AllProposed(again, from, p)
  BY BuildDiffsProposed
<1> HIDE DEF again
<1>2. ASSUME NEW i \in DOMAIN ds, NEW j \in DOMAIN again,
             ds[i].status = "ACCEPTED", ds[i].field = Null,
             again[j].entity = ds[i].entity, again[j].idx = ds[i].idx, again[j].field = Null,
             ds[i].entity \in Entities \ {"PROJECT"} =>
               Undotted(ds[i].new) /\ (ds[i].target = Null \/ Alone(ds, i)),
             again[j].change = "NEW"
      PROVE  FALSE
  <2> DEFINE d == ds[i]
             a == again[j]
  <2>1. Ready(d, p0) /\ Done(d, p0, p) /\ From(d, from)
    BY <1>2 DEF Applies
  <2>2. Known(a, p) /\ From(a, from)
    BY <1>1 DEF AllProposed, Proposed, Fresh
  <2>3. a.entity = d.entity /\ a.field = Null /\ d.field = Null /\ a.change = "NEW" /\ d.status = "ACCEPTED" /\ a.idx = d.idx
    BY <1>2
  <2>4. /\ d.entity # "PROFILE" /\ d.idx \in DOMAIN Items(from, d.entity)
        /\ d.new = Items(from, d.entity)[d.idx].val /\ a.new = d.new
    BY <2>1, <2>2, <2>3 DEF From
  <2> HIDE DEF a
  <2>5. CASE d.entity \in {"JOB", "TECH", "EXP"}
    BY <2>1, <2>2, <2>3, <2>4, <2>5 DEF Known, Done
  <2>6. CASE d.entity = "PROJECT"
    <3>1. PICK id \in DOMAIN p.rows["PROJECT"] : p.rows["PROJECT"][id] = NullFill("PROJECT", Blank, d.new)
      BY <2>1, <2>3, <2>6 DEF Done, Created, Entities
    <3>2. ~SameNameMatch(d.new, p.rows["PROJECT"][id])
      BY <2>2, <2>3, <2>4, <2>6 DEF Known
    <3> DEFINE row == NullFill("PROJECT", Blank, d.new)
    <3>3. {"name", "sub"} \subseteq DOMAIN d.new
      BY <2>4, <2>6, Fields DEF Items, IsCandidate, IsItem, Entities
    <3>4. row.name = d.new.name /\ row.sub = d.new.sub
      <4>1. \A f \in Range(RowFields) : row[f] = IF DateOf(d.new, f) # Null THEN Coerced("PROJECT", f, d.new[f]) ELSE Null
        BY DEF NullFill, Blank
      <4> HIDE DEF row
      <4>2. DateOf(d.new, "name") = d.new.name /\ DateOf(d.new, "sub") = d.new.sub
        BY <3>3 DEF DateOf
      <4>3. Coerced("PROJECT", "name", d.new.name) = d.new.name /\ Coerced("PROJECT", "sub", d.new.sub) = d.new.sub
        BY DEF Coerced, DateFields
      <4> QED BY <4>1, <4>2, <4>3, Fields
    <3> HIDE DEF row
    <3>5. SameNameMatch(d.new, row)
      BY <3>4 DEF SameNameMatch, OptionalAgree
    <3> QED BY <3>1, <3>2, <3>5 DEF row
  <2>7. CASE d.entity \in Entities \ {"PROJECT"}
    <3>1. IsItem(from.rows[d.entity][d.idx]) /\ d.new = from.rows[d.entity][d.idx].val
      BY <2>4, <2>7 DEF Items, IsCandidate, Entities
    <3>2. Range(RowFields) \subseteq DOMAIN d.new /\ WholeDate(d.new.start) /\ WholeDate(d.new.end)
      BY <3>1 DEF IsItem
    <3>3. \E id \in DOMAIN p.rows[d.entity] : Similar(d.entity, d.new, p.rows[d.entity][id])
      BY <1>2, <2>1, <2>3, <2>7, <3>2, AcceptedIsSimilar
    <3> QED BY <2>2, <2>3, <2>4, <2>7, <3>3 DEF Known
  <2>8. d.entity \in {"PROFILE", "JOB", "TECH", "EXP"} \cup Entities
    BY <2>1 DEF Ready
  <2> QED BY <2>4, <2>5, <2>6, <2>7, <2>8
<1> QED BY <1>2, Zenon DEF NotAgain, again

-----------------------------------------------------------------------------
(* Confirmation *)

LEMMA AppliedDiffsReady ==
  ASSUME ReviewInv, status = "REVIEWING", Refusal(diffs, profile, version = base) = "none",
         NEW i \in DOMAIN diffs, Applies(diffs[i])
  PROVE  Ready(diffs[i], profile)
<1>1. /\ ~(Applies(diffs[i]) /\ HasDateIssue(diffs[i])) /\ TargetsExist(diffs, profile) /\ version = base
  BY DEF Refusal
<1>2. WellFormed(diffs[i]) /\ Fresh(diffs[i], profile)
  BY <1>1 DEF ReviewInv, Diffs
<1>3. diffs[i].entity \in Entities /\ diffs[i].target # Null => diffs[i].target \in DOMAIN profile.rows[diffs[i].entity]
  BY <1>1 DEF TargetsExist
<1> QED BY <1>1, <1>2, <1>3 DEF Ready, WellFormed, Fresh

LEMMA LinksOfPoint ==
  ASSUME NEW i \in DOMAIN diffs, WellFormed(diffs[i]), NEW result, IsProfile(result.profile),
         \A x \in result.applied : /\ x[2] \in TargetTypes /\ PointsAt(result.profile, x[2], x[3])
                                   /\ IsProjectRoot(diffs[x[1]]) => x[2] = "PROJECT",
         NEW l \in LinksOf(i, result)
  PROVE  l[1] \in TargetTypes /\ PointsAt(result.profile, l[1], l[2])
<1> DEFINE d == diffs[i]
           after == result.profile
           applied == {<<a[2], a[3], a[4]>> : a \in {x \in result.applied : x[1] = i}}
           targets == IF applied # {} THEN applied ELSE ExistingTarget(d, after)
           own == {Link(t, ref) : t \in targets, ref \in d.refs \cap ValidRefs}
           rels == IF IsProjectRoot(d) THEN d.new.rels ELSE <<>>
           OfRel(r) == {Link(<<"RELATION", <<t[2], r.val.kind, r.val.code>>, "code">>, ref) :
                          t \in {x \in targets : <<r.val.kind, r.val.code>> \in after.rels[x[2]]},
                          ref \in r.refs \cap ValidRefs}
<1>1. LinksOf(i, result) = IF Supports(d) THEN own \cup UNION {OfRel(rels[k]) : k \in DOMAIN rels} ELSE {}
  BY DEF LinksOf
<1>2. \A t \in applied : /\ t[1] \in TargetTypes /\ PointsAt(after, t[1], t[2])
                         /\ IsProjectRoot(d) => t[1] = "PROJECT"
  OBVIOUS
<1>3. \A t \in ExistingTarget(d, after) : /\ t[1] \in TargetTypes /\ PointsAt(after, t[1], t[2])
                                          /\ IsProjectRoot(d) => t[1] = "PROJECT"
  <2> SUFFICES ASSUME NEW t \in ExistingTarget(d, after)
               PROVE  /\ t[1] \in TargetTypes /\ PointsAt(after, t[1], t[2])
                      /\ IsProjectRoot(d) => t[1] = "PROJECT"
    OBVIOUS
  <2>1. CASE d.entity = "PROFILE"
    BY <2>1 DEF ExistingTarget, PointsAt, TargetTypes, IsProjectRoot
  <2>2. CASE d.entity = "JOB"
    <3>1. t[1] = "JOB" /\ t[2] \in after.jobs
      BY <2>2 DEF ExistingTarget
    <3> QED BY <2>2, <3>1 DEF PointsAt, TargetTypes, IsProjectRoot
  <2>3. CASE d.entity = "TECH"
    <3>1. t[1] = "TECH" /\ t[2] \in DOMAIN after.skills
      BY <2>3 DEF ExistingTarget
    <3> QED BY <2>3, <3>1 DEF PointsAt, TargetTypes, IsProjectRoot
  <2>4. CASE d.entity = "EXP"
    <3>1. t[1] = "EXP" /\ t[2] \in DOMAIN after.exps
      BY <2>4 DEF ExistingTarget
    <3> QED BY <2>4, <3>1 DEF PointsAt, TargetTypes, IsProjectRoot
  <2>5. CASE d.entity \in Entities
    <3>1. t[1] = d.entity /\ t[2] \in DOMAIN after.rows[d.entity]
      BY <2>5 DEF ExistingTarget, Entities
    <3> QED BY <2>5, <3>1, PointsAtRow DEF IsProjectRoot
  <2> QED BY <2>1, <2>2, <2>3, <2>4, <2>5 DEF WellFormed
<1>4. \A t \in targets : /\ t[1] \in TargetTypes /\ PointsAt(after, t[1], t[2])
                         /\ IsProjectRoot(d) => t[1] = "PROJECT"
  BY <1>2, <1>3
<1> HIDE DEF applied, targets
<1>5. CASE l \in own
  <2>1. PICK t \in targets, ref \in d.refs \cap ValidRefs : l = Link(t, ref)
    BY <1>5
  <2>2. l[1] = t[1] /\ l[2] = t[2]
    BY <2>1 DEF Link
  <2> QED BY <1>4, <2>1, <2>2
<1>6. \A k \in DOMAIN rels : IsProjectRoot(d)
  OBVIOUS
<1> HIDE DEF rels, d, after
<1>7. ASSUME NEW k \in DOMAIN rels, l \in OfRel(rels[k]) PROVE l[1] \in TargetTypes /\ PointsAt(after, l[1], l[2])
  <2> DEFINE r == rels[k]
             has == {x \in targets : <<r.val.kind, r.val.code>> \in after.rels[x[2]]}
             refs == r.refs \cap ValidRefs
             New(t, ref) == Link(<<"RELATION", <<t[2], r.val.kind, r.val.code>>, "code">>, ref)
  <2>1. OfRel(r) = {New(t, ref) : t \in has, ref \in refs}
    OBVIOUS
  <2> HIDE DEF OfRel, has, refs, New
  <2>2. PICK t \in has, ref \in refs : l = New(t, ref)
    BY <1>7, <2>1
  <2>3. IsProjectRoot(d) /\ t \in targets /\ <<r.val.kind, r.val.code>> \in after.rels[t[2]]
    BY <1>6 DEF has
  <2>4. t[2] \in DOMAIN after.rels
    <3>1. t[1] = "PROJECT" /\ PointsAt(after, "PROJECT", t[2])
      BY <1>4, <2>3
    <3>2. t[2] \in DOMAIN after.rows["PROJECT"]
      BY <3>1 DEF PointsAt
    <3> QED BY <3>2 DEF IsProfile, after
  <2> HIDE DEF r
  <2>5. l[1] = "RELATION" /\ l[2] = <<t[2], r.val.kind, r.val.code>>
    BY <2>2 DEF Link, New
  <2>6. PointsAt(after, "RELATION", <<t[2], r.val.kind, r.val.code>>)
    BY <2>3, <2>4 DEF PointsAt
  <2> QED BY <2>5, <2>6 DEF TargetTypes
<1> HIDE DEF own, OfRel
<1> QED BY <1>1, <1>5, <1>7 DEF after, d

\* Two dates that contradict each other were never previewed together: a checked
\* row has its dates in order, and so has every decision that passed the preview.
LEMMA NeverPreviewedTogether ==
  ASSUME NEW ds, NEW p, RowsChecked(p), \A i \in DOMAIN ds : Applies(ds[i]) => Ready(ds[i], p),
         NEW e \in Entities, NEW id \in DOMAIN p.rows[e],
         NEW a \in DateSources(ds, p, e, id), Contradict(a, a)
  PROVE  \E d \in About(ds, e, id) : Corrects(d) /\ a = Correction(d)
<1>1. /\ "start" \in DOMAIN a /\ "end" \in DOMAIN a /\ a["start"] # BadDate /\ a["end"] # BadDate
      /\ ~InOrder(a["start"], a["end"])
  BY DEF Contradict
<1>2. CASE a = [f \in DateFields |-> p.rows[e][id][f]]
  <2>1. a["start"] = p.rows[e][id].start /\ a["end"] = p.rows[e][id].end
    BY <1>2 DEF DateFields
  <2>2. RowError(p.rows[e][id]) = "none"
    BY DEF RowsChecked
  <2> QED BY <1>1, <2>1, <2>2 DEF RowError
<1>3. ASSUME NEW d \in About(ds, e, id), a = DatesOf(d, AppliedValue(d)) PROVE FALSE
  <2> DEFINE v == AppliedValue(d)
             w == IF e = "PROJECT" THEN Null ELSE e
  <2>1. d.entity = e /\ ~HasDateIssue(d)
    <3>1. PICK i \in DOMAIN ds : d = ds[i] /\ Applies(ds[i])
      BY DEF About, Range
    <3>2. Ready(ds[i], p)
      BY <3>1
    <3> QED BY <3>1, <3>2 DEF Ready, About
  <2>2. d.field = Null /\ "start" \in DOMAIN v /\ "end" \in DOMAIN v
    <3>1. \A x \in DOMAIN a : d.field = x \/ (d.field = Null /\ x \in DOMAIN v)
      BY <1>3 DEF DatesOf
    <3>2. "start" # Null /\ "end" # Null
      BY NullIsNoField, Fields
    <3> HIDE DEF v
    <3> QED BY <1>1, <3>1, <3>2
  <2>3. a["start"] = FieldDate(w, "start", v.start) /\ a["end"] = FieldDate(w, "end", v.end)
    BY <1>1, <1>3, <2>1, <2>2 DEF DatesOf, Coerced, AppliedDate, DateFields
  <2>4. InOrder(FieldDate(e, "start", v.start), FieldDate(e, "end", v.end))
    <3>1. d.field \notin DateFields \cup {"career_start_date"}
      BY <2>2, NullIsNoField, Fields DEF DateFields
    <3>2. DateOf(v, "start") = v.start /\ DateOf(v, "end") = v.end
      BY <2>2 DEF DateOf
    <3> QED BY <2>1, <2>2, <3>1, <3>2 DEF HasDateIssue
  <2>5. FieldDate(w, "start", v.start) = FieldDate(e, "start", v.start)
    BY DEF FieldDate
  <2>6. FieldDate(w, "end", v.end) = FieldDate(e, "end", v.end)
    <3>1. CASE w = e
      BY <3>1
    <3>2. CASE w = Null /\ e = "PROJECT"
      <4>1. FieldDate(Null, "end", v.end) # BadDate
        BY <1>1, <2>3, <3>2
      <4>2. Null # "PROJECT" /\ Null # "EMPLOYMENT"
        BY NullIsNoField
      <4>3. v.end = Null \/ (Confirmable(v.end) /\ ~IsOngoingProjectEnd(v.end))
        BY <4>1, <4>2 DEF FieldDate, Confirmable, IsOngoingProjectEnd
      <4> QED BY <3>2, <4>2, <4>3 DEF FieldDate
    <3> QED BY <3>1, <3>2
  <2> QED BY <1>1, <2>3, <2>4, <2>5, <2>6
<1>4. CASE \E d \in About(ds, e, id) : Corrects(d) /\ a = Correction(d)
  BY <1>4
<1> QED BY <1>2, <1>3, <1>4 DEF DateSources

LEMMA ConfirmKeeps ==
  ASSUME ReviewInv, Confirm
  PROVE  /\ ReviewInv'
         /\ Confirming => Confirmed(diffs, profile, profile') /\ NotAgain(diffs, candidate, profile')
<1> DEFINE result == ConfirmResult(diffs, profile, active, version = base)
           done == ApplyAll(diffs, profile, active)
           refusal == Refusal(diffs, profile, version = base)
<1>1. /\ status = "REVIEWING" /\ outcome' = result.answer
      /\ IF result.answer = "none"
         THEN /\ profile' = result.profile /\ version' = version + 1 /\ status' = "CONFIRMED"
              /\ links' = links \cup UNION {LinksOf(i, result) : i \in DOMAIN diffs}
         ELSE UNCHANGED <<profile, version, status, links>>
      /\ active' = active /\ base' = base /\ candidate' = candidate /\ diffs' = diffs
  BY DEF Confirm
<1>2. result = IF refusal # "none" THEN [answer |-> refusal, profile |-> profile, applied |-> {}]
               ELSE [answer |-> done.error, profile |-> done.profile, applied |-> done.applied]
  BY DEF ConfirmResult
<1>3. refusal = "none" =>
        /\ Sound(diffs, profile, done)
        /\ done.error = "none" =>
             \A i \in DOMAIN diffs : Applies(diffs[i]) => Done(diffs[i], profile, done.profile)
  BY <1>1, AppliedDiffsReady, ApplyAllSound DEF ReviewInv, Shaped, Diffs
<1>4. refusal = "none" => \A i \in DOMAIN diffs : Applies(diffs[i]) => Ready(diffs[i], profile)
  BY <1>1, AppliedDiffsReady
<1>5. PreviewedDatesConfirm'
  <2>1. refusal \notin {"date", "order"}
    BY DEF Refusal
  <2>2. result.answer = IF refusal # "none" THEN refusal ELSE done.error
    BY <1>2
  <2> HIDE DEF result, refusal, done
  <2>3. result.answer \in {"date", "order"} => refusal = "none" /\ Excused(diffs, profile, result.answer)
    BY <1>3, <2>1, <2>2 DEF Sound
  <2>4. CASE result.answer = "date"
    <3>1. profile' = profile /\ diffs' = diffs /\ outcome' = "date"
      BY <1>1, <2>4
    <3> QED BY <2>3, <2>4, <3>1 DEF PreviewedDatesConfirm, Excused, DateExcuse
  <2>5. CASE result.answer = "order"
    <3>1. profile' = profile /\ diffs' = diffs /\ outcome' = "order"
      BY <1>1, <2>5
    <3>2. PICK e \in Entities : \E id \in DOMAIN profile.rows[e] :
            \E a, b \in DateSources(diffs, profile, e, id) : Contradict(a, b)
      BY <2>3, <2>5 DEF Excused, OrderExcuse
    <3>3. PICK id \in DOMAIN profile.rows[e] : \E a, b \in DateSources(diffs, profile, e, id) : Contradict(a, b)
      BY <3>2
    <3>4. PICK a \in DateSources(diffs, profile, e, id), b \in DateSources(diffs, profile, e, id) : Contradict(a, b)
      BY <3>3
    <3>5. RowsChecked(profile) /\ \A i \in DOMAIN diffs : Applies(diffs[i]) => Ready(diffs[i], profile)
      BY <1>4, <2>3, <2>5 DEF ReviewInv, Shaped
    <3>6. a # b \/ \E d \in About(diffs, e, id) : Corrects(d) /\ a = Correction(d)
      BY <3>4, <3>5, NeverPreviewedTogether
    <3> QED BY <3>1, <3>4, <3>6 DEF PreviewedDatesConfirm
  <2>6. CASE result.answer \notin {"date", "order"}
    BY <1>1, <2>6 DEF PreviewedDatesConfirm
  <2> QED BY <2>4, <2>5, <2>6
<1>6. CASE result.answer # "none"
  <2>1. profile' = profile /\ version' = version /\ status' = status /\ links' = links
    BY <1>1, <1>6
  <2>2. Shaped' /\ Diffs' /\ Links'
    BY <1>1, <2>1 DEF ReviewInv, Shaped, Diffs, Links
  <2>3. ~Confirming
    BY <1>1, <2>1 DEF Confirming
  <2> QED BY <1>5, <2>2, <2>3 DEF ReviewInv
<1>7. CASE result.answer = "none"
  <2>1. refusal = "none" /\ done.error = "none" /\ result.profile = done.profile /\ result.applied = done.applied
    BY <1>2, <1>7
  <2> HIDE DEF result, refusal, done
  <2>2. /\ profile' = done.profile /\ version' = version + 1 /\ status' = "CONFIRMED"
        /\ links' = links \cup UNION {LinksOf(i, result) : i \in DOMAIN diffs}
    BY <1>1, <1>7, <2>1
  <2>3. /\ Sound(diffs, profile, done)
        /\ \A i \in DOMAIN diffs : Applies(diffs[i]) => Done(diffs[i], profile, done.profile)
    BY <1>3, <2>1
  <2>4. IsProfile(done.profile) /\ RowsChecked(done.profile) /\ Reviewed(diffs, profile, done.profile) /\ Grows(profile, done.profile)
    BY <2>3 DEF Sound, IsAcc, Reviewed
  <2>5. Shaped'
    BY <1>1, <2>2, <2>4 DEF ReviewInv, Shaped
  <2>6. Diffs'
    BY <1>1, <2>2 DEF ReviewInv, Diffs
  <2>7. Links'
    <3> SUFFICES ASSUME NEW l \in links' PROVE l[1] \in TargetTypes /\ PointsAt(done.profile, l[1], l[2])
      BY <2>2 DEF Links
    <3>1. CASE l \in links
      BY <2>4, <3>1, StillPointsAt DEF ReviewInv, Links
    <3>2. ASSUME NEW i \in DOMAIN diffs, l \in LinksOf(i, result)
          PROVE  l[1] \in TargetTypes /\ PointsAt(done.profile, l[1], l[2])
      <4>1. WellFormed(diffs[i])
        BY DEF ReviewInv, Diffs
      <4>2. \A x \in result.applied : /\ x[2] \in TargetTypes /\ PointsAt(result.profile, x[2], x[3])
                                      /\ IsProjectRoot(diffs[x[1]]) => x[2] = "PROJECT"
        BY <2>1, <2>3 DEF Sound
      <4>3. IsProfile(result.profile)
        BY <2>1, <2>4
      <4>4. l[1] \in TargetTypes /\ PointsAt(result.profile, l[1], l[2])
        BY <3>2, <4>1, <4>2, <4>3, LinksOfPoint
      <4> QED BY <2>1, <4>4
    <3> QED BY <2>2, <3>1, <3>2
  <2>8. Confirmed(diffs, profile, profile')
    BY <2>2, <2>4, ReviewedIsConfirmed
  <2>9. NotAgain(diffs, candidate, done.profile)
    <3>1. IsCandidate(candidate) /\ IsProfile(profile) /\ \A i \in DOMAIN diffs : From(diffs[i], candidate)
      BY DEF ReviewInv, Shaped, Diffs
    <3>2. \A i \in DOMAIN diffs : Applies(diffs[i]) => Ready(diffs[i], profile)
      BY <1>4, <2>1
    <3> QED BY <2>3, <2>4, <3>1, <3>2, AcceptedIsNotNew
  <2> QED BY <1>5, <2>2, <2>5, <2>6, <2>7, <2>8, <2>9 DEF ReviewInv
<1> QED BY <1>6, <1>7

-----------------------------------------------------------------------------
(* The other steps keep the invariant *)

\* A step that writes the diffs of the run leaves profile and links alone.
LEMMA DiffsInv ==
  ASSUME ReviewInv, profile' = profile, links' = links, version' = version,
         outcome' = "none", IsCandidate(candidate'), base' \in Nat, base' <= version, Diffs'
  PROVE  ReviewInv'
<1>1. Shaped'
  BY DEF ReviewInv, Shaped
<1>2. Links'
  BY DEF ReviewInv, Links
<1>3. PreviewedDatesConfirm'
  BY DEF PreviewedDatesConfirm
<1> QED BY <1>1, <1>2, <1>3 DEF ReviewInv

LEMMA AnalyseInv ==
  ASSUME ReviewInv, NEW k \in DOMAIN Candidates, NEW raw, Analyse(Candidates[k], raw)
  PROVE  ReviewInv'
<1> DEFINE c == Candidates[k]
           extracted == IF raw THEN c ELSE Guarded(c, ConfirmedName, Pages)
<1>1. IsCandidate(c)
  BY ReviewAssumption
<1> HIDE DEF c
<1>2. IsCandidate(extracted)
  BY <1>1, GuardedIsCandidate, ReviewAssumption DEF WholeDates
<1> HIDE DEF extracted
<1>3. /\ profile' = profile /\ links' = links /\ version' = version /\ base' = version
      /\ outcome' = "none" /\ candidate' = extracted /\ diffs' = BuildDiffs(extracted, profile)
  BY DEF Analyse, profileVars, extracted, c
<1>4. AllProposed(diffs', candidate', profile)
  BY <1>2, <1>3, BuildDiffsProposed
<1>5. Diffs'
  BY <1>3, <1>4 DEF AllProposed, Proposed, Diffs
<1>6. version \in Nat
  BY DEF ReviewInv, Shaped
<1> QED BY <1>2, <1>3, <1>5, <1>6, DiffsInv

LEMMA CancelInv ==
  ASSUME ReviewInv, CancelReview
  PROVE  ReviewInv'
<1>1. /\ profile' = profile /\ links' = links /\ version' = version /\ base' = base
      /\ outcome' = "none" /\ candidate' = candidate /\ diffs' = diffs /\ status' = "CANCELLED"
  BY DEF CancelReview, profileVars
<1>2. Diffs'
  BY <1>1 DEF ReviewInv, Diffs
<1>3. base \in Nat /\ base <= version /\ IsCandidate(candidate)
  BY DEF ReviewInv, Shaped
<1> QED BY <1>1, <1>2, <1>3, DiffsInv

\* A diff about the same item, of the same row but where a project is merged.
LEMMA SameItem ==
  ASSUME NEW d, NEW e, e.entity = d.entity, e.idx = d.idx, e.field = d.field, e.change = d.change,
         e.old = d.old, e.new = d.new, e.target = d.target \/ IsProjectRoot(d)
  PROVE  /\ \A p : Fresh(d, p) => Fresh(e, p)
         /\ \A from : From(d, from) => From(e, from)
<1>1. CASE e.target = d.target
  BY <1>1 DEF Fresh, Known, From
<1>2. CASE IsProjectRoot(d)
  <2>1. d.entity = "PROJECT" /\ d.field = Null /\ d.field \notin Range(RowFields)
    BY <1>2, NullIsNoField DEF IsProjectRoot
  <2>2. \A p : Fresh(d, p) => Fresh(e, p)
    BY <2>1 DEF Fresh, Known
  <2>3. \A from : From(d, from) => From(e, from)
    BY <2>1 DEF From
  <2> QED BY <2>2, <2>3
<1> QED BY <1>1, <1>2

\* d with a decision is still what the reviewer saw; a merge names a project.
LEMMA DecisionsWellFormed ==
  ASSUME ReviewInv, NEW d, WellFormed(d), NEW r, Allowed(d, r),
         r.status \in {"PENDING", "ACCEPTED", "MODIFIED", "MERGED", "REJECTED"}
  PROVE  /\ WellFormed(Decided(d, r))
         /\ From(d, candidate) => From(Decided(d, r), candidate)
         /\ Fresh(d, profile) => Fresh(Decided(d, r), profile)
<1>1. CASE r.status = "PENDING"
  <2> DEFINE e == [d EXCEPT !.status = "PENDING", !.decided = Null]
  <2>1. /\ DOMAIN e = DOMAIN d /\ e.entity = d.entity /\ e.field = d.field /\ e.target = d.target
        /\ e.old = d.old /\ e.new = d.new /\ e.idx = d.idx /\ e.change = d.change /\ e.status = "PENDING"
    BY DEF WellFormed
  <2>2. Decided(d, r) = e
    BY <1>1 DEF Decided
  <2> HIDE DEF e
  <2>3. WellFormed(e)
    BY <2>1 DEF WellFormed
  <2> QED BY <2>1, <2>2, <2>3, SameItem
<1>2. CASE r.status = "MERGED"
  <2> DEFINE target == First(r.target, d.target)
             e == [d EXCEPT !.status = "MERGED", !.decided = r.decided, !.target = target]
  <2>1. IsProjectRoot(d) /\ target \in DOMAIN profile.rows["PROJECT"]
    BY <1>2 DEF Allowed, IsMergeable
  <2> HIDE DEF target
  <2>2. target # Null
    <3>1. target \in Nat
      BY <2>1 DEF ReviewInv, Shaped, IsProfile, Entities
    <3> QED BY <3>1, NullAssumption
  <2>3. /\ DOMAIN e = DOMAIN d /\ e.entity = d.entity /\ e.field = d.field /\ e.target = target
        /\ e.old = d.old /\ e.new = d.new /\ e.idx = d.idx /\ e.change = d.change /\ e.status = "MERGED"
    BY DEF WellFormed
  <2>4. Decided(d, r) = e
    BY <1>2 DEF Decided, target
  <2> HIDE DEF e
  <2>5. e.entity = "PROJECT" /\ e.field = Null /\ e.field \notin Range(RowFields)
    BY <2>1, <2>3, NullIsNoField DEF IsProjectRoot
  <2>6. WellFormed(e)
    BY <2>2, <2>3, <2>5 DEF WellFormed, IsProjectRoot
  <2> QED BY <2>1, <2>3, <2>4, <2>6, SameItem
<1>3. CASE r.status \in {"ACCEPTED", "MODIFIED", "REJECTED"}
  <2> DEFINE e == [d EXCEPT !.status = r.status, !.decided = r.decided]
  <2>1. /\ DOMAIN e = DOMAIN d /\ e.entity = d.entity /\ e.field = d.field /\ e.target = d.target
        /\ e.old = d.old /\ e.new = d.new /\ e.idx = d.idx /\ e.change = d.change
        /\ e.status = r.status /\ e.decided = r.decided
    BY DEF WellFormed
  <2>2. Decided(d, r) = e
    BY <1>3 DEF Decided
  <2>3. r.status = "MODIFIED" => r.decided # Null
    BY <1>3 DEF Allowed
  <2> HIDE DEF e
  <2>4. WellFormed(e)
    BY <1>3, <2>1, <2>3 DEF WellFormed
  <2> QED BY <2>1, <2>2, <2>4, SameItem
<1> QED BY <1>1, <1>2, <1>3

\* Some diffs are rewritten in place, each keeping what the reviewer saw.
LEMMA RewrittenInv ==
  ASSUME ReviewInv, profile' = profile, links' = links, version' = version, base' = base,
         outcome' = "none", IsCandidate(candidate'), status' = status,
         NEW new, diffs' = new, Numbered(new, Len(diffs)),
         \A i \in DOMAIN diffs : /\ WellFormed(new[i]) /\ From(new[i], candidate')
                                 /\ Fresh(diffs[i], profile) => Fresh(new[i], profile)
  PROVE  ReviewInv'
<1>1. IsList(diffs) /\ Len(diffs) \in Nat /\ DOMAIN diffs = 1..Len(diffs)
  BY ListFacts DEF ReviewInv, Diffs
<1>2. IsList(new) /\ DOMAIN new = DOMAIN diffs
  BY <1>1, ListOf
<1>3. Diffs'
  BY <1>2 DEF ReviewInv, Diffs
<1>4. base \in Nat /\ base <= version
  BY DEF ReviewInv, Shaped
<1> QED BY <1>3, <1>4, DiffsInv

LEMMA ReviewOneInv ==
  ASSUME ReviewInv, NEW i \in DOMAIN diffs, NEW r \in Requests(diffs[i]), ReviewOne(i, r)
  PROVE  ReviewInv'
<1> DEFINE new == [diffs EXCEPT ![i] = Decided(diffs[i], r)]
<1>1. /\ profile' = profile /\ links' = links /\ version' = version /\ base' = base
      /\ outcome' = "none" /\ candidate' = candidate /\ status' = status
      /\ diffs' = new /\ Allowed(diffs[i], r)
  BY DEF ReviewOne, profileVars
<1>2. DOMAIN diffs = 1..Len(diffs) /\ \A k \in DOMAIN diffs : WellFormed(diffs[k]) /\ From(diffs[k], candidate)
  BY ListFacts DEF ReviewInv, Diffs
<1>3. Numbered(new, Len(diffs)) /\ \A k \in DOMAIN diffs : new[k] = IF k = i THEN Decided(diffs[i], r) ELSE diffs[k]
  BY <1>2 DEF Numbered
<1>4. /\ WellFormed(Decided(diffs[i], r)) /\ From(Decided(diffs[i], r), candidate)
      /\ Fresh(diffs[i], profile) => Fresh(Decided(diffs[i], r), profile)
  BY <1>1, <1>2, RequestStatuses, DecisionsWellFormed
<1> HIDE DEF new
<1>5. \A k \in DOMAIN diffs : /\ WellFormed(new[k]) /\ From(new[k], candidate)
                              /\ Fresh(diffs[k], profile) => Fresh(new[k], profile)
  BY <1>2, <1>3, <1>4
<1>6. IsCandidate(candidate)
  BY DEF ReviewInv, Shaped
<1> QED BY <1>1, <1>3, <1>5, <1>6, RewrittenInv

LEMMA BulkReviewInv ==
  ASSUME ReviewInv, NEW selected, NEW s \in {"ACCEPTED", "REJECTED", "PENDING"}, NEW allow,
         BulkReview(selected, s, allow)
  PROVE  ReviewInv'
<1> DEFINE r == Request(s, Null, Null)
           new == [i \in DOMAIN diffs |-> IF i \in selected THEN Decided(diffs[i], r) ELSE diffs[i]]
<1>1. /\ profile' = profile /\ links' = links /\ version' = version /\ base' = base
      /\ outcome' = "none" /\ candidate' = candidate /\ status' = status
      /\ diffs' = new /\ \A i \in selected : Allowed(diffs[i], r)
  BY DEF BulkReview, BulkAllowed, profileVars
<1>2. DOMAIN diffs = 1..Len(diffs) /\ \A k \in DOMAIN diffs : WellFormed(diffs[k]) /\ From(diffs[k], candidate)
  BY ListFacts DEF ReviewInv, Diffs
<1>3. Numbered(new, Len(diffs))
  BY <1>2 DEF Numbered
<1>4. r.status = s
  BY DEF Request
<1> HIDE DEF r
<1>5. \A k \in DOMAIN diffs : /\ WellFormed(new[k]) /\ From(new[k], candidate)
                              /\ Fresh(diffs[k], profile) => Fresh(new[k], profile)
  <2> SUFFICES ASSUME NEW k \in DOMAIN diffs
               PROVE  /\ WellFormed(new[k]) /\ From(new[k], candidate)
                      /\ Fresh(diffs[k], profile) => Fresh(new[k], profile)
    OBVIOUS
  <2>1. CASE k \in selected
    BY <1>1, <1>2, <1>4, <2>1, DecisionsWellFormed
  <2>2. CASE k \notin selected
    BY <1>2, <2>2
  <2> QED BY <2>1, <2>2
<1> HIDE DEF new
<1>6. IsCandidate(candidate)
  BY DEF ReviewInv, Shaped
<1> QED BY <1>1, <1>3, <1>5, <1>6, RewrittenInv

LEMMA GuardRefreshInv ==
  ASSUME ReviewInv, GuardRefresh
  PROVE  ReviewInv'
<1> DEFINE guarded == Guarded(candidate, ConfirmedName, Pages)
<1>1. /\ profile' = profile /\ links' = links /\ version' = version /\ base' = base
      /\ outcome' = "none" /\ candidate' = guarded /\ diffs' = BuildDiffs(guarded, profile)
  BY DEF GuardRefresh, profileVars
<1>2. IsCandidate(guarded)
  BY GuardedIsCandidate, ReviewAssumption DEF ReviewInv, Shaped, WholeDates
<1> HIDE DEF guarded
<1>3. AllProposed(diffs', candidate', profile)
  BY <1>1, <1>2, BuildDiffsProposed
<1>4. Diffs'
  BY <1>1, <1>3 DEF AllProposed, Proposed, Diffs
<1>5. base \in Nat /\ base <= version
  BY DEF ReviewInv, Shaped
<1> QED BY <1>1, <1>2, <1>4, <1>5, DiffsInv

LEMMA RecoverRootsInv ==
  ASSUME ReviewInv, RecoverRoots
  PROVE  ReviewInv'
<1> DEFINE slots == {i \in DOMAIN diffs : /\ diffs[i].entity \in {"JOB", "EXP"}
                                         /\ diffs[i].status = "PENDING"
                                         /\ diffs[i].refs = {} /\ Supplied(diffs[i]) # {}}
           Found(items, entity) ==
             [k \in DOMAIN items |->
                IF \E i \in slots : diffs[i].entity = entity /\ diffs[i].idx = k
                THEN [items[k] EXCEPT !.refs =
                        Supplied(diffs[CHOOSE i \in slots : diffs[i].entity = entity /\ diffs[i].idx = k])]
                ELSE items[k]]
           jobs == Found(candidate.jobs, "JOB")
           exps == Found(candidate.exps, "EXP")
           c == [candidate EXCEPT !.jobs = jobs, !.exps = exps]
           With(d) == [d EXCEPT !.refs = Supplied(d)]
           new == [i \in DOMAIN diffs |-> IF i \in slots THEN With(diffs[i]) ELSE diffs[i]]
<1>1. /\ profile' = profile /\ links' = links /\ version' = version /\ base' = base
      /\ outcome' = "none" /\ candidate' = c /\ status' = status /\ diffs' = new
  BY DEF RecoverRoots, profileVars
<1>2. IsCandidate(candidate)
  BY DEF ReviewInv, Shaped
<1> DEFINE FoundList(items) == IsList(items) /\ \A k \in DOMAIN items : IsFound(items[k])
<1>3. ASSUME NEW items, FoundList(items), NEW entity
      PROVE  /\ FoundList(Found(items, entity)) /\ DOMAIN Found(items, entity) = DOMAIN items
             /\ \A k \in DOMAIN items : Found(items, entity)[k].val = items[k].val
  <2>1. DOMAIN items = 1..Len(items) /\ Len(items) \in Nat /\ \A k \in DOMAIN items : IsFound(items[k])
    BY <1>3, ListFacts
  <2>2. Numbered(Found(items, entity), Len(items))
    BY <2>1 DEF Numbered
  <2>3. \A k \in DOMAIN items : \E refs : \/ Found(items, entity)[k] = items[k]
                                          \/ Found(items, entity)[k] = [items[k] EXCEPT !.refs = refs]
    OBVIOUS
  <2> HIDE DEF Found
  <2>4. IsList(Found(items, entity)) /\ DOMAIN Found(items, entity) = DOMAIN items
    BY <2>1, <2>2, ListOf
  <2>5. \A k \in DOMAIN items : IsFound(Found(items, entity)[k]) /\ Found(items, entity)[k].val = items[k].val
    BY <2>1, <2>3 DEF IsFound
  <2> QED BY <2>4, <2>5
<1>4. /\ FoundList(jobs) /\ DOMAIN jobs = DOMAIN candidate.jobs
      /\ \A k \in DOMAIN jobs : jobs[k].val = candidate.jobs[k].val
      /\ FoundList(exps) /\ DOMAIN exps = DOMAIN candidate.exps
      /\ \A k \in DOMAIN exps : exps[k].val = candidate.exps[k].val
  <2> HIDE DEF Found
  <2>1. FoundList(candidate.jobs) /\ FoundList(candidate.exps)
    BY <1>2 DEF IsCandidate, Range
  <2> HIDE DEF FoundList
  <2> QED BY <1>3, <2>1
<1> HIDE DEF jobs, exps
<1>5. /\ DOMAIN c = DOMAIN candidate /\ c.jobs = jobs /\ c.exps = exps /\ c.scalars = candidate.scalars
      /\ c.skills = candidate.skills /\ c.rows = candidate.rows
  BY <1>2 DEF IsCandidate
<1> HIDE DEF c
<1>6. IsCandidate(c)
  <2>1. \A x \in Range(c.jobs) \cup Range(c.skills) \cup Range(c.exps) : IsFound(x)
    BY <1>2, <1>4, <1>5 DEF IsCandidate, Range
  <2>2. IsList(c.jobs) /\ IsList(c.exps)
    BY <1>4, <1>5
  <2> HIDE DEF FoundList
  <2> QED BY <1>2, <1>5, <2>1, <2>2 DEF IsCandidate
<1>7. DOMAIN diffs = 1..Len(diffs) /\ \A k \in DOMAIN diffs : WellFormed(diffs[k]) /\ From(diffs[k], candidate)
  BY ListFacts DEF ReviewInv, Diffs
<1>8. ASSUME NEW d, From(d, candidate) PROVE From(d, c)
  <2>1. \A e : /\ DOMAIN Items(c, e) = DOMAIN Items(candidate, e)
               /\ \A k \in DOMAIN Items(c, e) : Items(c, e)[k].val = Items(candidate, e)[k].val
    BY <1>4, <1>5 DEF Items
  <2> QED BY <1>8, <2>1 DEF From
<1>9. ASSUME NEW d, WellFormed(d)
      PROVE  /\ WellFormed(With(d)) /\ (From(d, c) => From(With(d), c))
             /\ Fresh(d, profile) => Fresh(With(d), profile)
  <2> DEFINE e == With(d)
  <2>1. /\ DOMAIN e = DOMAIN d /\ e.entity = d.entity /\ e.field = d.field /\ e.target = d.target
        /\ e.old = d.old /\ e.new = d.new /\ e.idx = d.idx /\ e.change = d.change
        /\ e.status = d.status /\ e.decided = d.decided
    BY <1>8 DEF WellFormed
  <2> HIDE DEF e
  <2>2. WellFormed(e)
    BY <1>9, <2>1 DEF WellFormed, IsProjectRoot
  <2>3. (From(d, c) => From(e, c)) /\ (Fresh(d, profile) => Fresh(e, profile))
    BY <2>1, SameItem
  <2> QED BY <2>2, <2>3 DEF e
<1> HIDE DEF With, slots
<1>10. Numbered(new, Len(diffs)) /\ \A k \in DOMAIN diffs : new[k] = With(diffs[k]) \/ new[k] = diffs[k]
  BY <1>7 DEF Numbered
<1> HIDE DEF new
<1>11. \A k \in DOMAIN diffs : /\ WellFormed(new[k]) /\ From(new[k], c)
                               /\ Fresh(diffs[k], profile) => Fresh(new[k], profile)
  BY <1>7, <1>8, <1>9, <1>10
<1> QED BY <1>1, <1>6, <1>10, <1>11, RewrittenInv

-----------------------------------------------------------------------------
(* Edits by hand *)

\* An edit keeps the invariant when the links it leaves still point at something.
LEMMA EditInv ==
  ASSUME ReviewInv, NEW after, NEW forgotten, Edit(after, forgotten), IsProfile(after), RowsChecked(after),
         \A l \in links \ forgotten : l[1] \in TargetTypes /\ PointsAt(profile, l[1], l[2])
                                        => PointsAt(after, l[1], l[2])
  PROVE  ReviewInv'
<1>1. /\ profile' = after /\ version' = version + 1 /\ links' = links \ forgotten /\ outcome' = "none"
      /\ status' = status /\ base' = base /\ candidate' = candidate /\ diffs' = diffs
  BY DEF Edit, runVars
<1>2. version \in Nat /\ base \in Nat /\ base <= version /\ IsCandidate(candidate)
  BY DEF ReviewInv, Shaped
<1>3. version' \in Nat /\ base' <= version' /\ version' # base'
  BY <1>1, <1>2
<1>4. Shaped'
  BY <1>1, <1>2, <1>3 DEF Shaped
<1>5. Diffs'
  BY <1>1, <1>3 DEF ReviewInv, Diffs
<1>6. Links'
  BY <1>1 DEF ReviewInv, Links
<1>7. PreviewedDatesConfirm'
  BY <1>1 DEF PreviewedDatesConfirm
<1> QED BY <1>4, <1>5, <1>6, <1>7 DEF ReviewInv

\* An edit that leaves the rows alone leaves them checked.
LEMMA SameRowsChecked ==
  ASSUME ReviewInv, NEW q, q.rows = profile.rows
  PROVE  RowsChecked(q)
BY DEF ReviewInv, Shaped, RowsChecked

\* What keeps the part of the profile that a target is in keeps the target.
LEMMA SameTarget ==
  ASSUME NEW p, NEW q, NEW type \in TargetTypes, NEW x, PointsAt(p, type, x),
         type = "JOB" => q.jobs = p.jobs, type = "TECH" => q.skills = p.skills,
         type = "EXP" => q.exps = p.exps, type = "RELATION" => q.rels = p.rels,
         type \in Entities => q.rows = p.rows
  PROVE  PointsAt(q, type, x)
<1>1. CASE type \in {"PROFILE", "JOB", "TECH", "EXP"}
  BY <1>1 DEF PointsAt
<1>2. CASE type = "RELATION"
  BY <1>2 DEF PointsAt
<1>3. CASE type \in Entities
  BY <1>3 DEF PointsAt, Entities
<1> QED BY <1>1, <1>2, <1>3 DEF TargetTypes

LEMMA CreateByHandInv ==
  ASSUME ReviewInv, NEW n \in NewRows, CreateByHand(n[1], n[2])
  PROVE  ReviewInv'
<1> DEFINE e == n[1]
           id == profile.nextId
           rows == [profile.rows EXCEPT ![e] = SetDefault(@, id, n[2])]
           rels == IF e = "PROJECT" THEN SetDefault(profile.rels, id, {}) ELSE profile.rels
           q == [profile EXCEPT !.rows = rows, !.rels = rels, !.nextId = id + 1]
<1>1. e \in Entities /\ DOMAIN n[2] = Range(RowFields)
  BY ReviewAssumption
<1>2. IsProfile(profile)
  BY DEF ReviewInv, Shaped
<1>3. Edit(q, {})
  BY <1>2 DEF CreateByHand, IsProfile
<1>4. /\ DOMAIN q = DOMAIN profile /\ q.rows = rows /\ q.jobs = profile.jobs
      /\ q.rels = rels /\ q.skills = profile.skills /\ q.exps = profile.exps
      /\ q.scalars = profile.scalars /\ q.nextId = id + 1
  BY <1>2 DEF IsProfile
<1>5. /\ DOMAIN rows = Entities
      /\ \A x \in Entities : DOMAIN rows[x] = IF x = e THEN DOMAIN profile.rows[x] \cup {id}
                                              ELSE DOMAIN profile.rows[x]
  BY <1>2 DEF IsProfile, SetDefault, Put
<1>6. \A x \in Entities : \A y \in DOMAIN rows[x] :
        rows[x][y] = IF y \in DOMAIN profile.rows[x] THEN profile.rows[x][y] ELSE n[2]
  BY <1>2 DEF IsProfile, SetDefault, Put
<1>7. DOMAIN rels = DOMAIN rows["PROJECT"]
  BY <1>2, <1>5 DEF IsProfile, SetDefault, Put, Entities
<1>8. \A y \in DOMAIN profile.rels : y \in DOMAIN rels /\ rels[y] = profile.rels[y]
  BY DEF SetDefault, Put
<1> HIDE DEF q, rows, rels
<1>9. \A x \in Entities : \A y \in DOMAIN rows[x] : DOMAIN rows[x][y] = Range(RowFields)
  BY <1>1, <1>2, <1>5, <1>6 DEF IsProfile
<1>10. \A x \in Entities : DOMAIN profile.rows[x] \subseteq DOMAIN rows[x]
  BY <1>5
<1>11. q.nextId \in Nat
  BY <1>2, <1>4 DEF IsProfile
<1>12. \A x \in Entities : \A y \in DOMAIN q.rows[x] : y \in Nat /\ y < q.nextId
  <2>1. id \in Nat /\ \A x \in Entities : \A y \in DOMAIN profile.rows[x] : y \in Nat /\ y < id
    BY <1>2 DEF IsProfile
  <2>2. \A x \in Entities : DOMAIN rows[x] \subseteq DOMAIN profile.rows[x] \cup {id}
    BY <1>5
  <2> HIDE DEF id
  <2> QED BY <1>4, <2>1, <2>2
<1>13. IsProfile(q) /\ Grows(profile, q)
  BY <1>2, <1>4, <1>5, <1>7, <1>8, <1>9, <1>10, <1>11, <1>12, RowsReplaced
<1>14. RowsChecked(q)
  <2>1. RowError(n[2]) = "none" /\ RowsChecked(profile)
    BY DEF CreateByHand, ReviewInv, Shaped
  <2> QED BY <1>4, <1>6, <2>1 DEF RowsChecked
<1> QED BY <1>3, <1>13, <1>14, StillPointsAt, EditInv

LEMMA UpdateByHandInv ==
  ASSUME ReviewInv, NEW e \in Entities, NEW id \in DOMAIN profile.rows[e], NEW field, NEW value,
         UpdateByHand(e, id, field, value)
  PROVE  ReviewInv'
<1> DEFINE row == [profile.rows[e][id] EXCEPT ![field] = value]
           rows == [profile.rows EXCEPT ![e] = [@ EXCEPT ![id] = row]]
           q == [profile EXCEPT !.rows = rows]
<1>1. IsProfile(profile)
  BY DEF ReviewInv, Shaped
<1>2. DOMAIN row = Range(RowFields)
  BY <1>1 DEF IsProfile
<1>3. Edit(q, LinksTo(e, {id})) /\ RowError(row) = "none"
  BY DEF UpdateByHand
<1> HIDE DEF row
<1>4. /\ DOMAIN q = DOMAIN profile /\ q.rows = rows /\ q.jobs = profile.jobs
      /\ q.rels = profile.rels /\ q.skills = profile.skills /\ q.exps = profile.exps
      /\ q.nextId = profile.nextId
  BY <1>1 DEF IsProfile
<1>5. /\ DOMAIN rows = Entities
      /\ \A x \in Entities : DOMAIN rows[x] = DOMAIN profile.rows[x]
      /\ \A x \in Entities : \A y \in DOMAIN rows[x] :
           rows[x][y] = IF x = e /\ y = id THEN row ELSE profile.rows[x][y]
  BY <1>1 DEF IsProfile
<1> HIDE DEF q, rows
<1>6. \A x \in Entities : \A y \in DOMAIN rows[x] : DOMAIN rows[x][y] = Range(RowFields)
  BY <1>1, <1>2, <1>5 DEF IsProfile
<1>7. DOMAIN q.rels = DOMAIN q.rows["PROJECT"]
  BY <1>1, <1>4, <1>5 DEF IsProfile, Entities
<1>8. q.nextId \in Nat /\ \A x \in Entities : \A y \in DOMAIN q.rows[x] : y \in Nat /\ y < q.nextId
  BY <1>1, <1>4, <1>5 DEF IsProfile
<1>9. /\ \A y \in DOMAIN profile.rels : y \in DOMAIN q.rels /\ q.rels[y] = profile.rels[y]
      /\ \A x \in Entities : DOMAIN profile.rows[x] \subseteq DOMAIN q.rows[x]
      /\ DOMAIN q.rows = Entities
      /\ \A x \in Entities : \A y \in DOMAIN q.rows[x] : DOMAIN q.rows[x][y] = Range(RowFields)
  BY <1>4, <1>5, <1>6
<1>10. IsProfile(q) /\ Grows(profile, q)
  BY <1>1, <1>4, <1>7, <1>8, <1>9, RowsReplaced
<1>11. RowsChecked(q)
  <2>1. RowsChecked(profile)
    BY DEF ReviewInv, Shaped
  <2> QED BY <1>3, <1>4, <1>5, <2>1 DEF RowsChecked
<1> QED BY <1>3, <1>10, <1>11, StillPointsAt, EditInv

LEMMA ReplaceRelationsInv ==
  ASSUME ReviewInv, NEW id \in DOMAIN profile.rels, NEW rels, ReplaceRelations(id, rels)
  PROVE  ReviewInv'
<1> DEFINE new == [profile.rels EXCEPT ![id] = rels]
           q == [profile EXCEPT !.rels = new]
           forgotten == LinksTo("PROJECT", {id})
<1>1. IsProfile(profile)
  BY DEF ReviewInv, Shaped
<1>2. Edit(q, forgotten)
  BY DEF ReplaceRelations
<1>3. /\ DOMAIN q = DOMAIN profile /\ q.rels = new /\ q.rows = profile.rows /\ q.jobs = profile.jobs
      /\ q.skills = profile.skills /\ q.exps = profile.exps /\ q.nextId = profile.nextId
  BY <1>1 DEF IsProfile
<1>4. DOMAIN new = DOMAIN profile.rels /\ \A y \in DOMAIN new : y # id => new[y] = profile.rels[y]
  OBVIOUS
<1> HIDE DEF q, new
<1>5. IsProfile(q)
  BY <1>1, <1>3, <1>4 DEF IsProfile
<1>6. ASSUME NEW l \in links \ forgotten, l[1] \in TargetTypes, PointsAt(profile, l[1], l[2])
      PROVE  PointsAt(q, l[1], l[2])
  <2>1. CASE l[1] = "RELATION"
    <3>1. l[2][1] # id
      BY <1>6, <2>1 DEF LinksTo
    <3> QED BY <1>3, <1>4, <1>6, <2>1, <3>1 DEF PointsAt
  <2>2. CASE l[1] # "RELATION"
    BY <1>3, <1>6, <2>2, SameTarget
  <2> QED BY <2>1, <2>2
<1> QED BY <1>2, <1>3, <1>5, <1>6, SameRowsChecked, EditInv

LEMMA DeleteByHandInv ==
  ASSUME ReviewInv, NEW e \in Entities, NEW id \in DOMAIN profile.rows[e], DeleteByHand(e, id)
  PROVE  ReviewInv'
<1> DEFINE Without(f) == [x \in DOMAIN f \ {id} |-> f[x]]
           rows == [profile.rows EXCEPT ![e] = Without(@)]
           rels == IF e = "PROJECT" THEN Without(profile.rels) ELSE profile.rels
           q == [profile EXCEPT !.rows = rows, !.rels = rels]
           forgotten == LinksTo(e, {id})
<1>1. IsProfile(profile)
  BY DEF ReviewInv, Shaped
<1>2. Edit(q, forgotten)
  BY <1>1 DEF DeleteByHand, IsProfile
<1>3. /\ DOMAIN q = DOMAIN profile /\ q.rels = rels /\ q.rows = rows /\ q.jobs = profile.jobs
      /\ q.skills = profile.skills /\ q.exps = profile.exps /\ q.nextId = profile.nextId
  BY <1>1 DEF IsProfile
<1>4. /\ DOMAIN rows = Entities
      /\ \A x \in Entities : DOMAIN rows[x] = IF x = e THEN DOMAIN profile.rows[x] \ {id} ELSE DOMAIN profile.rows[x]
      /\ \A x \in Entities : \A y \in DOMAIN rows[x] : rows[x][y] = profile.rows[x][y]
  BY <1>1 DEF IsProfile
<1>5. /\ DOMAIN rels = IF e = "PROJECT" THEN DOMAIN profile.rels \ {id} ELSE DOMAIN profile.rels
      /\ \A y \in DOMAIN rels : rels[y] = profile.rels[y]
  OBVIOUS
<1> HIDE DEF q, rows, rels
<1>6. IsProfile(q)
  <2>1. DOMAIN q.rels = DOMAIN q.rows["PROJECT"]
    BY <1>1, <1>3, <1>4, <1>5 DEF IsProfile, Entities
  <2>2. ASSUME NEW x \in Entities, NEW y \in DOMAIN rows[x] PROVE DOMAIN rows[x][y] = Range(RowFields)
    <3>1. y \in DOMAIN profile.rows[x] /\ rows[x][y] = profile.rows[x][y]
      BY <1>4
    <3> QED BY <1>1, <3>1 DEF IsProfile
  <2>3. \A x \in Entities : \A y \in DOMAIN rows[x] : y \in Nat /\ y < profile.nextId
    BY <1>1, <1>4 DEF IsProfile
  <2> QED BY <1>1, <1>3, <1>4, <2>1, <2>2, <2>3 DEF IsProfile
<1>7. ASSUME NEW l \in links \ forgotten, l[1] \in TargetTypes, PointsAt(profile, l[1], l[2])
      PROVE  PointsAt(q, l[1], l[2])
  <2>1. CASE l[1] = "RELATION"
    <3>1. e = "PROJECT" => l[2][1] # id
      BY <1>7, <2>1 DEF LinksTo
    <3> QED BY <1>3, <1>5, <1>7, <2>1, <3>1 DEF PointsAt
  <2>2. CASE l[1] \in Entities
    <3>1. l[1] = e => l[2] # id
      BY <1>7, <2>2 DEF LinksTo
    <3>2. l[2] \in DOMAIN profile.rows[l[1]]
      BY <1>7, <2>2 DEF PointsAt, Entities
    <3>3. l[2] \in DOMAIN q.rows[l[1]]
      BY <1>3, <1>4, <2>2, <3>1, <3>2
    <3> QED BY <2>2, <3>3, PointsAtRow
  <2>3. CASE l[1] \notin Entities \cup {"RELATION"}
    BY <1>3, <1>7, <2>3, SameTarget
  <2> QED BY <2>1, <2>2, <2>3
<1>8. RowsChecked(q)
  <2>1. RowsChecked(profile)
    BY DEF ReviewInv, Shaped
  <2>2. ASSUME NEW x \in Entities, NEW y \in DOMAIN rows[x] PROVE RowError(rows[x][y]) = "none"
    <3>1. y \in DOMAIN profile.rows[x] /\ rows[x][y] = profile.rows[x][y]
      BY <1>4
    <3> QED BY <2>1, <3>1 DEF RowsChecked
  <2> QED BY <1>3, <2>2 DEF RowsChecked
<1> QED BY <1>2, <1>6, <1>7, <1>8, EditInv

LEMMA UpdateProfileInv ==
  ASSUME ReviewInv, NEW field, NEW value, UpdateProfile(field, value)
  PROVE  ReviewInv'
<1> DEFINE q == [profile EXCEPT !.scalars[field] = value]
           forgotten == IF profile.scalars[field] = value THEN {}
                        ELSE {l \in LinksTo("PROFILE", {Null}) : l[3] = field}
<1>1. IsProfile(profile)
  BY DEF ReviewInv, Shaped
<1>2. Edit(q, forgotten)
  BY DEF UpdateProfile
<1>3. /\ DOMAIN q = DOMAIN profile /\ q.rels = profile.rels /\ q.rows = profile.rows /\ q.jobs = profile.jobs
      /\ q.skills = profile.skills /\ q.exps = profile.exps /\ q.nextId = profile.nextId
  BY <1>1 DEF IsProfile
<1> HIDE DEF q, forgotten
<1>4. IsProfile(q)
  BY <1>1, <1>3 DEF IsProfile
<1>5. Grows(profile, q)
  BY <1>3 DEF Grows
<1> QED BY <1>2, <1>3, <1>4, <1>5, SameRowsChecked, StillPointsAt, EditInv

LEMMA ReplaceJobsInv ==
  ASSUME ReviewInv, NEW jobs, ReplaceJobs(jobs)
  PROVE  ReviewInv'
<1> DEFINE q == [profile EXCEPT !.jobs = jobs]
           forgotten == LinksTo("JOB", profile.jobs)
<1>1. IsProfile(profile)
  BY DEF ReviewInv, Shaped
<1>2. Edit(q, forgotten)
  BY DEF ReplaceJobs
<1>3. /\ DOMAIN q = DOMAIN profile /\ q.rels = profile.rels /\ q.rows = profile.rows
      /\ q.skills = profile.skills /\ q.exps = profile.exps /\ q.nextId = profile.nextId
  BY <1>1 DEF IsProfile
<1> HIDE DEF q
<1>4. IsProfile(q)
  BY <1>1, <1>3 DEF IsProfile
<1>5. ASSUME NEW l \in links \ forgotten, l[1] \in TargetTypes, PointsAt(profile, l[1], l[2])
      PROVE  PointsAt(q, l[1], l[2])
  <2>1. l[1] # "JOB"
    BY <1>5 DEF LinksTo, PointsAt
  <2> QED BY <1>3, <1>5, <2>1, SameTarget
<1> QED BY <1>2, <1>3, <1>4, <1>5, SameRowsChecked, EditInv

LEMMA ReplaceSkillsInv ==
  ASSUME ReviewInv, NEW skills, ReplaceSkills(skills)
  PROVE  ReviewInv'
<1> DEFINE q == [profile EXCEPT !.skills = skills]
           forgotten == LinksTo("TECH", DOMAIN profile.skills)
<1>1. IsProfile(profile)
  BY DEF ReviewInv, Shaped
<1>2. Edit(q, forgotten)
  BY DEF ReplaceSkills
<1>3. /\ DOMAIN q = DOMAIN profile /\ q.rels = profile.rels /\ q.rows = profile.rows
      /\ q.jobs = profile.jobs /\ q.exps = profile.exps /\ q.nextId = profile.nextId
  BY <1>1 DEF IsProfile
<1> HIDE DEF q
<1>4. IsProfile(q)
  BY <1>1, <1>3 DEF IsProfile
<1>5. ASSUME NEW l \in links \ forgotten, l[1] \in TargetTypes, PointsAt(profile, l[1], l[2])
      PROVE  PointsAt(q, l[1], l[2])
  <2>1. l[1] # "TECH"
    BY <1>5 DEF LinksTo, PointsAt
  <2> QED BY <1>3, <1>5, <2>1, SameTarget
<1> QED BY <1>2, <1>3, <1>4, <1>5, SameRowsChecked, EditInv

LEMMA ReplaceExpertiseInv ==
  ASSUME ReviewInv, NEW exps, ReplaceExpertise(exps)
  PROVE  ReviewInv'
<1> DEFINE q == [profile EXCEPT !.exps = exps]
           forgotten == LinksTo("EXP", DOMAIN profile.exps)
<1>1. IsProfile(profile)
  BY DEF ReviewInv, Shaped
<1>2. Edit(q, forgotten)
  BY DEF ReplaceExpertise
<1>3. /\ DOMAIN q = DOMAIN profile /\ q.rels = profile.rels /\ q.rows = profile.rows
      /\ q.jobs = profile.jobs /\ q.skills = profile.skills /\ q.nextId = profile.nextId
  BY <1>1 DEF IsProfile
<1> HIDE DEF q
<1>4. IsProfile(q)
  BY <1>1, <1>3 DEF IsProfile
<1>5. ASSUME NEW l \in links \ forgotten, l[1] \in TargetTypes, PointsAt(profile, l[1], l[2])
      PROVE  PointsAt(q, l[1], l[2])
  <2>1. l[1] # "EXP"
    BY <1>5 DEF LinksTo, PointsAt
  <2> QED BY <1>3, <1>5, <2>1, SameTarget
<1> QED BY <1>2, <1>3, <1>4, <1>5, SameRowsChecked, EditInv

LEMMA DeactivateCodeInv ==
  ASSUME ReviewInv, NEW c, DeactivateCode(c)
  PROVE  ReviewInv'
<1>1. /\ profile' = profile /\ version' = version /\ links' = links /\ outcome' = "none"
      /\ status' = status /\ base' = base /\ candidate' = candidate /\ diffs' = diffs
  BY DEF DeactivateCode, runVars
<1> QED BY <1>1 DEF ReviewInv, Shaped, Diffs, Links, PreviewedDatesConfirm

-----------------------------------------------------------------------------
(* Every step *)

LEMMA InitInv == Init => ReviewInv
<1> SUFFICES ASSUME Init PROVE ReviewInv
  OBVIOUS
<1>1. /\ profile = Initial /\ version = 1 /\ status = "NONE" /\ base = 0 /\ candidate = None
      /\ diffs = <<>> /\ links = {} /\ outcome = "none"
  BY DEF Init
<1>2. IsCandidate(None)
  <2>1. IsList(<<>>) /\ DOMAIN <<>> = {} /\ Range(<<>>) = {}
    BY DEF IsList, Range
  <2>2. /\ DOMAIN None = {"scalars", "jobs", "skills", "exps", "rows"} /\ DOMAIN None.rows = Entities
        /\ None.scalars = <<>> /\ None.jobs = <<>> /\ None.skills = <<>> /\ None.exps = <<>>
        /\ \A e \in Entities : None.rows[e] = <<>>
    BY DEF None
  <2>3. "PROJECT" \in Entities
    BY DEF Entities
  <2> QED BY <2>1, <2>2, <2>3 DEF IsCandidate
<1>3. Shaped
  BY <1>1, <1>2, ReviewAssumption DEF Shaped, RowsChecked
<1>4. Diffs
  BY <1>1 DEF Diffs, IsList
<1> QED BY <1>1, <1>3, <1>4 DEF ReviewInv, Links, PreviewedDatesConfirm

\* Only a confirmation takes a run under review to CONFIRMED.
LEMMA OnlyConfirmConfirms ==
  ASSUME status' = status \/ status' \in {"REVIEWING", "CANCELLED"}
  PROVE  ~Confirming
BY DEF Confirming

LEMMA EditConfirmsNothing ==
  ASSUME NEW after, NEW forgotten, Edit(after, forgotten)
  PROVE  ~Confirming
BY DEF Edit, runVars, Confirming

LEMMA StepInv ==
  ASSUME ReviewInv, [Next]_vars
  PROVE  /\ ReviewInv'
         /\ Confirming => Confirmed(diffs, profile, profile') /\ NotAgain(diffs, candidate, profile')
<1>1. CASE \E k \in DOMAIN Candidates, raw \in BOOLEAN : Analyse(Candidates[k], raw)
  <2>1. ReviewInv'
    BY <1>1, AnalyseInv
  <2>2. status' = "REVIEWING"
    BY <1>1 DEF Analyse
  <2> QED BY <2>1, <2>2, OnlyConfirmConfirms
<1>2. CASE CancelReview
  <2>1. status' = "CANCELLED"
    BY <1>2 DEF CancelReview
  <2> QED BY <1>2, <2>1, CancelInv, OnlyConfirmConfirms
<1>3. CASE \E i \in DOMAIN diffs : \E r \in Requests(diffs[i]) : ReviewOne(i, r)
  <2>1. status' = status
    BY <1>3 DEF ReviewOne
  <2> QED BY <1>3, <2>1, ReviewOneInv, OnlyConfirmConfirms
<1>4. CASE \E n \in 1..MaxSelected : \E selected \in kSubset(n, DOMAIN diffs),
             s \in {"ACCEPTED", "REJECTED", "PENDING"}, allow \in BOOLEAN : BulkReview(selected, s, allow)
  <2>1. status' = status
    BY <1>4 DEF BulkReview
  <2> QED BY <1>4, <2>1, BulkReviewInv, OnlyConfirmConfirms
<1>5. CASE GuardRefresh
  <2>1. status' = status
    BY <1>5 DEF GuardRefresh
  <2> QED BY <1>5, <2>1, GuardRefreshInv, OnlyConfirmConfirms
<1>6. CASE RecoverRoots
  <2>1. status' = status
    BY <1>6 DEF RecoverRoots
  <2> QED BY <1>6, <2>1, RecoverRootsInv, OnlyConfirmConfirms
<1>7. CASE Confirm
  BY <1>7, ConfirmKeeps
<1>8. CASE \E n \in NewRows : CreateByHand(n[1], n[2])
  <2>1. status' = status
    BY <1>8 DEF CreateByHand, Edit, runVars
  <2> QED BY <1>8, <2>1, CreateByHandInv, OnlyConfirmConfirms
<1>9. CASE \E e \in FieldEdits : \E id \in DOMAIN profile.rows[e[1]] : UpdateByHand(e[1], id, e[2], e[3])
  <2>1. PICK e \in FieldEdits : \E id \in DOMAIN profile.rows[e[1]] : UpdateByHand(e[1], id, e[2], e[3])
    BY <1>9
  <2>2. PICK id \in DOMAIN profile.rows[e[1]] : UpdateByHand(e[1], id, e[2], e[3])
    BY <2>1
  <2>3. e[1] \in Entities
    BY ReviewAssumption
  <2> QED BY <2>2, <2>3, UpdateByHandInv, EditConfirmsNothing DEF UpdateByHand
<1>10. CASE \E entity \in Entities : \E id \in DOMAIN profile.rows[entity] : DeleteByHand(entity, id)
  <2>1. status' = status
    BY <1>10 DEF DeleteByHand, Edit, runVars
  <2> QED BY <1>10, <2>1, DeleteByHandInv, OnlyConfirmConfirms
<1>11. CASE \E e \in ScalarEdits : UpdateProfile(e[1], e[2])
  BY <1>11, UpdateProfileInv, EditConfirmsNothing DEF UpdateProfile
<1>12. CASE \E jobs \in JobSets : ReplaceJobs(jobs)
  BY <1>12, ReplaceJobsInv, EditConfirmsNothing DEF ReplaceJobs
<1>13. CASE \E skills \in SkillSets : ReplaceSkills(skills)
  BY <1>13, ReplaceSkillsInv, EditConfirmsNothing DEF ReplaceSkills
<1>14. CASE \E exps \in ExpertiseSets : ReplaceExpertise(exps)
  BY <1>14, ReplaceExpertiseInv, EditConfirmsNothing DEF ReplaceExpertise
<1>15. CASE \E c \in Retirable : DeactivateCode(c)
  <2>1. status' = status
    BY <1>15 DEF DeactivateCode, runVars
  <2> QED BY <1>15, <2>1, DeactivateCodeInv, OnlyConfirmConfirms
<1>16. CASE \E id \in DOMAIN profile.rels, rels \in RelationSets : ReplaceRelations(id, rels)
  BY <1>16, ReplaceRelationsInv, EditConfirmsNothing DEF ReplaceRelations
<1>17. CASE UNCHANGED vars
  <2>1. status' = status
    BY <1>17 DEF vars
  <2>2. ReviewInv'
    BY <1>17 DEF vars, ReviewInv, Shaped, Diffs, Links, PreviewedDatesConfirm
  <2> QED BY <2>1, <2>2, OnlyConfirmConfirms
<1> QED BY <1>1, <1>2, <1>3, <1>4, <1>5, <1>6, <1>7, <1>8, <1>9, <1>10, <1>11, <1>12,
           <1>13, <1>14, <1>15, <1>16, <1>17 DEF Next

\* The invariant behind the three theorems that follow.
THEOREM ReviewInvariant == Spec => []ReviewInv
<1>1. ReviewInv /\ [Next]_vars => ReviewInv'
  BY StepInv
<1> QED BY InitInv, <1>1, PTL DEF Spec

\* Whatever is confirmed, edited or deleted by hand, in any order, no evidence
\* link is left that names a row, a code or a relation which the profile no
\* longer has (confirm.py, ProfileService, PersonEvidenceService).
THEOREM LinksNeverDangle == Spec => []LinksPointAtRows
<1>1. ReviewInv => LinksPointAtRows
  <2> SUFFICES ASSUME ReviewInv, NEW l \in links
               PROVE  CASE l[1] = "PROFILE"  -> TRUE
                        [] l[1] = "JOB"      -> l[2] \in profile.jobs
                        [] l[1] = "TECH"     -> l[2] \in DOMAIN profile.skills
                        [] l[1] = "EXP"      -> l[2] \in DOMAIN profile.exps
                        [] l[1] = "RELATION" -> <<l[2][2], l[2][3]>> \in profile.rels[l[2][1]]
                        [] OTHER             -> l[2] \in DOMAIN profile.rows[l[1]]
    BY Zenon DEF LinksPointAtRows
  <2>1. l[1] \in TargetTypes /\ PointsAt(profile, l[1], l[2])
    BY DEF ReviewInv, Links
  <2>2. CASE l[1] \in {"PROFILE", "JOB", "TECH", "EXP"}
    BY <2>1, <2>2 DEF PointsAt
  <2>3. CASE l[1] = "RELATION"
    BY <2>1, <2>3 DEF PointsAt
  <2>4. CASE l[1] \in Entities
    BY <2>1, <2>4 DEF PointsAt, Entities
  <2> QED BY <2>1, <2>2, <2>3, <2>4 DEF TargetTypes
<1> QED BY <1>1, ReviewInvariant, PTL

\* The application refuses a date that the preview let pass only at the end of a
\* project that goes on, where it is really written, or in the correction of a
\* merge; and it refuses the order of a start and an end only where the row it
\* was about has them from two places, itself and a decision or two decisions, or
\* from one correction (confirm_dates.py, confirm.py).
THEOREM PreviewIsHonest == Spec => []PreviewedDatesConfirm
<1>1. ReviewInv => PreviewedDatesConfirm
  BY DEF ReviewInv
<1> QED BY <1>1, ReviewInvariant, PTL

\* A confirmation removes nothing from the profile, and every value it replaces
\* was decided by a reviewer who was shown the value replaced, whatever was
\* extracted, decided, recovered, refreshed and edited before (confirm.py,
\* merge_project.py, diff_engine.py).
THEOREM ConfirmationChangesWhatWasReviewed == Spec => OnlyReviewedChanges
<1>1. ReviewInv /\ [Next]_vars => [Confirming => Confirmed(diffs, profile, profile')]_vars
  BY StepInv
<1>2. [Confirming => Confirmed(diffs, profile, profile')]_vars
        => [Confirming =>
              /\ \A e \in Entities : \A id \in DOMAIN profile.rows[e] :
                   /\ id \in DOMAIN profile'.rows[e]
                   /\ \A f \in Range(RowFields) : LET old == profile.rows[e][id][f] IN
                        profile'.rows[e][id][f] # old
                          => \E i \in DOMAIN diffs : Decides(diffs[i], e, id, f, old)
              /\ \A f \in DOMAIN profile.scalars : LET old == profile.scalars[f] IN
                   profile'.scalars[f] # old
                     => \E i \in DOMAIN diffs : /\ Applies(diffs[i]) /\ diffs[i].entity = "PROFILE"
                                                /\ diffs[i].field = f /\ diffs[i].old = old
              /\ profile.jobs \subseteq profile'.jobs
              /\ \A p \in DOMAIN profile.rels : profile.rels[p] \subseteq profile'.rels[p]
              /\ Untouched(profile.skills, profile'.skills,
                           LAMBDA c : \E i \in DOMAIN diffs : AppliesTo(diffs[i], "TECH", c))
              /\ Untouched(profile.exps, profile'.exps,
                           LAMBDA c : \E i \in DOMAIN diffs : AppliesTo(diffs[i], "EXP", c))]_vars
  BY DEF Confirmed
<1> QED BY <1>1, <1>2, ReviewInvariant, PTL DEF Spec, OnlyReviewedChanges

\* When the documents of a confirmed run are analysed again, nothing that was
\* accepted from them is proposed as NEW: the diff engine finds what the confirm
\* step made of the item, its dates read as days included (diff_engine.py,
\* confirm_dates.py, confirm.py).
THEOREM AcceptedIsNotProposedAgain == Spec => NothingNewTwice
<1>1. ReviewInv /\ [Next]_vars => [Confirming => NotAgain(diffs, candidate, profile')]_vars
  BY StepInv
<1>2. [Confirming => NotAgain(diffs, candidate, profile')]_vars
        => [Confirming =>
              LET again == BuildDiffs(candidate, profile')
                  Dotless(v) == \A f \in DateFields : v[f] = Null \/ v[f].form # "dot"
                  Single(i) == \A k \in DOMAIN diffs \ {i} :
                    ~(Applies(diffs[k]) /\ diffs[k].entity = diffs[i].entity /\ diffs[k].target = diffs[i].target)
              IN  \A i \in DOMAIN diffs, j \in DOMAIN again :
                    /\ diffs[i].status = "ACCEPTED" /\ diffs[i].field = Null
                    /\ again[j].entity = diffs[i].entity /\ again[j].idx = diffs[i].idx
                    /\ again[j].field = Null
                    /\ diffs[i].entity \in Entities \ {"PROJECT"} =>
                         Dotless(diffs[i].new) /\ (diffs[i].target = Null \/ Single(i))
                    => again[j].change # "NEW"]_vars
  BY Zenon DEF NotAgain, Undotted, Alone
<1> QED BY <1>1, <1>2, ReviewInvariant, PTL DEF Spec, NothingNewTwice

=============================================================================
