--------------------------- MODULE ExtractionProofs ---------------------------
(***************************************************************************)
(* What is proved of every execution of an analysis, for any source, any   *)
(* routes and any limits: it is never refused a call it still wants, and a *)
(* result that is kept was read from the whole prompt source; and of the   *)
(* candidate that is built from the answers, whatever they are: every      *)
(* guarded job code in it is quoted, nothing that a chunk found is lost,   *)
(* and the order of the chunks does not matter. The first two rest on the  *)
(* budget and the reading below. The last three rest on CandidateInv:      *)
(* every part is as it was cleaned, and every row of a stage stands for    *)
(* rows of the parts.                                                      *)
(***************************************************************************)
EXTENDS Extraction, CandidateBuild, FiniteSetTheorems, WellFoundedInduction, TLAPS

Modes  == {"single", "staged", "compact"}
Phases == Extracting \cup {"building", "second", "succeeded", "failed"}
Steps  == {"none", "count", "ask", "recover", "leaves"}

-----------------------------------------------------------------------------
(* The call budget. *)

\* Until a phase has gone over to its split, the calls made and the recovery
\* call left are one together in CORE and two in PROJECTS; the call that leads
\* to a split is one more.
Budget ==
  /\ calls \in Nat /\ recovery \in {0, 1}
  /\ phase = "building" => calls = 0 /\ recovery = 1
  /\ phase = "core" => calls + recovery <= 2
  /\ phase = "core" /\ step # "leaves" => calls + recovery <= 1
  /\ phase = "projects" => calls + recovery <= 3
  /\ phase = "projects" /\ step # "leaves" => calls + recovery <= 2
  /\ phase = "second" => calls < StagedCalls

\* What a phase that is complete leads to.
LEMMA AfterComplete ==
  ASSUME phase \in Extracting, NEW isSplit, NEW left, NEW made, NEW n,
         Complete(isSplit, left, made, n)
  PROVE  \/ phase' = "failed"
         \/ phase' = "succeeded" /\ (phase = "core" => source.mode = "single")
         \/ /\ phase = "core" /\ phase' = "projects" /\ recovery' = left
            /\ step' \in {"count", "ask"} /\ (step' = "count" => source.mode = "compact")
         \/ /\ phase = "projects" /\ phase' = "second"
            /\ left > 0 /\ made < StagedCalls /\ recovery' = left - 1 /\ step' = "ask"
<1>1. CASE phase = "core" /\ NeedsRetry("core", n)
  BY <1>1 DEF Complete
<1>2. CASE phase = "core" /\ ~NeedsRetry("core", n)
  BY <1>2 DEF Complete
<1>3. CASE phase = "projects" /\ SecondPassWanted(isSplit, left, made)
  BY <1>3 DEF Complete, SecondPassWanted
<1>4. CASE phase = "projects" /\ ~SecondPassWanted(isSplit, left, made)
  BY <1>4 DEF Complete
<1> QED BY <1>1, <1>2, <1>3, <1>4 DEF Extracting

\* An answer to the whole prompt is asked for again with the recovery call, or
\* completes the phase.
LEMMA AfterAnswer ==
  ASSUME phase \in Extracting, NEW n, Answered(n)
  PROVE  \/ /\ step = "ask" /\ recovery > 0
            /\ step' = "recover" /\ recovery' = recovery - 1 /\ phase' = phase
         \/ Complete(FALSE, recovery, calls', n)
BY DEF Answered

\* A split leaves the budget alone.
LEMMA AfterSplit ==
  ASSUME NEW blocks, EnterSplit(blocks)
  PROVE  \/ phase' = "failed" /\ recovery' = recovery
         \/ phase' = phase /\ step' = "leaves" /\ recovery' = recovery
BY DEF EnterSplit, Fail

LEMMA CompleteKeepsRecovery ==
  ASSUME phase \in Extracting, recovery \in {0, 1}, NEW isSplit, NEW made, NEW n,
         Complete(isSplit, recovery, made, n)
  PROVE  recovery' \in {0, 1}
<1>1. CASE phase = "core" /\ NeedsRetry("core", n)
  BY <1>1 DEF Complete
<1>2. CASE phase = "core" /\ ~NeedsRetry("core", n)
  BY <1>2 DEF Complete
<1>3. CASE phase = "projects" /\ SecondPassWanted(isSplit, recovery, made)
  BY <1>3 DEF Complete, SecondPassWanted
<1>4. CASE phase = "projects" /\ ~SecondPassWanted(isSplit, recovery, made)
  BY <1>4 DEF Complete
<1> QED BY <1>1, <1>2, <1>3, <1>4 DEF Extracting

\* A call about the whole prompt was within the budget.
LEMMA CallWithinBudget ==
  ASSUME Budget, phase \in Extracting, step \in {"ask", "recover"}, calls' = calls + 1,
         \/ \E n \in 0..2 : Answered(n)
         \/ step = "ask" /\ recovery > 0 /\ step' = "recover" /\ recovery' = recovery - 1
              /\ phase' = phase
         \/ \E blocks : EnterSplit(blocks)
         \/ Fail
  PROVE  Budget'
<1> USE DEF StagedCalls
<1>1. CASE \E n \in 0..2 : Answered(n)
  <2>1. PICK n \in 0..2 : Answered(n)
    BY <1>1
  <2>2. CASE /\ step = "ask" /\ recovery > 0
             /\ step' = "recover" /\ recovery' = recovery - 1 /\ phase' = phase
    BY <2>2 DEF Budget, Extracting
  <2>3. CASE Complete(FALSE, recovery, calls', n)
    <3>1. recovery' \in {0, 1}
      BY <2>3, CompleteKeepsRecovery DEF Budget
    <3>2. \/ phase' = "failed"
          \/ phase' = "succeeded"
          \/ /\ phase = "core" /\ phase' = "projects" /\ recovery' = recovery
             /\ step' \in {"count", "ask"}
          \/ phase' = "second" /\ calls' < StagedCalls
      BY <2>3, AfterComplete
    <3>3. CASE phase' = "failed" \/ phase' = "succeeded"
      <4>1. calls' \in Nat
        BY DEF Budget
      <4> HIDE DEF StagedCalls
      <4> QED BY <3>1, <3>3, <4>1 DEF Budget
    <3>4. CASE phase = "core" /\ phase' = "projects" /\ recovery' = recovery
      BY <3>1, <3>4 DEF Budget
    <3>5. CASE phase' = "second" /\ calls' < StagedCalls
      BY <3>1, <3>5 DEF Budget
    <3> QED BY <3>2, <3>3, <3>4, <3>5
  <2> QED BY <2>1, <2>2, <2>3, AfterAnswer
<1>2. CASE /\ step = "ask" /\ recovery > 0 /\ step' = "recover" /\ recovery' = recovery - 1
           /\ phase' = phase
  BY <1>2 DEF Budget, Extracting
<1>3. CASE \E blocks : EnterSplit(blocks)
  <2>1. \/ phase' = "failed" /\ recovery' = recovery
        \/ phase' = phase /\ step' = "leaves" /\ recovery' = recovery
    BY <1>3, AfterSplit
  <2> QED BY <2>1 DEF Budget, Extracting
<1>4. CASE Fail
  BY <1>4 DEF Budget, Fail
<1> QED BY <1>1, <1>2, <1>3, <1>4

\* A step inside a split makes no staged call, and stays in the split or fails.
LEMMA SplitStepWithinBudget ==
  ASSUME Budget, step = "leaves", calls' = calls, recovery' = recovery,
         phase' = "failed" \/ (phase' = phase /\ step' = step)
  PROVE  Budget'
BY DEF Budget

LEMMA ShrinkOrFailStays ==
  ASSUME NEW leaf, ShrinkOrFail(leaf)
  PROVE  recovery' = recovery /\ (phase' = "failed" \/ (phase' = phase /\ step' = step))
BY DEF ShrinkOrFail, Shrink, Fail

LEMMA AskLeafStays ==
  ASSUME AskLeaf
  PROVE  recovery' = recovery /\ (phase' = "failed" \/ (phase' = phase /\ step' = step))
<1> DEFINE leaf == Head(work)
<1>1. \/ Fail
      \/ RecountedOver(leaf)
      \/ AcceptLeaf
      \/ Shrink(leaf)
      \/ UNCHANGED <<phase, step, recovery>>
  BY DEF AskLeaf
<1>2. CASE Fail
  BY <1>2 DEF Fail
<1>3. CASE RecountedOver(leaf)
  BY <1>3, ShrinkOrFailStays DEF RecountedOver
<1>4. CASE AcceptLeaf
  BY <1>4 DEF AcceptLeaf
<1>5. CASE Shrink(leaf)
  BY <1>5 DEF Shrink
<1> QED BY <1>1, <1>2, <1>3, <1>4, <1>5

LEMMA BudgetStep ==
  ASSUME Budget, [Next]_vars
  PROVE  Budget'
<1>1. CASE BuildDocument \/ LoseDocument
  BY <1>1 DEF Budget, BuildDocument, LoseDocument, control
<1>2. CASE StartExtraction
  BY <1>2 DEF Budget, StartExtraction
<1>3. CASE AskPlain
  BY <1>3, CallWithinBudget DEF AskPlain
<1>4. CASE CountRoot
  <2>1. /\ phase \in Extracting /\ step = "count" /\ calls' = calls
        /\ \/ Fail
           \/ \E blocks : EnterSplit(blocks)
           \/ step' = "ask" /\ phase' = phase /\ recovery' = recovery
    BY <1>4 DEF CountRoot
  <2>2. CASE Fail
    BY <2>1, <2>2 DEF Budget, Fail
  <2>3. CASE \E blocks : EnterSplit(blocks)
    BY <2>1, <2>3, AfterSplit DEF Budget, Extracting
  <2>4. CASE step' = "ask" /\ phase' = phase /\ recovery' = recovery
    BY <2>1, <2>4 DEF Budget, Extracting
  <2> QED BY <2>1, <2>2, <2>3, <2>4
<1>5. CASE AskWhole
  BY <1>5, CallWithinBudget DEF AskWhole
<1>6. CASE MeasureLeaf
  <2>1. step = "leaves" /\ calls' = calls
    BY <1>6 DEF MeasureLeaf
  <2>2. recovery' = recovery /\ (phase' = "failed" \/ (phase' = phase /\ step' = step))
    BY <1>6, ShrinkOrFailStays DEF MeasureLeaf, Fail
  <2> QED BY <2>1, <2>2, SplitStepWithinBudget
<1>7. CASE AskLeaf
  <2>1. step = "leaves" /\ calls' = calls
    BY <1>7 DEF AskLeaf
  <2>2. recovery' = recovery /\ (phase' = "failed" \/ (phase' = phase /\ step' = step))
    BY <1>7, AskLeafStays
  <2> QED BY <2>1, <2>2, SplitStepWithinBudget
<1>8. CASE AskLeafAgain
  <2>1. step = "leaves" /\ calls' = calls
    BY <1>8 DEF AskLeafAgain
  <2>2. recovery' = recovery /\ (phase' = "failed" \/ (phase' = phase /\ step' = step))
    BY <1>8 DEF AskLeafAgain, AcceptLeaf, Fail
  <2> QED BY <2>1, <2>2, SplitStepWithinBudget
<1>9. CASE LeavesDone
  <2>1. /\ phase \in Extracting /\ step = "leaves" /\ calls' = calls
        /\ Complete(split, recovery, calls, items[phase])
    BY <1>9 DEF LeavesDone
  <2>2. recovery' \in {0, 1}
    BY <2>1, CompleteKeepsRecovery DEF Budget
  <2>3. \/ phase' = "failed"
        \/ phase' = "succeeded"
        \/ /\ phase = "core" /\ phase' = "projects" /\ recovery' = recovery
           /\ step' \in {"count", "ask"}
        \/ phase' = "second" /\ calls < StagedCalls
    BY <2>1, AfterComplete
  <2>4. CASE phase' = "failed" \/ phase' = "succeeded"
    BY <2>1, <2>2, <2>4 DEF Budget
  <2>5. CASE phase = "core" /\ phase' = "projects" /\ recovery' = recovery /\ step' \in {"count", "ask"}
    BY <2>1, <2>2, <2>5 DEF Budget
  <2>6. CASE phase' = "second" /\ calls < StagedCalls
    BY <2>1, <2>2, <2>6 DEF Budget
  <2> QED BY <2>2, <2>3, <2>4, <2>5, <2>6
<1>10. CASE AskSecond
  BY <1>10 DEF Budget, AskSecond
<1>11. CASE Drift
  BY <1>11 DEF Budget, Drift, control
<1>12. CASE UNCHANGED vars
  BY <1>12 DEF Budget, vars
<1> QED BY <1>1, <1>2, <1>3, <1>4, <1>5, <1>6, <1>7, <1>8, <1>9, <1>10, <1>11, <1>12
        DEF Next, Step

\* No path through the phases, the recovery call, the splits and the second
\* pass is refused a call by the staged budget (service.py:1519).
THEOREM CallsSuffice == Spec => []NeverOutOfCalls
<1>1. Init => Budget
  BY DEF Init, Budget
<1>2. Budget => NeverOutOfCalls
  BY DEF Budget, NeverOutOfCalls, Extracting, StagedCalls
<1> QED BY <1>1, <1>2, BudgetStep, PTL DEF Spec

-----------------------------------------------------------------------------
(* A block is a set of units of the source text. *)

Unit == (1..DocBound) \X (1..PageBound) \X Nat

-----------------------------------------------------------------------------
(* Lists.  A recursive function is defined on all of its domain, because   *)
(* there is no least place where it is not.                                *)

LEMMA Least ==
  ASSUME NEW S \in SUBSET Nat, S # {}
  PROVE  \E m \in S : \A n \in S : m <= n
<1>1. PICK m \in S : \A n \in S : ~ (<<n, m>> \in OpToRel(<, Nat))
  BY WFMin, NatLessThanWellFounded
<1>2. \A n \in S : ~ (n < m)
  BY <1>1 DEF OpToRel
<1> QED BY <1>2

LEMMA UpTo ==
  ASSUME NEW n \in Nat, NEW S, 0 \in S, \A i \in 1..n : i - 1 \in S => i \in S
  PROVE  0..n \subseteq S
<1> DEFINE Out == {i \in 0..n : i \notin S}
<1> SUFFICES ASSUME Out # {} PROVE FALSE
  OBVIOUS
<1>1. PICK m \in Out : \A k \in Out : m <= k
  <2>1. Out \in SUBSET Nat
    OBVIOUS
  <2> HIDE DEF Out
  <2> QED BY <2>1, Least
<1>2. m \in 1..n /\ m - 1 \in 0..n /\ ~(m <= m - 1)
  BY <1>1
<1>3. m - 1 \in S
  BY <1>1, <1>2
<1> QED BY <1>1, <1>2, <1>3

\* f is a function on the first n numbers.
Listed(f, n) == f = [i \in 1..n |-> f[i]]

LEMMA ListedSeq ==
  ASSUME NEW S, NEW n \in Nat, NEW f, Listed(f, n), \A i \in 1..n : f[i] \in S
  PROVE  f \in Seq(S) /\ Len(f) = n /\ DOMAIN f = 1..n
<1>1. f \in [1..n -> S]
  BY DEF Listed
<1> QED BY <1>1

\* A step g of a recursion from a, n times.
Recursion(f, g, a, n) == f = [i \in 0..n |-> IF i = 0 THEN a ELSE g[i][f[i - 1]]]

LEMMA RecursionExists ==
  ASSUME NEW n \in Nat, NEW a, NEW g
  PROVE  \E f : Recursion(f, g, a, n)
<1> DEFINE S == {m \in Nat : \E f : Recursion(f, g, a, m)}
<1>1. 0 \in S
  <2>1. Recursion([i \in 0..0 |-> a], g, a, 0)
    BY DEF Recursion
  <2> QED BY <2>1
<1>2. ASSUME NEW m \in 1..n, m - 1 \in S PROVE m \in S
  <2>1. PICK f : Recursion(f, g, a, m - 1)
    BY <1>2
  <2> DEFINE h == [i \in 0..m |-> IF i = m THEN g[m][f[m - 1]] ELSE f[i]]
  <2>2. m \in Nat /\ m # 0
    OBVIOUS
  <2>3. \A i \in 0..m : h[i] = IF i = 0 THEN a ELSE g[i][h[i - 1]]
    <3> SUFFICES ASSUME NEW i \in 0..m PROVE h[i] = IF i = 0 THEN a ELSE g[i][h[i - 1]]
      OBVIOUS
    <3>1. i \in Nat /\ (i # 0 => i - 1 \in 0..m) /\ (i # 0 => i - 1 # m) /\ (i # m => i \in 0..(m - 1))
      BY <2>2
    <3>2. i # 0 => h[i - 1] = f[i - 1]
      BY <3>1
    <3>3. CASE i = m
      BY <2>2, <3>2, <3>3
    <3>4. CASE i # m
      <4>1. h[i] = f[i] /\ f[i] = IF i = 0 THEN a ELSE g[i][f[i - 1]]
        BY <2>1, <3>1, <3>4 DEF Recursion
      <4> QED BY <3>2, <4>1
    <3> QED BY <3>3, <3>4
  <2>4. h = [i \in 0..m |-> h[i]]
    OBVIOUS
  <2> HIDE DEF h
  <2>5. Recursion(h, g, a, m)
    BY <2>3, <2>4 DEF Recursion
  <2> QED BY <2>2, <2>5
<1> HIDE DEF S
<1>3. 0..n \subseteq S
  BY <1>1, <1>2, UpTo
<1>4. n \in S
  BY <1>3
<1> QED BY <1>4 DEF S

\* FlattenSeq joins its lists one after the other.
LEMMA FlattenSteps ==
  ASSUME NEW ss, Len(ss) \in Nat, Len(ss) # 0
  PROVE  \E f : /\ FlattenSeq(ss) = f[Len(ss)]
                /\ \A i \in 1..Len(ss) : f[i] = IF i = 1 THEN ss[i] ELSE f[i - 1] \o ss[i]
<1> DEFINE n == Len(ss)
           Flattens(f) == f = [i \in 1..n |-> IF i = 1 THEN ss[i] ELSE f[i - 1] \o ss[i]]
           flatten == CHOOSE f : Flattens(f)
           S == {m \in Nat : \E f : \A i \in 1..m : f[i] = IF i = 1 THEN ss[i] ELSE f[i - 1] \o ss[i]}
<1>1. FlattenSeq(ss) = IF n = 0 THEN ss ELSE flatten[n]
  BY Zenon DEF FlattenSeq
<1>2. 0 \in S
  OBVIOUS
<1>3. ASSUME NEW m \in 1..n, m - 1 \in S PROVE m \in S
  <2>1. PICK f : \A i \in 1..(m - 1) : f[i] = IF i = 1 THEN ss[i] ELSE f[i - 1] \o ss[i]
    BY <1>3
  <2> DEFINE h == [i \in 1..m |-> IF i # m THEN f[i] ELSE IF m = 1 THEN ss[m] ELSE f[m - 1] \o ss[m]]
  <2>2. m \in Nat
    OBVIOUS
  <2>3. ASSUME NEW i \in 1..m PROVE h[i] = IF i = 1 THEN ss[i] ELSE h[i - 1] \o ss[i]
    <3>1. i \in Nat /\ (i # 1 => i - 1 \in 1..m) /\ (i # 1 => i - 1 # m) /\ (i # m => i \in 1..(m - 1))
      BY <2>2
    <3>2. i # 1 => h[i - 1] = f[i - 1]
      BY <3>1
    <3>3. CASE i = m
      BY <3>2, <3>3
    <3>4. CASE i # m
      <4>1. h[i] = f[i] /\ f[i] = IF i = 1 THEN ss[i] ELSE f[i - 1] \o ss[i]
        BY <2>1, <3>1, <3>4
      <4> QED BY <3>2, <4>1
    <3> QED BY <3>3, <3>4
  <2> HIDE DEF h
  <2> QED BY <2>2, <2>3
<1>4. n \in S
  <2> HIDE DEF S, n
  <2>1. n \in Nat
    BY DEF n
  <2>2. 0..n \subseteq S
    BY <1>2, <1>3, <2>1, UpTo
  <2> QED BY <2>1, <2>2
<1>5. PICK f : \A i \in 1..n : f[i] = IF i = 1 THEN ss[i] ELSE f[i - 1] \o ss[i]
  BY <1>4
<1> DEFINE h == [i \in 1..n |-> f[i]]
<1>6. \A i \in 1..n : h[i] = IF i = 1 THEN ss[i] ELSE h[i - 1] \o ss[i]
  <2> SUFFICES ASSUME NEW i \in 1..n PROVE h[i] = IF i = 1 THEN ss[i] ELSE h[i - 1] \o ss[i]
    OBVIOUS
  <2>1. i # 1 => i - 1 \in 1..n
    OBVIOUS
  <2> QED BY <1>5, <2>1
<1>7. h = [i \in 1..n |-> h[i]]
  OBVIOUS
<1> HIDE DEF h
<1>8. Flattens(h)
  BY <1>6, <1>7, Zenon
<1>9. Flattens(flatten)
  BY <1>8, Zenon
<1> HIDE DEF flatten
<1> QED BY <1>1, <1>9

LEMMA JoinedLists ==
  ASSUME NEW S, NEW s \in Seq(S), NEW t \in Seq(S)
  PROVE  s \o t \in Seq(S) /\ Range(s \o t) = Range(s) \cup Range(t)
<1>1. /\ s \o t \in Seq(S)
      /\ Len(s) \in Nat /\ Len(t) \in Nat /\ DOMAIN s = 1..Len(s) /\ DOMAIN t = 1..Len(t)
      /\ DOMAIN (s \o t) = 1..(Len(s) + Len(t))
      /\ \A i \in 1..Len(s) : (s \o t)[i] = s[i]
      /\ \A i \in 1..Len(t) : (s \o t)[Len(s) + i] = t[i]
  OBVIOUS
<1>2. ASSUME NEW i \in DOMAIN (s \o t) PROVE (s \o t)[i] \in Range(s) \cup Range(t)
  <2>1. CASE i \in 1..Len(s)
    BY <1>1, <2>1 DEF Range
  <2>2. CASE i \notin 1..Len(s)
    <3>1. i - Len(s) \in 1..Len(t) /\ Len(s) + (i - Len(s)) = i
      BY <1>1, <2>2
    <3> QED BY <1>1, <3>1 DEF Range
  <2> QED BY <2>1, <2>2
<1>3. ASSUME NEW i \in DOMAIN s PROVE s[i] \in Range(s \o t)
  <2>1. i \in DOMAIN (s \o t) /\ (s \o t)[i] = s[i]
    BY <1>1
  <2> QED BY <2>1 DEF Range
<1>4. ASSUME NEW i \in DOMAIN t PROVE t[i] \in Range(s \o t)
  <2>1. Len(s) + i \in DOMAIN (s \o t) /\ (s \o t)[Len(s) + i] = t[i]
    BY <1>1
  <2> QED BY <2>1 DEF Range
<1> QED BY <1>1, <1>2, <1>3, <1>4 DEF Range

\* What is in the flattened list is what is in the lists.
LEMMA FlattenHolds ==
  ASSUME NEW S, NEW n \in Nat, NEW ss, Listed(ss, n), \A i \in 1..n : ss[i] \in Seq(S)
  PROVE  /\ FlattenSeq(ss) \in Seq(S)
         /\ Range(FlattenSeq(ss)) = UNION {Range(ss[i]) : i \in 1..n}
<1>1. Len(ss) = n /\ ss \in Seq(Seq(S))
  BY ListedSeq
<1>2. CASE n = 0
  <2>1. ss = <<>>
    BY <1>1, <1>2
  <2>2. FlattenSeq(ss) = <<>>
    BY <1>1, <1>2, <2>1, Zenon DEF FlattenSeq
  <2>3. Range(<<>>) = {}
    BY DEF Range
  <2> QED BY <1>2, <2>2, <2>3
<1>3. CASE n # 0
  <2>1. PICK f : /\ FlattenSeq(ss) = f[n]
                 /\ \A i \in 1..n : f[i] = IF i = 1 THEN ss[i] ELSE f[i - 1] \o ss[i]
    BY <1>1, <1>3, FlattenSteps
  <2> DEFINE Held(m) == f[m] \in Seq(S) /\ Range(f[m]) = UNION {Range(ss[i]) : i \in 1..m}
             T == {m \in Nat : m = 0 \/ Held(m)}
  <2>2. 0 \in T
    OBVIOUS
  <2>3. ASSUME NEW m \in 1..n, m - 1 \in T PROVE m \in T
    <3>1. CASE m = 1
      <4>1. f[m] = ss[1] /\ 1..1 = {1} /\ ss[1] \in Seq(S)
        BY <2>1, <3>1
      <4>2. Held(m)
        BY <3>1, <4>1
      <4> QED BY <3>1, <4>2
    <3>2. CASE m # 1
      <4>1. /\ f[m] = f[m - 1] \o ss[m] /\ f[m - 1] \in Seq(S) /\ ss[m] \in Seq(S)
            /\ Range(f[m - 1]) = UNION {Range(ss[i]) : i \in 1..(m - 1)}
        <5>1. m \in 1..n /\ Held(m - 1)
          BY <2>3, <3>2
        <5>2. f[m] = f[m - 1] \o ss[m] /\ ss[m] \in Seq(S)
          BY <2>1, <3>2
        <5> QED BY <5>1, <5>2
      <4>2. f[m] \in Seq(S) /\ Range(f[m]) = Range(f[m - 1]) \cup Range(ss[m])
        BY <4>1, JoinedLists
      <4>3. 1..m = (1..(m - 1)) \cup {m}
        OBVIOUS
      <4>4. Held(m)
        BY <4>1, <4>2, <4>3
      <4> QED BY <4>4
    <3> QED BY <3>1, <3>2
  <2> HIDE DEF T
  <2>4. n \in T
    <3>1. 0..n \subseteq T
      BY <2>2, <2>3, UpTo
    <3> QED BY <3>1
  <2> QED BY <1>3, <2>1, <2>4 DEF T
<1> QED BY <1>2, <1>3
-----------------------------------------------------------------------------
(* Parts that hold all of a block *)

Covers(parts, b) ==
  /\ parts \in Seq(SUBSET b)
  /\ UNION {parts[i] : i \in DOMAIN parts} = b

LEMMA CoversRange ==
  ASSUME NEW parts, NEW b
  PROVE  Covers(parts, b) <=> parts \in Seq(SUBSET b) /\ UNION Range(parts) = b
BY DEF Covers, Range

\* A list of blocks that are together b.
LEMMA BlocksCover ==
  ASSUME NEW b, NEW n \in Nat, NEW parts, Listed(parts, n),
         UNION {parts[i] : i \in 1..n} = b
  PROVE  Covers(parts, b)
<1>1. \A i \in 1..n : parts[i] \in SUBSET b
  OBVIOUS
<1>2. parts \in Seq(SUBSET b) /\ DOMAIN parts = 1..n
  BY <1>1, ListedSeq
<1> QED BY <1>2 DEF Covers

LEMMA WholeCovers == \A b : Covers(<<b>>, b)
<1> SUFFICES ASSUME NEW b PROVE Covers(<<b>>, b)
  OBVIOUS
<1>1. <<b>> \in Seq(SUBSET b) /\ DOMAIN <<b>> = {1} /\ <<b>>[1] = b
  OBVIOUS
<1> QED BY <1>1 DEF Covers

LEMMA NothingCovers == Covers(<<>>, {})
BY DEF Covers

LEMMA PartOf ==
  ASSUME NEW b, NEW parts, Covers(parts, b)
  PROVE  /\ Len(parts) \in Nat /\ DOMAIN parts = 1..Len(parts) /\ Listed(parts, Len(parts))
         /\ \A i \in 1..Len(parts) : parts[i] \in SUBSET b
         /\ UNION {parts[i] : i \in 1..Len(parts)} = b
<1>1. parts \in Seq(SUBSET b)
  BY DEF Covers
<1>2. Len(parts) \in Nat /\ DOMAIN parts = 1..Len(parts)
  BY <1>1
<1>3. parts \in [1..Len(parts) -> SUBSET b]
  BY <1>1
<1>4. Listed(parts, Len(parts))
  BY <1>3 DEF Listed
<1> QED BY <1>2, <1>3, <1>4 DEF Covers

\* Covers of the blocks of a cover, one after the other.
LEMMA FlattenCovers ==
  ASSUME NEW b, NEW n \in Nat, NEW c, UNION {c[i] : i \in 1..n} = b,
         NEW ss, Listed(ss, n), \A i \in 1..n : Covers(ss[i], c[i])
  PROVE  /\ Covers(FlattenSeq(ss), b)
         /\ Range(FlattenSeq(ss)) = UNION {Range(ss[i]) : i \in 1..n}
<1>1. ASSUME NEW i \in 1..n PROVE ss[i] \in Seq(SUBSET b) /\ UNION Range(ss[i]) = c[i]
  <2>1. c[i] \subseteq b
    OBVIOUS
  <2>2. Listed(ss[i], Len(ss[i])) /\ Len(ss[i]) \in Nat
    BY PartOf
  <2>3. \A j \in 1..Len(ss[i]) : ss[i][j] \in SUBSET b
    BY <2>1, PartOf
  <2> QED BY <2>2, <2>3, ListedSeq, CoversRange
<1>2. /\ FlattenSeq(ss) \in Seq(SUBSET b)
      /\ Range(FlattenSeq(ss)) = UNION {Range(ss[i]) : i \in 1..n}
  BY <1>1, FlattenHolds
<1>3. UNION Range(FlattenSeq(ss)) = b
  BY <1>1, <1>2
<1> QED BY <1>2, <1>3, CoversRange

LEMMA NonEmptyCovers ==
  ASSUME NEW b, NEW n \in Nat, NEW blocks, Listed(blocks, n),
         UNION {blocks[i] : i \in 1..n} = b
  PROVE  /\ Covers(NonEmpty(blocks), b)
         /\ \A x \in Range(NonEmpty(blocks)) : x # {}
<1> DEFINE ss == [i \in DOMAIN blocks |-> IF blocks[i] = {} THEN <<>> ELSE <<blocks[i]>>]
<1>1. NonEmpty(blocks) = FlattenSeq(ss)
  BY DEF NonEmpty
<1>2. DOMAIN blocks = 1..n
  BY DEF Listed
<1>3. ASSUME NEW i \in 1..n PROVE Covers(ss[i], blocks[i]) /\ \A x \in Range(ss[i]) : x # {}
  <2>1. CASE blocks[i] = {}
    BY <1>2, <2>1, NothingCovers DEF Range
  <2>2. CASE blocks[i] # {}
    <3>1. ss[i] = <<blocks[i]>> /\ Range(<<blocks[i]>>) = {blocks[i]}
      BY <1>2, <2>2 DEF Range
    <3> QED BY <2>2, <3>1, WholeCovers
  <2> QED BY <2>1, <2>2
<1>4. Listed(ss, n)
  BY <1>2 DEF Listed
<1> HIDE DEF ss
<1>5. Covers(FlattenSeq(ss), b) /\ Range(FlattenSeq(ss)) = UNION {Range(ss[i]) : i \in 1..n}
  <2>1. \A i \in 1..n : Covers(ss[i], blocks[i])
    BY <1>3
  <2> QED BY <1>4, <2>1, FlattenCovers, ZenonT(60)
<1> QED BY <1>1, <1>3, <1>5

-----------------------------------------------------------------------------
(* Division *)

LEMMA Quotient ==
  ASSUME NEW a \in Nat, NEW s \in Nat \ {0}
  PROVE  /\ a \div s \in Nat
         /\ s * (a \div s) <= a /\ a < s * (a \div s) + s
OBVIOUS

LEMMA QuotientGrows ==
  ASSUME NEW a \in Nat, NEW c \in Nat, a <= c, NEW s \in Nat \ {0}
  PROVE  a \div s <= c \div s
<1> DEFINE p == a \div s  q == c \div s
<1>1. p \in Nat /\ q \in Nat /\ s * p <= a /\ c < s * q + s
  BY Quotient
<1> SUFFICES ASSUME p >= q + 1 PROVE FALSE
  BY <1>1
<1> HIDE DEF p, q
<1>2. p - q - 1 \in Nat
  BY <1>1
<1>3. s * (p - q - 1) >= 0
  BY <1>2
<1>4. s * (p - q - 1) = s * p - s * q - s
  BY <1>1
<1>5. s * p \in Nat /\ s * q \in Nat
  BY <1>1
<1> QED BY <1>1, <1>3, <1>4, <1>5

LEMMA CeilDivRange ==
  ASSUME NEW m \in Nat, NEW k \in Nat, m <= k, NEW s \in Nat \ {0}
  PROVE  /\ CeilDiv(m, s) \in Nat /\ CeilDiv(m, s) <= CeilDiv(k, s)
         /\ m # 0 => CeilDiv(m, s) >= 1
<1>1. m + s - 1 \in Nat /\ k + s - 1 \in Nat /\ m + s - 1 <= k + s - 1
  OBVIOUS
<1>2. CeilDiv(m, s) \in Nat /\ CeilDiv(m, s) <= CeilDiv(k, s)
  BY <1>1, Quotient, QuotientGrows DEF CeilDiv
<1>3. ASSUME m # 0 PROVE CeilDiv(m, s) >= 1
  <2>1. s \in Nat /\ s <= m + s - 1
    BY <1>3
  <2>2. s \div s <= (m + s - 1) \div s
    BY <1>1, <2>1, QuotientGrows
  <2>3. s \div s = 1
    <3>1. s \div s \in Nat /\ s * (s \div s) <= s /\ s < s * (s \div s) + s
      BY Quotient
    <3>2. s \div s # 0
      BY <3>1
    <3>3. ASSUME s \div s >= 2 PROVE FALSE
      <4> DEFINE q == s \div s
      <4>1. q \in Nat /\ q >= 2 /\ s * q <= s
        BY <3>1, <3>3
      <4> HIDE DEF q
      <4>2. q - 2 \in Nat
        BY <4>1
      <4>3. s * (q - 2) >= 0
        BY <4>2
      <4>4. s * (q - 2) = s * q - 2 * s
        BY <4>1
      <4>5. s * q \in Nat
        BY <4>1
      <4> QED BY <4>1, <4>3, <4>4, <4>5
    <3> QED BY <3>1, <3>2, <3>3
  <2>4. (m + s - 1) \div s \in Nat
    BY <1>1, Quotient
  <2> QED BY <2>2, <2>3, <2>4 DEF CeilDiv
<1> QED BY <1>2, <1>3
-----------------------------------------------------------------------------
(* The structural splits *)

LEMMA SplitDocumentsCovers ==
  ASSUME NEW b \in SUBSET Unit
  PROVE  Covers(SplitDocuments(b), b) /\ \A x \in Range(SplitDocuments(b)) : x # {}
<1> DEFINE blocks == [d \in 1..DocBound |-> {u \in b : u[1] = d}]
<1>1. DocBound \in Nat
  BY PlanningAssumption
<1>2. Listed(blocks, DocBound)
  BY DEF Listed
<1>3. UNION {blocks[d] : d \in 1..DocBound} = b
  <2>1. \A u \in b : u[1] \in 1..DocBound
    BY DEF Unit
  <2> QED BY <2>1
<1> HIDE DEF blocks
<1>4. Covers(NonEmpty(blocks), b) /\ \A x \in Range(NonEmpty(blocks)) : x # {}
  BY <1>1, <1>2, <1>3, NonEmptyCovers
<1> QED BY <1>4 DEF SplitDocuments, blocks

LEMMA SplitPagesCovers ==
  ASSUME NEW b \in SUBSET Unit
  PROVE  Covers(SplitPages(b), b) /\ \A x \in Range(SplitPages(b)) : x # {}
<1> DEFINE blocks == [p \in 1..PageBound |-> {u \in b : u[2] = p}]
<1>1. PageBound \in Nat
  BY PlanningAssumption
<1>2. Listed(blocks, PageBound)
  BY DEF Listed
<1>3. UNION {blocks[p] : p \in 1..PageBound} = b
  <2>1. \A u \in b : u[2] \in 1..PageBound
    BY DEF Unit
  <2> QED BY <2>1
<1> HIDE DEF blocks
<1>4. Covers(NonEmpty(blocks), b) /\ \A x \in Range(NonEmpty(blocks)) : x # {}
  BY <1>1, <1>2, <1>3, NonEmptyCovers
<1> QED BY <1>4 DEF SplitPages, blocks

LEMMA RankRange ==
  ASSUME NEW b \in SUBSET Unit, IsFiniteSet(b), NEW u \in b
  PROVE  Rank(u, b) \in Nat \ {0} /\ Rank(u, b) <= Cardinality(b)
<1> DEFINE upto == {v \in b : v[3] <= u[3]}
<1>1. u \in upto
  BY DEF Unit
<1>2. IsFiniteSet(upto) /\ Cardinality(upto) \in Nat /\ Cardinality(upto) <= Cardinality(b)
  <2>1. upto \in SUBSET b
    OBVIOUS
  <2> HIDE DEF upto
  <2> QED BY <2>1, FS_Subset, FS_CardinalityType
<1>3. Cardinality(upto) # 0
  <2> HIDE DEF upto
  <2> QED BY <1>1, <1>2, FS_EmptySet
<1> QED BY <1>2, <1>3 DEF Rank

LEMMA SplitBodyCovers ==
  ASSUME NEW b \in SUBSET Unit, IsFiniteSet(b), NEW size \in Nat \ {0}
  PROVE  Covers(SplitBody(b, size), b)
<1> DEFINE n == CeilDiv(Cardinality(b), size)
           parts == [k \in 1..n |-> {u \in b : CeilDiv(Rank(u, b), size) = k}]
<1>1. Cardinality(b) \in Nat
  BY FS_CardinalityType
<1>2. n \in Nat
  BY <1>1, CeilDivRange
<1>3. \A u \in b : CeilDiv(Rank(u, b), size) \in 1..n
  <2> SUFFICES ASSUME NEW u \in b PROVE CeilDiv(Rank(u, b), size) \in 1..n
    OBVIOUS
  <2>1. Rank(u, b) \in Nat /\ Rank(u, b) # 0 /\ Rank(u, b) <= Cardinality(b)
    BY RankRange
  <2>2. CeilDiv(Rank(u, b), size) \in Nat /\ CeilDiv(Rank(u, b), size) <= n /\ CeilDiv(Rank(u, b), size) >= 1
    BY <1>1, <2>1, CeilDivRange
  <2> QED BY <1>2, <2>2
<1>4. Listed(parts, n)
  BY DEF Listed
<1>5. UNION {parts[k] : k \in 1..n} = b
  BY <1>3
<1> HIDE DEF parts, n
<1>6. Covers(parts, b)
  BY <1>2, <1>4, <1>5, BlocksCover
<1> QED BY <1>6 DEF SplitBody, parts, n

LEMMA SubsplitPhaseCovers ==
  ASSUME NEW b \in SUBSET Unit, IsFiniteSet(b)
  PROVE  Covers(SubsplitPhase(b), b)
<1> DEFINE size == Larger(2, Cardinality(b) \div 2)
<1>1. size \in Nat \ {0}
  BY FS_CardinalityType, Quotient DEF Larger
<1>2. Covers(SplitBody(b, size), b)
  BY <1>1, SplitBodyCovers
<1> QED BY <1>2, SplitDocumentsCovers, SplitPagesCovers, WholeCovers DEF SubsplitPhase

LEMMA SubsplitProjectCovers ==
  ASSUME NEW b \in SUBSET Unit, IsFiniteSet(b)
  PROVE  Covers(SubsplitProject(b), b)
<1> DEFINE size == CeilDiv(Cardinality(b), 2)
<1>1. CASE Len(SubsplitPhase(b)) > 1 \/ Cardinality(b) <= 1
  BY <1>1, SubsplitPhaseCovers DEF SubsplitProject
<1>2. CASE ~(Len(SubsplitPhase(b)) > 1 \/ Cardinality(b) <= 1)
  <2>1. Cardinality(b) \in Nat /\ Cardinality(b) # 0
    BY <1>2, FS_CardinalityType
  <2>2. size \in Nat \ {0}
    BY <2>1, CeilDivRange
  <2>3. Covers(SplitBody(b, size), b)
    BY <2>2, SplitBodyCovers
  <2> QED BY <1>2, <2>3 DEF SubsplitProject
<1> QED BY <1>1, <1>2

-----------------------------------------------------------------------------
(* The plans *)

LEMMA PlanSourceCovers ==
  ASSUME NEW b \in SUBSET Unit, NEW w
  PROVE  Covers(PlanSource(b, w), b)
<1> DEFINE docs == SplitDocuments(b)
           ss == [i \in DOMAIN docs |-> PlanDocument(docs[i], w)]
<1>1. CASE Fits(b, w)
  BY <1>1, WholeCovers DEF PlanSource
<1>2. CASE ~Fits(b, w)
  <2>1. Covers(docs, b)
    BY SplitDocumentsCovers
  <2>2. /\ Len(docs) \in Nat /\ DOMAIN docs = 1..Len(docs)
        /\ \A i \in 1..Len(docs) : docs[i] \in SUBSET b
        /\ UNION {docs[i] : i \in 1..Len(docs)} = b
    <3> HIDE DEF docs
    <3> QED BY <2>1, PartOf
  <2> HIDE DEF docs
  <2>3. ASSUME NEW i \in 1..Len(docs) PROVE Covers(ss[i], docs[i])
    <3>1. docs[i] \in SUBSET Unit
      BY <2>2
    <3>2. ss[i] = PlanDocument(docs[i], w)
      BY <2>2
    <3>3. Covers(PlanDocument(docs[i], w), docs[i])
      BY <3>1, SplitPagesCovers, WholeCovers DEF PlanDocument
    <3> QED BY <3>2, <3>3
  <2>4. Listed(ss, Len(docs))
    BY <2>2 DEF Listed
  <2>5. PlanSource(b, w) = FlattenSeq(ss)
    BY <1>2 DEF PlanSource, docs
  <2> HIDE DEF ss
  <2>6. Covers(FlattenSeq(ss), b)
    BY <2>2, <2>3, <2>4, FlattenCovers
  <2> QED BY <2>5, <2>6
<1> QED BY <1>1, <1>2

LEMMA PlanCoreCovers ==
  ASSUME NEW b \in SUBSET Unit, IsFiniteSet(b), NEW w, NEW forced
  PROVE  Covers(PlanCore(b, w, forced), b)
BY PlanSourceCovers, SubsplitPhaseCovers DEF PlanCore

LEMMA PlanProjectsCovers ==
  ASSUME NEW b \in SUBSET Unit, NEW w, NEW forced
  PROVE  Covers(PlanProjects(b, w, forced), b)
BY PlanSourceCovers, SplitDocumentsCovers, SplitPagesCovers DEF PlanProjects
-----------------------------------------------------------------------------
(* Packing *)

\* A group takes at least what the slots after it cannot hold, and there is
\* such a group: the least size it cannot grow from.
LEMMA GroupSizeRange ==
  ASSUME NEW blocks, Len(blocks) \in Nat, NEW first \in 1..Len(blocks),
         NEW slots \in Nat \ {0}, NEW w
  PROVE  LET n == GroupSize(blocks, first, slots, w)
             left == Len(blocks) - first + 1
         IN  n \in 1..left /\ n >= left - (slots - 1)
<1> DEFINE left == Len(blocks) - first + 1
           least == Larger(1, left - (slots - 1))
           Fit(n) == Fits(Merged(blocks, first, n), w)
           Right(n) == (\A m \in (least + 1)..n : Fit(m)) /\ (n < left => ~Fit(n + 1))
           S == {n \in least..left : n = left \/ ~Fit(n + 1)}
<1>1. left \in Nat /\ left >= 1
  OBVIOUS
<1>2. least \in 1..left /\ least >= left - (slots - 1)
  BY <1>1 DEF Larger
<1>3. GroupSize(blocks, first, slots, w) = CHOOSE n \in least..left : Right(n)
  BY DEF GroupSize
<1> HIDE DEF left, least, Fit
<1>4. PICK n \in S : \A m \in S : n <= m
  <2>1. left \in S /\ S \in SUBSET Nat
    BY <1>1, <1>2
  <2> HIDE DEF S
  <2> QED BY <2>1, Least
<1>5. Right(n)
  <2>1. ASSUME NEW m \in (least + 1)..n PROVE Fit(m)
    <3>1. m - 1 \in least..left /\ ~(n <= m - 1) /\ (m - 1) + 1 = m
      BY <1>1, <1>2, <1>4
    <3>2. m - 1 \notin S
      BY <1>4, <3>1
    <3>3. Fit((m - 1) + 1)
      BY <3>1, <3>2
    <3> QED BY <3>1, <3>3
  <2>2. n < left => ~Fit(n + 1)
    BY <1>1, <1>2, <1>4
  <2> QED BY <2>1, <2>2
<1>6. n \in least..left
  BY <1>4
<1> DEFINE size == CHOOSE k \in least..left : Right(k)
<1> HIDE DEF Right, S
<1>7. size \in least..left
  BY <1>5, <1>6
<1> HIDE DEF size
<1>8. size \in 1..left /\ size >= left - (slots - 1)
  BY <1>1, <1>2, <1>7
<1>9. GroupSize(blocks, first, slots, w) = size
  BY <1>3 DEF size
<1> QED BY <1>8, <1>9 DEF left

LEMMA NextGroupRange ==
  ASSUME NEW blocks, Len(blocks) \in Nat, NEW first \in 1..(Len(blocks) + 1),
         NEW slots \in Nat \ {0}, NEW w
  PROVE  LET next == NextGroup(blocks, first, slots, w)
         IN  next \in first..(Len(blocks) + 1) /\ Len(blocks) + 1 - next <= slots - 1
<1> DEFINE n == Len(blocks)  size == GroupSize(blocks, first, slots, w)
<1>1. CASE first > n
  <2>1. first = n + 1 /\ NextGroup(blocks, first, slots, w) = first
    BY <1>1 DEF NextGroup
  <2> QED BY <2>1
<1>2. CASE ~(first > n)
  <2>1. first \in 1..n
    BY <1>2
  <2>2. size \in 1..(n - first + 1) /\ size >= (n - first + 1) - (slots - 1)
    BY <2>1, GroupSizeRange
  <2>3. NextGroup(blocks, first, slots, w) = first + size
    BY <1>2 DEF NextGroup
  <2> HIDE DEF size
  <2>4. first + size \in first..(n + 1) /\ n + 1 - (first + size) <= slots - 1
    BY <2>1, <2>2
  <2> QED BY <2>3, <2>4
<1> QED BY <1>1, <1>2

LEMMA PackCovers ==
  ASSUME NEW b, NEW blocks, Covers(blocks, b), NEW max \in Nat, NEW w
  PROVE  Covers(Pack(blocks, max, w), b)
<1> DEFINE n == Len(blocks)
           Next1(s, x) == NextGroup(blocks, x, max - s + 1, w)
           Starts(f) == f = [s \in 0..max |-> IF s = 0 THEN 1 ELSE Next1(s, f[s - 1])]
           start == CHOOSE f : Starts(f)
           parts == [s \in 1..max |-> Merged(blocks, start[s - 1], start[s] - start[s - 1])]
<1>1. /\ n \in Nat /\ \A i \in 1..n : blocks[i] \in SUBSET b
      /\ UNION {blocks[i] : i \in 1..n} = b
  BY PartOf
<1>2. CASE max = 0 \/ n <= max
  BY <1>2 DEF Pack
<1>3. CASE ~(max = 0 \/ n <= max)
  <2>1. Pack(blocks, max, w) = NonEmpty(parts)
    BY <1>3, Zenon DEF Pack
  <2>2. ASSUME NEW s \in 1..max, NEW x \in 1..(n + 1)
        PROVE  Next1(s, x) \in x..(n + 1) /\ n + 1 - Next1(s, x) <= max - s
    <3>1. max - s + 1 \in Nat \ {0} /\ (max - s + 1) - 1 = max - s
      OBVIOUS
    <3> QED BY <1>1, <3>1, NextGroupRange
  <2> HIDE DEF Next1
  <2>3. \E f : Starts(f)
    <3> DEFINE g == [s \in 1..max |-> [x \in 1..(n + 1) |-> Next1(s, x)]]
    <3>1. PICK f : Recursion(f, g, 1, max)
      BY RecursionExists
    <3> DEFINE S == {s \in Nat : s \in 0..max /\ f[s] \in 1..(n + 1)}
    <3>2. \A s \in 0..max : f[s] = IF s = 0 THEN 1 ELSE g[s][f[s - 1]]
      BY <3>1 DEF Recursion
    <3>3. 0 \in S
      <4>1. 0 \in 0..max /\ f[0] = 1
        <5>1. 0 \in 0..max
          OBVIOUS
        <5> HIDE DEF g
        <5> QED BY <3>2, <5>1
      <4> QED BY <1>1, <4>1
    <3>4. ASSUME NEW s \in 1..max, s - 1 \in S PROVE s \in S
      <4>1. s # 0 /\ s \in 0..max /\ s \in Nat
        OBVIOUS
      <4>2. f[s - 1] \in 1..(n + 1)
        BY <3>4
      <4>3. f[s] = g[s][f[s - 1]]
        BY <3>2, <4>1
      <4>4. f[s] = Next1(s, f[s - 1])
        BY <4>2, <4>3
      <4>5. f[s] \in f[s - 1]..(n + 1)
        BY <2>2, <4>2, <4>4
      <4>6. f[s] \in 1..(n + 1)
        BY <1>1, <4>2, <4>5
      <4> QED BY <4>1, <4>6
    <3>5. 0..max \subseteq S
      <4> HIDE DEF S
      <4> QED BY <3>3, <3>4, UpTo
    <3>6. ASSUME NEW s \in 0..max PROVE f[s] = IF s = 0 THEN 1 ELSE Next1(s, f[s - 1])
      <4>1. CASE s = 0
        BY <3>2, <4>1
      <4>2. CASE s # 0
        <5>1. s \in 1..max /\ s - 1 \in 0..max
          BY <4>2
        <5>2. f[s - 1] \in 1..(n + 1)
          BY <3>5, <5>1
        <5>3. f[s] = g[s][f[s - 1]]
          BY <3>2, <4>2
        <5> QED BY <4>2, <5>1, <5>2, <5>3
      <4> QED BY <4>1, <4>2
    <3>7. f = [s \in 0..max |-> f[s]]
      BY <3>1 DEF Recursion
    <3> HIDE DEF g, S
    <3>8. Starts(f)
      BY <3>6, <3>7
    <3> QED BY <3>8
  <2>4. Starts(start)
    BY <2>3
  <2> HIDE DEF start
  <2>5. start[0] = 1 /\ \A s \in 1..max : start[s] = Next1(s, start[s - 1])
    <3>1. \A s \in 0..max : start[s] = IF s = 0 THEN 1 ELSE Next1(s, start[s - 1])
      BY <2>4
    <3> QED BY <3>1
  <2> HIDE DEF Starts
  <2> DEFINE S == {s \in Nat : start[s] \in 1..(n + 1)}
  <2>6. 0..max \subseteq S
    <3>1. 0 \in S
      BY <1>1, <2>5
    <3>2. ASSUME NEW s \in 1..max, s - 1 \in S PROVE s \in S
      <4>1. start[s - 1] \in 1..(n + 1)
        BY <3>2
      <4>2. start[s] \in start[s - 1]..(n + 1)
        BY <2>2, <2>5, <4>1
      <4>3. s \in Nat /\ start[s] \in 1..(n + 1)
        BY <1>1, <4>1, <4>2
      <4> QED BY <4>3
    <3> HIDE DEF S
    <3> QED BY <3>1, <3>2, UpTo
  <2>7. ASSUME NEW s \in 1..max
        PROVE  /\ start[s - 1] \in 1..(n + 1) /\ start[s] \in start[s - 1]..(n + 1)
               /\ n + 1 - start[s] <= max - s
    <3>1. s - 1 \in 0..max
      OBVIOUS
    <3>2. start[s - 1] \in 1..(n + 1)
      BY <2>6, <3>1
    <3> QED BY <2>2, <2>5, <3>2
  <2>8. start[max] = n + 1
    <3>1. max \in 1..max
      BY <1>3
    <3>2. n + 1 - start[max] <= max - max /\ start[max] \in 1..(n + 1)
      BY <1>1, <2>7, <3>1
    <3> QED BY <1>1, <3>2
  <2>9. ASSUME NEW s \in 1..max
        PROVE  parts[s] = UNION {blocks[i] : i \in start[s - 1]..(start[s] - 1)}
    <3>1. start[s - 1] + (start[s] - start[s - 1]) - 1 = start[s] - 1
      BY <1>1, <2>7
    <3> QED BY <3>1 DEF Merged
  <2>10. Listed(parts, max)
    BY DEF Listed
  <2> HIDE DEF parts, S
  <2>11. ASSUME NEW i \in 1..n PROVE \E s \in 1..max : i \in start[s - 1]..(start[s] - 1)
    <3> DEFINE After == {s \in 0..max : start[s] > i}
    <3>1. max \in After /\ After \in SUBSET Nat
      BY <1>1, <2>8
    <3>2. PICK s \in After : \A t \in After : s <= t
      <4> HIDE DEF After
      <4> QED BY <3>1, Least
    <3>3. s # 0
      BY <2>5, <3>2
    <3>4. s \in 1..max /\ s - 1 \in 0..max /\ ~(s <= s - 1)
      BY <3>2, <3>3
    <3>5. s - 1 \notin After
      BY <3>2, <3>4
    <3>6. start[s - 1] \in Int /\ start[s] \in Int
      BY <1>1, <2>7, <3>4
    <3>7. start[s] > i /\ start[s - 1] <= i
      BY <3>2, <3>4, <3>5, <3>6
    <3> QED BY <3>4, <3>6, <3>7
  <2>12. ASSUME NEW s \in 1..max PROVE start[s - 1]..(start[s] - 1) \subseteq 1..n
    BY <1>1, <2>7
  <2>13. UNION {parts[s] : s \in 1..max} = b
    <3>1. UNION {parts[s] : s \in 1..max} \subseteq b
      BY <1>1, <2>9, <2>12
    <3>2. ASSUME NEW u \in b PROVE u \in UNION {parts[s] : s \in 1..max}
      <4>1. PICK i \in 1..n : u \in blocks[i]
        BY <1>1
      <4>2. PICK s \in 1..max : i \in start[s - 1]..(start[s] - 1)
        BY <2>11
      <4> QED BY <2>9, <4>1, <4>2
    <3> QED BY <3>1, <3>2
  <2>14. Covers(NonEmpty(parts), b)
    BY <2>10, <2>13, NonEmptyCovers
  <2> QED BY <2>1, <2>14
<1> QED BY <1>2, <1>3
-----------------------------------------------------------------------------
(* Page-by-page recall *)

LEMMA PagesCover ==
  ASSUME NEW b \in SUBSET Unit
  PROVE  Covers(Pages(b), b) /\ \A x \in Range(Pages(b)) : x # {}
<1> DEFINE docs == SplitDocuments(b)
           ss == [i \in DOMAIN docs |-> SplitPages(docs[i])]
<1>1. Covers(docs, b)
  BY SplitDocumentsCovers
<1>2. Pages(b) = FlattenSeq(ss)
  BY DEF Pages
<1> HIDE DEF docs
<1>3. /\ Len(docs) \in Nat /\ DOMAIN docs = 1..Len(docs)
      /\ \A i \in 1..Len(docs) : docs[i] \in SUBSET b
      /\ UNION {docs[i] : i \in 1..Len(docs)} = b
  BY <1>1, PartOf
<1>4. ASSUME NEW i \in 1..Len(docs)
      PROVE  Covers(ss[i], docs[i]) /\ \A x \in Range(ss[i]) : x # {}
  <2>1. docs[i] \in SUBSET Unit /\ ss[i] = SplitPages(docs[i])
    BY <1>3
  <2> QED BY <2>1, SplitPagesCovers
<1>5. Listed(ss, Len(docs))
  BY <1>3 DEF Listed
<1> HIDE DEF ss
<1>6. /\ Covers(FlattenSeq(ss), b)
      /\ Range(FlattenSeq(ss)) = UNION {Range(ss[i]) : i \in 1..Len(docs)}
  <2>1. \A i \in 1..Len(docs) : Covers(ss[i], docs[i])
    BY <1>4
  <2> QED BY <1>3, <1>5, <2>1, FlattenCovers
<1> QED BY <1>2, <1>4, <1>6, SMTT(40)

LEMMA CutTableCovers ==
  ASSUME NEW page \in SUBSET Unit, IsFiniteSet(page), page # {}, NEW tables, NEW extra \in Int
  PROVE  Covers(CutTable(page, tables, extra), page)
<1>1. CASE extra > 0 /\ OnPages(page, tables)
  <2> DEFINE rows == Cardinality(page)
             windows == Smaller(extra + 1, CeilDiv(rows, RowsPerWindow))
             size == CeilDiv(rows, windows)
  <2>1. rows \in Nat /\ rows # 0
    BY FS_CardinalityType, FS_EmptySet
  <2>2. CeilDiv(rows, RowsPerWindow) \in Nat /\ CeilDiv(rows, RowsPerWindow) >= 1
    <3>1. RowsPerWindow \in Nat \ {0}
      BY PlanningAssumption
    <3> QED BY <2>1, <3>1, CeilDivRange
  <2>3. windows \in Nat \ {0}
    BY <1>1, <2>2 DEF Smaller
  <2>4. size \in Nat \ {0}
    <3> HIDE DEF windows, rows
    <3> QED BY <2>1, <2>3, CeilDivRange
  <2>5. CutTable(page, tables, extra) = SplitBody(page, size)
    BY <1>1 DEF CutTable, TableWindows
  <2> HIDE DEF size
  <2> QED BY <2>4, <2>5, SplitBodyCovers
<1>2. CASE ~(extra > 0 /\ OnPages(page, tables))
  BY <1>2, WholeCovers DEF CutTable
<1> QED BY <1>1, <1>2

LEMMA DenseCovers ==
  ASSUME NEW page \in SUBSET Unit, IsFiniteSet(page)
  PROVE  Covers(DenseWindows(page), page)
<1> DEFINE half == Cardinality(page) \div 2
           upper == {u \in page : Rank(u, page) <= half + 1}
           lower == {u \in page : Rank(u, page) >= half}
<1>1. half \in Nat
  BY FS_CardinalityType, Quotient
<1>2. DenseWindows(page) = <<upper, lower>>
  BY DEF DenseWindows
<1> HIDE DEF half
<1>3. upper \cup lower = page
  BY <1>1, RankRange
<1> HIDE DEF upper, lower
<1>4. /\ <<upper, lower>> \in Seq(SUBSET page) /\ DOMAIN <<upper, lower>> = {1, 2}
      /\ <<upper, lower>>[1] = upper /\ <<upper, lower>>[2] = lower
  BY <1>3
<1>5. Covers(<<upper, lower>>, page)
  BY <1>3, <1>4 DEF Covers
<1> QED BY <1>2, <1>5

LEMMA CutDenseCovers ==
  ASSUME NEW page \in SUBSET Unit, IsFiniteSet(page), NEW windows, Covers(windows, page),
         NEW dense, NEW extra
  PROVE  Covers(CutDense(windows, dense, extra), page)
<1>1. CASE Len(windows) = 1
  <2>1. windows[1] = page
    <3>1. UNION {windows[i] : i \in 1..1} = page /\ 1..1 = {1}
      BY <1>1, PartOf
    <3> QED BY <3>1
  <2>2. CutDense(windows, dense, extra) \in {windows, DenseWindows(page)}
    BY <2>1 DEF CutDense
  <2> QED BY <2>2, DenseCovers
<1>2. CASE Len(windows) # 1
  BY <1>2 DEF CutDense
<1> QED BY <1>1, <1>2

LEMMA RecallCovers ==
  ASSUME NEW b \in SUBSET Unit, IsFiniteSet(b), NEW tables, NEW dense, NEW max \in Nat
  PROVE  RecallPlan(b, tables, dense, max) = <<>> \/ Covers(RecallPlan(b, tables, dense, max), b)
<1> DEFINE pages == Pages(b)
           n == Len(pages)
           Next1(i, x) == AfterTable(pages[i], tables, x)
           Spares(f) == f = [i \in 0..n |-> IF i = 0 THEN max - n ELSE Next1(i, f[i - 1])]
           spare == CHOOSE f : Spares(f)
           cut == [i \in 1..n |-> CutTable(pages[i], tables, spare[i - 1])]
           rest == CHOOSE f : f = [i \in 0..n |-> IF i = 0 THEN spare[n]
                                                  ELSE AfterDense(cut[i], dense, f[i - 1])]
           windows == [i \in 1..n |-> CutDense(cut[i], dense, rest[i - 1])]
<1>1. RecallPlan(b, tables, dense, max)
        = IF n \in 3..Smaller(max, 12) THEN FlattenSeq(windows) ELSE <<>>
  BY Zenon DEF RecallPlan
<1> HIDE DEF rest
<1>2. Covers(pages, b) /\ \A x \in Range(pages) : x # {}
  BY PagesCover
<1> HIDE DEF pages
<1>3. /\ n \in Nat /\ DOMAIN pages = 1..n
      /\ \A i \in 1..n : pages[i] \in SUBSET b
      /\ UNION {pages[i] : i \in 1..n} = b
  BY <1>2, PartOf
<1>4. ASSUME NEW i \in 1..n
      PROVE  pages[i] \in SUBSET Unit /\ IsFiniteSet(pages[i]) /\ pages[i] # {}
  <2>1. pages[i] \in SUBSET b /\ pages[i] \in Range(pages)
    BY <1>3 DEF Range
  <2> QED BY <1>2, <2>1, FS_Subset
<1>5. ASSUME NEW i \in 1..n, NEW x \in Int PROVE Next1(i, x) \in Int
  <2>1. Covers(CutTable(pages[i], tables, x), pages[i])
    BY <1>4, CutTableCovers
  <2>2. Len(CutTable(pages[i], tables, x)) \in Nat
    BY <2>1, PartOf
  <2> QED BY <2>2 DEF AfterTable
<1> HIDE DEF Next1
<1>6. \E f : Spares(f)
  <2> DEFINE g == [i \in 1..n |-> [x \in Int |-> Next1(i, x)]]
             first == max - n
  <2>1. PICK f : Recursion(f, g, first, n)
    BY <1>3, RecursionExists
  <2>2. \A i \in 0..n : f[i] = IF i = 0 THEN first ELSE g[i][f[i - 1]]
    BY <2>1 DEF Recursion
  <2> DEFINE S == {i \in Nat : i \in 0..n /\ f[i] \in Int}
  <2>3. 0 \in S
    <3>1. 0 \in 0..n
      BY <1>3
    <3>2. f[0] = first
      <4> HIDE DEF g, first
      <4> QED BY <2>2, <3>1
    <3> QED BY <1>3, <3>1, <3>2
  <2>4. ASSUME NEW i \in 1..n, i - 1 \in S PROVE i \in S
    <3>1. i # 0 /\ i \in 0..n /\ i \in Nat
      BY <1>3
    <3>2. f[i - 1] \in Int
      BY <2>4
    <3>3. f[i] = g[i][f[i - 1]]
      BY <2>2, <3>1
    <3>4. f[i] = Next1(i, f[i - 1])
      BY <3>2, <3>3
    <3> QED BY <1>5, <3>1, <3>2, <3>4
  <2>5. 0..n \subseteq S
    <3> HIDE DEF S, n
    <3>1. n \in Nat
      BY <1>3
    <3> QED BY <2>3, <2>4, <3>1, UpTo
  <2>6. ASSUME NEW i \in 0..n PROVE f[i] = IF i = 0 THEN max - n ELSE Next1(i, f[i - 1])
    <3>1. CASE i = 0
      BY <2>2, <3>1
    <3>2. CASE i # 0
      <4>1. i \in 1..n /\ i - 1 \in 0..n
        BY <1>3, <3>2
      <4>2. f[i - 1] \in Int
        BY <2>5, <4>1
      <4>3. f[i] = g[i][f[i - 1]]
        BY <2>2, <3>2
      <4> QED BY <3>2, <4>1, <4>2, <4>3
    <3> QED BY <3>1, <3>2
  <2>7. f = [i \in 0..n |-> f[i]]
    BY <2>1 DEF Recursion
  <2> HIDE DEF g, S, first
  <2>8. Spares(f)
    BY <2>6, <2>7
  <2> QED BY <2>8
<1>7. Spares(spare)
  BY <1>6
<1> HIDE DEF spare
<1>8. ASSUME NEW i \in 0..n PROVE spare[i] = IF i = 0 THEN max - n ELSE Next1(i, spare[i - 1])
  BY <1>7
<1> HIDE DEF Spares
<1>9. ASSUME NEW i \in 0..n PROVE spare[i] \in Int
  <2> DEFINE S == {j \in Nat : spare[j] \in Int}
  <2>1. 0 \in S
    <3>1. 0 \in 0..n
      BY <1>3
    <3>2. spare[0] = max - n
      BY <1>8, <3>1
    <3> QED BY <1>3, <3>2
  <2>2. ASSUME NEW j \in 1..n, j - 1 \in S PROVE j \in S
    <3>1. j \in 0..n /\ j # 0 /\ j \in Nat
      BY <1>3
    <3>2. spare[j] = Next1(j, spare[j - 1]) /\ spare[j - 1] \in Int
      BY <1>8, <2>2, <3>1
    <3> QED BY <1>5, <3>1, <3>2
  <2>3. 0..n \subseteq S
    <3> HIDE DEF S, n
    <3>1. n \in Nat
      BY <1>3
    <3> QED BY <2>1, <2>2, <3>1, UpTo
  <2> QED BY <2>3
<1>10. ASSUME NEW i \in 1..n PROVE Covers(windows[i], pages[i])
  <2>1. spare[i - 1] \in Int
    <3>1. i - 1 \in 0..n
      BY <1>3
    <3> QED BY <1>9, <3>1
  <2>2. Covers(cut[i], pages[i])
    BY <1>4, <2>1, CutTableCovers
  <2> DEFINE ws == cut[i]  extra == rest[i - 1]
  <2>3. windows[i] = CutDense(ws, dense, extra)
    OBVIOUS
  <2> HIDE DEF ws, extra
  <2>4. Covers(ws, pages[i])
    BY <2>2 DEF ws
  <2> QED BY <1>4, <2>3, <2>4, CutDenseCovers
<1>11. Listed(windows, n)
  BY DEF Listed
<1> HIDE DEF windows
<1>12. Covers(FlattenSeq(windows), b)
  <2>1. \A i \in 1..n : Covers(windows[i], pages[i])
    BY <1>10
  <2> QED BY <1>3, <1>11, <2>1, FlattenCovers
<1> QED BY <1>1, <1>12

-----------------------------------------------------------------------------
(* The text of a sequence of chunks *)

\* ChunksOf of a block, and the text a sequence of them holds.
ChunksOf(b) == [block : SUBSET b, depth : Nat, seen : Int]
Text(s)   == UNION {s[i].block : i \in DOMAIN s}

LEMMA TextOfFirst ==
  ASSUME NEW b, NEW s \in Seq(ChunksOf(b)), s # <<>>
  PROVE  /\ Head(s) \in ChunksOf(b) /\ Tail(s) \in Seq(ChunksOf(b))
         /\ Text(s) = Head(s).block \cup Text(Tail(s))
<1>1. Head(s) \in ChunksOf(b) /\ Tail(s) \in Seq(ChunksOf(b))
  OBVIOUS
<1>2. /\ Len(s) \in Nat \ {0} /\ DOMAIN s = 1..Len(s)
      /\ DOMAIN Tail(s) = 1..(Len(s) - 1)
      /\ Head(s) = s[1]
      /\ \A i \in 1..(Len(s) - 1) : Tail(s)[i] = s[i + 1]
  OBVIOUS
<1>3. ASSUME NEW u \in Text(s) PROVE u \in Head(s).block \cup Text(Tail(s))
  <2>1. PICK i \in 1..Len(s) : u \in s[i].block
    BY <1>2, <1>3 DEF Text
  <2>2. CASE i = 1
    BY <1>2, <2>1, <2>2
  <2>3. CASE i # 1
    <3>1. i - 1 \in DOMAIN Tail(s) /\ Tail(s)[i - 1] = s[i]
      BY <1>2, <2>3
    <3> QED BY <2>1, <3>1 DEF Text
  <2> QED BY <2>2, <2>3
<1>4. ASSUME NEW u \in Head(s).block \cup Text(Tail(s)) PROVE u \in Text(s)
  <2>1. CASE u \in Head(s).block
    BY <1>2, <2>1 DEF Text
  <2>2. CASE u \in Text(Tail(s))
    <3>1. PICK i \in 1..(Len(s) - 1) : u \in Tail(s)[i].block
      BY <1>2, <2>2 DEF Text
    <3>2. i + 1 \in DOMAIN s /\ Tail(s)[i] = s[i + 1]
      BY <1>2
    <3> QED BY <3>1, <3>2 DEF Text
  <2> QED BY <1>4, <2>1, <2>2
<1> QED BY <1>1, <1>3, <1>4

LEMMA TextOfBoth ==
  ASSUME NEW b, NEW s \in Seq(ChunksOf(b)), NEW t \in Seq(ChunksOf(b))
  PROVE  /\ s \o t \in Seq(ChunksOf(b))
         /\ Text(s \o t) = Text(s) \cup Text(t)
<1>1. s \o t \in Seq(ChunksOf(b))
  OBVIOUS
<1>2. /\ Len(s) \in Nat /\ Len(t) \in Nat /\ DOMAIN s = 1..Len(s) /\ DOMAIN t = 1..Len(t)
      /\ DOMAIN (s \o t) = 1..(Len(s) + Len(t))
      /\ \A i \in 1..Len(s) : (s \o t)[i] = s[i]
      /\ \A i \in 1..Len(t) : (s \o t)[Len(s) + i] = t[i]
  OBVIOUS
<1>3. ASSUME NEW u \in Text(s \o t) PROVE u \in Text(s) \cup Text(t)
  <2>1. PICK i \in 1..(Len(s) + Len(t)) : u \in (s \o t)[i].block
    BY <1>2, <1>3 DEF Text
  <2>2. CASE i \in 1..Len(s)
    BY <1>2, <2>1, <2>2 DEF Text
  <2>3. CASE i \notin 1..Len(s)
    <3>1. i - Len(s) \in 1..Len(t) /\ Len(s) + (i - Len(s)) = i
      BY <1>2, <2>3
    <3> QED BY <1>2, <2>1, <3>1 DEF Text
  <2> QED BY <2>2, <2>3
<1>4. Text(s) \subseteq Text(s \o t)
  <2> SUFFICES ASSUME NEW i \in 1..Len(s) PROVE s[i].block \subseteq Text(s \o t)
    BY <1>2 DEF Text
  <2>1. i \in DOMAIN (s \o t) /\ (s \o t)[i] = s[i]
    BY <1>2
  <2> QED BY <2>1 DEF Text
<1>5. Text(t) \subseteq Text(s \o t)
  <2> SUFFICES ASSUME NEW i \in 1..Len(t) PROVE t[i].block \subseteq Text(s \o t)
    BY <1>2 DEF Text
  <2>1. Len(s) + i \in DOMAIN (s \o t) /\ (s \o t)[Len(s) + i] = t[i]
    BY <1>2
  <2> QED BY <2>1 DEF Text
<1> QED BY <1>1, <1>3, <1>4, <1>5

LEMMA TextOfParts ==
  ASSUME NEW b, NEW c \in SUBSET b, NEW parts, Covers(parts, c), NEW d \in Nat,
         NEW s, s = [i \in DOMAIN parts |-> [block |-> parts[i], depth |-> d, seen |-> 0]]
  PROVE  s \in Seq(ChunksOf(b)) /\ Text(s) = c
<1>1. /\ Len(parts) \in Nat /\ DOMAIN parts = 1..Len(parts)
      /\ \A i \in 1..Len(parts) : parts[i] \in SUBSET b
  BY DEF Covers
<1>2. s \in [1..Len(parts) -> ChunksOf(b)]
  BY <1>1 DEF ChunksOf
<1>3. s \in Seq(ChunksOf(b))
  BY <1>1, <1>2
<1>4. \A i \in DOMAIN parts : s[i].block = parts[i]
  BY <1>1
<1>5. Text(s) = UNION {parts[i] : i \in DOMAIN parts}
  BY <1>1, <1>4 DEF Text
<1> QED BY <1>3, <1>5 DEF Covers

\* A sequence of chunks whose first was counted again.
Recounted(s, x) == [s EXCEPT ![1].seen = x]

LEMMA TextOfRecounted ==
  ASSUME NEW b, NEW s \in Seq(ChunksOf(b)), s # <<>>, NEW x \in Int,
         NEW t, t = Recounted(s, x)
  PROVE  t \in Seq(ChunksOf(b)) /\ Text(t) = Text(s)
<1> USE DEF Recounted
<1>1. /\ Len(s) \in Nat \ {0} /\ DOMAIN s = 1..Len(s)
      /\ \A i \in 1..Len(s) : s[i] \in ChunksOf(b)
  OBVIOUS
<1>2. DOMAIN t = DOMAIN s /\ \A i \in DOMAIN s : t[i] \in ChunksOf(b) /\ t[i].block = s[i].block
  BY <1>1 DEF ChunksOf
<1>3. t \in Seq(ChunksOf(b))
  <2>1. t \in [1..Len(s) -> ChunksOf(b)]
    BY <1>1, <1>2
  <2> QED BY <1>1, <2>1
<1> QED BY <1>2, <1>3 DEF Text

-----------------------------------------------------------------------------
(* What the documents give is finite. *)

LEMMA ElementOf ==
  ASSUME NEW S, NEW s \in Seq(S), NEW i \in DOMAIN s
  PROVE  s[i] \in S
OBVIOUS

LEMMA UnitsFinite ==
  ASSUME NEW d \in 1..DocBound, NEW p \in 1..PageBound, NEW n \in Nat
  PROVE  Units(d, p, n) \subseteq Unit /\ IsFiniteSet(Units(d, p, n))
<1>1. Units(d, p, n) \subseteq Unit
  BY DEF Units, Unit
<1> DEFINE f == [u \in 1..n |-> <<d, p, u>>]
<1>2. f \in Surjection(1..n, Units(d, p, n))
  BY DEF Surjection, Units
<1>3. IsFiniteSet(1..n)
  BY FS_Interval
<1> HIDE DEF f
<1> QED BY <1>1, <1>2, <1>3, FS_Surjection

LEMMA UpToFinite ==
  ASSUME NEW n \in Nat
  PROVE  IsFiniteSet(1..n) /\ Cardinality(1..n) = n
<1>1. 1 \in Int /\ n \in Int
  OBVIOUS
<1>2. IsFiniteSet(1..n) /\ Cardinality(1..n) = IF 1 > n THEN 0 ELSE n - 1 + 1
  BY <1>1, FS_Interval
<1> QED BY <1>2

LEMMA DocumentUnitsFinite ==
  ASSUME source \in Sources, NEW d \in 1..Len(source.docs), NEW transcribed
  PROVE  DocumentUnits(d, transcribed) \subseteq Unit /\ IsFiniteSet(DocumentUnits(d, transcribed))
<1> DEFINE pages == source.docs[d]
           size(p) == pages[p].text + (IF p \in transcribed THEN pages[p].scan ELSE 0)
           S == {Units(d, p, size(p)) : p \in DOMAIN pages}
           f == [p \in DOMAIN pages |-> Units(d, p, size(p))]
<1>1. /\ source.docs \in Seq(Seq([text : Nat, scan : Nat]))
      /\ Len(source.docs) <= DocBound /\ Len(pages) <= PageBound
  BY ExtractionAssumption DEF SourceOK
<1>2. d \in 1..DocBound /\ pages \in Seq([text : Nat, scan : Nat])
  BY <1>1, PlanningAssumption
<1>3. Len(pages) \in Nat /\ DOMAIN pages = 1..Len(pages) /\ 1..Len(pages) \subseteq 1..PageBound
  BY <1>1, <1>2, PlanningAssumption, SMTT(40)
<1>4. \A p \in DOMAIN pages : size(p) \in Nat
  <2> SUFFICES ASSUME NEW p \in DOMAIN pages PROVE size(p) \in Nat
    OBVIOUS
  <2>1. pages[p] \in [text : Nat, scan : Nat]
    BY <1>2, ElementOf
  <2>2. pages[p].text \in Nat /\ pages[p].scan \in Nat
    BY <2>1
  <2>3. CASE p \in transcribed
    BY <2>2, <2>3
  <2>4. CASE p \notin transcribed
    BY <2>2, <2>4
  <2> QED BY <2>3, <2>4
<1>5. \A p \in DOMAIN pages : Units(d, p, size(p)) \subseteq Unit /\ IsFiniteSet(Units(d, p, size(p)))
  BY <1>2, <1>3, <1>4, UnitsFinite
<1>6. f \in Surjection(DOMAIN pages, S)
  BY DEF Surjection
<1>7. IsFiniteSet(DOMAIN pages)
  BY <1>3, UpToFinite
<1>8. IsFiniteSet(S)
  <2> HIDE DEF f, S
  <2> QED BY <1>6, <1>7, FS_Surjection
<1>9. DocumentUnits(d, transcribed) = UNION S
  BY DEF DocumentUnits
<1>10. (\A T \in S : IsFiniteSet(T)) /\ UNION S \subseteq Unit
  BY <1>5
<1> QED
  <2> HIDE DEF S
  <2> QED BY <1>8, <1>9, <1>10, FS_UNION

-----------------------------------------------------------------------------
(* Nothing is skipped. *)

\* While a phase is in its split, what it has read and what is left to read are
\* together the prompt source; PROJECTS starts when CORE has read it all.
Reading ==
  /\ source \in Sources /\ built \in Nat
  /\ prompt \in SUBSET Unit /\ IsFiniteSet(prompt)
  /\ work \in Seq(ChunksOf(prompt))
  /\ read \in [Extracting -> SUBSET prompt]
  /\ window \in Windows
  /\ phase = "building" => work = <<>> /\ read = [p \in Extracting |-> {}]
  /\ phase \in Extracting /\ step \in {"count", "leaves"} => source.mode = "compact"
  /\ phase \in Extracting /\ step = "leaves" => read[phase] \cup Text(work) = prompt
  /\ phase = "projects" => read["core"] = prompt
  /\ phase \in {"second", "succeeded"} => read["core"] = prompt /\ read["projects"] = prompt

LEMMA ReadingInit == Init => Reading
<1> SUFFICES ASSUME Init PROVE Reading
  OBVIOUS
<1>1. IsFiniteSet({}) /\ <<>> \in Seq(ChunksOf({}))
  BY FS_EmptySet
<1>2. /\ source \in Sources /\ built = 0 /\ prompt = {} /\ window \in Windows
      /\ phase = "building" /\ work = <<>> /\ read = [p \in Extracting |-> {}]
  BY DEF Init
<1>3. work \in Seq(ChunksOf(prompt)) /\ read \in [Extracting -> SUBSET prompt]
  BY <1>1, <1>2
<1> QED BY <1>1, <1>2, <1>3 DEF Reading, Extracting

LEMMA ReadingBuild ==
  ASSUME Reading, BuildDocument \/ LoseDocument \/ StartExtraction
  PROVE  Reading'
<1>1. /\ phase = "building" /\ work = <<>> /\ read = [p \in Extracting |-> {}]
      /\ source' = source /\ built' \in Nat /\ window' = window /\ work' = work /\ read' = read
  BY DEF Reading, BuildDocument, LoseDocument, StartExtraction, control
<1>2. prompt' \in SUBSET Unit /\ IsFiniteSet(prompt')
  <2>1. CASE BuildDocument
    <3>1. PICK transcribed : prompt' = prompt \cup DocumentUnits(built + 1, transcribed)
      BY <2>1 DEF BuildDocument
    <3>2. built + 1 \in 1..Len(source.docs)
      <4>1. built < Len(source.docs) /\ source.docs \in Seq(Seq([text : Nat, scan : Nat]))
        BY <2>1, ExtractionAssumption DEF BuildDocument, Reading, SourceOK
      <4>2. built \in Nat /\ Len(source.docs) \in Nat
        BY <4>1 DEF Reading
      <4> QED BY <4>1, <4>2
    <3> QED BY <3>1, <3>2, DocumentUnitsFinite, FS_Union DEF Reading
  <2>2. CASE LoseDocument
    BY <2>2 DEF LoseDocument, Reading
  <2>3. CASE StartExtraction
    <3>1. prompt' \in SUBSET prompt
      BY <2>3 DEF StartExtraction, Capped
    <3> QED BY <3>1, FS_Subset DEF Reading
  <2> QED BY <2>1, <2>2, <2>3
<1>3. work' \in Seq(ChunksOf(prompt')) /\ read' \in [Extracting -> SUBSET prompt']
  BY <1>1
<1>4. phase' \in {"building", "core", "failed"}
      /\ (phase' = "core" => step' # "leaves" /\ (step' = "count" => source.mode = "compact"))
  BY <1>1 DEF BuildDocument, LoseDocument, StartExtraction, control
<1> QED BY <1>1, <1>2, <1>3, <1>4 DEF Reading, Extracting

\* What every later step leaves alone.
Input == /\ source' = source /\ built' = built /\ prompt' = prompt
         /\ window' \in Windows

LEMMA ReadingEnds ==
  ASSUME Reading, Input, phase' = "failed", work' = work, read' = read
  PROVE  Reading'
BY DEF Reading, Input, Extracting

\* A complete phase has read the whole prompt source.
LEMMA ReadingComplete ==
  ASSUME Reading, Input, phase \in Extracting, work' = work,
         read' \in [Extracting -> SUBSET prompt], read'[phase] = prompt,
         phase = "projects" => read'["core"] = prompt,
         source.mode = "single" => read'["core"] = prompt /\ read'["projects"] = prompt,
         NEW isSplit, NEW left, NEW made, NEW n, Complete(isSplit, left, made, n)
  PROVE  Reading'
<1>1. \/ phase' = "failed"
      \/ phase' = "succeeded" /\ (phase = "core" => source.mode = "single")
      \/ /\ phase = "core" /\ phase' = "projects"
         /\ step' \in {"count", "ask"} /\ (step' = "count" => source.mode = "compact")
      \/ phase = "projects" /\ phase' = "second"
  BY AfterComplete
<1>2. CASE phase' = "failed"
  BY <1>2 DEF Reading, Input, Extracting
<1>3. CASE phase' = "succeeded" /\ (phase = "core" => source.mode = "single")
  BY <1>3 DEF Reading, Input, Extracting
<1>4. CASE /\ phase = "core" /\ phase' = "projects"
           /\ step' \in {"count", "ask"} /\ (step' = "count" => source.mode = "compact")
  BY <1>4 DEF Reading, Input, Extracting
<1>5. CASE phase = "projects" /\ phase' = "second"
  BY <1>5 DEF Reading, Input, Extracting
<1> QED BY <1>1, <1>2, <1>3, <1>4, <1>5

LEMMA ReadingAnswered ==
  ASSUME Reading, Input, phase \in Extracting, NEW n, Answered(n)
  PROVE  Reading'
<1>1. /\ read' = [p \in Extracting |->
                     IF p = phase \/ source.mode = "single" THEN prompt ELSE read[p]]
      /\ work' = work
  BY DEF Answered
<1>2. /\ read' \in [Extracting -> SUBSET prompt] /\ read'[phase] = prompt
      /\ phase = "projects" => read'["core"] = prompt
      /\ source.mode = "single" => read'["core"] = prompt /\ read'["projects"] = prompt
  BY <1>1 DEF Reading, Extracting
<1>3. CASE step' = "recover" /\ phase' = phase
  BY <1>1, <1>2, <1>3 DEF Reading, Input, Extracting
<1>4. CASE Complete(FALSE, recovery, calls', n)
  BY <1>1, <1>2, <1>4, ReadingComplete
<1> QED BY <1>3, <1>4, AfterAnswer

LEMMA ReadingEnterSplit ==
  ASSUME Reading, Input, phase \in Extracting, source.mode = "compact",
         NEW blocks, EnterSplit(blocks),
         phase = "core" => Covers(Pack(blocks, CoreCalls, window), prompt),
         phase = "projects" => Covers(blocks, prompt)
  PROVE  Reading'
<1>1. CASE phase = "projects" /\ Len(blocks) > ProjectCalls
  <2>1. phase' = "failed" /\ work' = work /\ read' = read
    BY <1>1 DEF EnterSplit, Fail
  <2> QED BY <2>1, ReadingEnds
<1>2. CASE ~(phase = "projects" /\ Len(blocks) > ProjectCalls)
  <2> DEFINE chunks == IF phase = "core" THEN Pack(blocks, CoreCalls, window) ELSE blocks
  <2>1. /\ phase' = phase /\ step' = "leaves" /\ read' = [read EXCEPT ![phase] = {}]
        /\ work' = [i \in DOMAIN chunks |-> [block |-> chunks[i], depth |-> 0, seen |-> 0]]
    BY <1>2 DEF EnterSplit, Leaves
  <2>2. Covers(chunks, prompt)
    BY DEF Extracting
  <2>3. work' \in Seq(ChunksOf(prompt)) /\ Text(work') = prompt
    <3> HIDE DEF chunks
    <3> QED BY <2>1, <2>2, TextOfParts
  <2>4. /\ read' \in [Extracting -> SUBSET prompt] /\ read'[phase] = {}
        /\ phase = "projects" => read'["core"] = read["core"]
    BY <2>1 DEF Reading, Extracting
  <2>5. Text(work)' = prompt
    BY <2>3 DEF Text
  <2> HIDE DEF chunks
  <2> QED BY <2>1, <2>3, <2>4, <2>5 DEF Reading, Input, Extracting
<1> QED BY <1>1, <1>2

LEMMA PlansHold ==
  ASSUME Reading, NEW forced
  PROVE  /\ phase = "core" => Covers(Pack(Plan(forced), CoreCalls, window), prompt)
         /\ phase = "projects" => Covers(Plan(forced), prompt)
<1>1. prompt \in SUBSET Unit /\ IsFiniteSet(prompt) /\ CoreCalls \in Nat
  BY ExtractionAssumption DEF Reading
<1>2. /\ Covers(PlanCore(prompt, window, forced), prompt)
      /\ Covers(PlanProjects(prompt, window, forced), prompt)
  BY <1>1, PlanCoreCovers, PlanProjectsCovers
<1>3. Covers(Pack(PlanCore(prompt, window, forced), CoreCalls, window), prompt)
  BY <1>1, <1>2, PackCovers
<1> QED BY <1>2, <1>3 DEF Plan

LEMMA ReadingWhole ==
  ASSUME Reading, AskPlain \/ CountRoot \/ AskWhole
  PROVE  Reading'
<1>1. Input /\ phase \in Extracting
  BY DEF Reading, AskPlain, CountRoot, AskWhole, input, Input
<1>2. CASE AskPlain
  <2>1. \/ \E n \in 0..2 : Answered(n)
        \/ step' = "recover" /\ phase' = phase /\ work' = work /\ read' = read
        \/ Fail
    BY <1>2 DEF AskPlain
  <2>2. CASE \E n \in 0..2 : Answered(n)
    BY <1>1, <2>2, ReadingAnswered
  <2>3. CASE step' = "recover" /\ phase' = phase /\ work' = work /\ read' = read
    BY <1>1, <2>3 DEF Reading, Input, Extracting
  <2>4. CASE Fail
    BY <1>1, <2>4, ReadingEnds DEF Fail
  <2> QED BY <2>1, <2>2, <2>3, <2>4
<1>3. CASE CountRoot
  <2> DEFINE recall == IF phase = "projects" /\ source.rich
                       THEN RecallPlan(prompt, source.tables, source.dense, ProjectCalls)
                       ELSE <<>>
  <2>1. source.mode = "compact"
    BY <1>1, <1>3 DEF CountRoot, Reading
  <2>2. \/ Fail
        \/ recall # <<>> /\ EnterSplit(recall)
        \/ EnterSplit(Plan(FALSE))
        \/ step' = "ask" /\ phase' = phase /\ work' = work /\ read' = read
    BY <1>3 DEF CountRoot
  <2>3. CASE Fail
    BY <1>1, <2>3, ReadingEnds DEF Fail
  <2>4. CASE recall # <<>> /\ EnterSplit(recall)
    <3>1. phase = "projects" /\ recall = RecallPlan(prompt, source.tables, source.dense, ProjectCalls)
      BY <2>4
    <3>2. prompt \in SUBSET Unit /\ IsFiniteSet(prompt) /\ ProjectCalls \in Nat
      BY ExtractionAssumption DEF Reading
    <3>3. Covers(recall, prompt)
      BY <2>4, <3>1, <3>2, RecallCovers
    <3> HIDE DEF recall
    <3> QED BY <1>1, <2>1, <2>4, <3>1, <3>3, ReadingEnterSplit
  <2>5. CASE EnterSplit(Plan(FALSE))
    BY <1>1, <2>1, <2>5, PlansHold, ReadingEnterSplit
  <2>6. CASE step' = "ask" /\ phase' = phase /\ work' = work /\ read' = read
    BY <1>1, <2>6 DEF Reading, Input, Extracting
  <2> HIDE DEF recall
  <2> QED BY <2>2, <2>3, <2>4, <2>5, <2>6
<1>4. CASE AskWhole
  <2>1. /\ source.mode = "compact"
        /\ \/ \E n \in 0..2 : Answered(n)
           \/ \E forced \in BOOLEAN : EnterSplit(Plan(forced))
           \/ Fail
    BY <1>4 DEF AskWhole
  <2>2. CASE \E n \in 0..2 : Answered(n)
    BY <1>1, <2>2, ReadingAnswered
  <2>3. CASE \E forced \in BOOLEAN : EnterSplit(Plan(forced))
    <3>1. PICK forced \in BOOLEAN : EnterSplit(Plan(forced))
      BY <2>3
    <3> QED BY <1>1, <2>1, <3>1, PlansHold, ReadingEnterSplit
  <2>4. CASE Fail
    BY <1>1, <2>4, ReadingEnds DEF Fail
  <2> QED BY <2>1, <2>2, <2>3, <2>4
<1> QED BY <1>2, <1>3, <1>4

\* The parts of a chunk take its place.
LEMMA ReadingShrink ==
  ASSUME Reading, Input, phase \in Extracting, step = "leaves", work # <<>>,
         Shrink(Head(work))
  PROVE  Reading'
<1> DEFINE leaf  == Head(work)
           parts == SplitLeaf(leaf.block)
           cut   == [i \in DOMAIN parts |-> [block |-> parts[i], depth |-> leaf.depth + 1, seen |-> 0]]
<1>1. /\ leaf \in ChunksOf(prompt) /\ Tail(work) \in Seq(ChunksOf(prompt))
      /\ Text(work) = leaf.block \cup Text(Tail(work))
  BY TextOfFirst DEF Reading
<1>2. work' = cut \o Tail(work) /\ phase' = phase /\ step' = step /\ read' = read
  BY DEF Shrink
<1>3. leaf.block \in SUBSET prompt /\ leaf.depth + 1 \in Nat
  BY <1>1 DEF ChunksOf
<1>4. leaf.block \in SUBSET Unit /\ IsFiniteSet(leaf.block)
  BY <1>3, FS_Subset DEF Reading
<1>5. Covers(parts, leaf.block)
  BY <1>4, SubsplitPhaseCovers, SubsplitProjectCovers DEF SplitLeaf
<1>6. cut \in Seq(ChunksOf(prompt)) /\ Text(cut) = leaf.block
  <2> DEFINE block == leaf.block  d == leaf.depth + 1
  <2>1. /\ block \in SUBSET prompt /\ d \in Nat /\ Covers(parts, block)
        /\ cut = [i \in DOMAIN parts |-> [block |-> parts[i], depth |-> d, seen |-> 0]]
    BY <1>3, <1>5
  <2> HIDE DEF parts, cut, block, d
  <2>2. cut \in Seq(ChunksOf(prompt)) /\ Text(cut) = block
    BY <2>1, TextOfParts
  <2> QED BY <2>2 DEF block
<1>7. work' \in Seq(ChunksOf(prompt)) /\ Text(work') = Text(work)
  <2> DEFINE rest == Tail(work)
  <2>1. /\ work' = cut \o rest /\ Text(work) = Text(cut) \cup Text(rest)
        /\ cut \in Seq(ChunksOf(prompt)) /\ rest \in Seq(ChunksOf(prompt))
    BY <1>1, <1>2, <1>6
  <2> HIDE DEF cut, rest
  <2>2. /\ cut \o rest \in Seq(ChunksOf(prompt))
        /\ Text(cut \o rest) = Text(cut) \cup Text(rest)
    BY <2>1, TextOfBoth
  <2> QED BY <2>1, <2>2
<1>8. Text(work)' = Text(work)
  BY <1>7 DEF Text
<1> QED BY <1>2, <1>7, <1>8 DEF Reading, Input, Extracting

LEMMA ReadingAccept ==
  ASSUME Reading, Input, phase \in Extracting, step = "leaves", work # <<>>, AcceptLeaf
  PROVE  Reading'
<1>1. /\ Head(work) \in ChunksOf(prompt) /\ Tail(work) \in Seq(ChunksOf(prompt))
      /\ Text(work) = Head(work).block \cup Text(Tail(work))
  BY TextOfFirst DEF Reading
<1>2. /\ read' = [read EXCEPT ![phase] = read[phase] \cup Head(work).block]
      /\ work' = Tail(work) /\ phase' = phase /\ step' = step
  BY DEF AcceptLeaf
<1>3. Head(work).block \in SUBSET prompt
  BY <1>1 DEF ChunksOf
<1>4. /\ read' \in [Extracting -> SUBSET prompt]
      /\ read'[phase] = read[phase] \cup Head(work).block
      /\ phase = "projects" => read'["core"] = read["core"]
  BY <1>2, <1>3 DEF Reading, Extracting
<1>5. Text(work)' = Text(Tail(work))
  BY <1>2 DEF Text
<1>6. read'[phase] \cup Text(work)' = prompt
  BY <1>1, <1>4, <1>5 DEF Reading
<1> QED BY <1>1, <1>2, <1>4, <1>6 DEF Reading, Input, Extracting

LEMMA ReadingMeasured ==
  ASSUME Reading, Input, phase \in Extracting, step = "leaves", work # <<>>,
         NEW x \in Int, work' = Recounted(work, x),
         phase' = phase, step' = step, read' = read
  PROVE  Reading'
<1>1. work' \in Seq(ChunksOf(prompt)) /\ Text(work') = Text(work)
  <2>1. work \in Seq(ChunksOf(prompt))
    BY DEF Reading
  <2> QED BY <2>1, TextOfRecounted
<1>2. Text(work)' = Text(work)
  BY <1>1 DEF Text
<1> QED BY <1>1, <1>2 DEF Reading, Input, Extracting

LEMMA ReadingLeaf ==
  ASSUME Reading, MeasureLeaf \/ AskLeaf \/ AskLeafAgain
  PROVE  Reading'
<1>1. Input /\ phase \in Extracting /\ step = "leaves" /\ work # <<>>
  BY DEF Reading, MeasureLeaf, AskLeaf, AskLeafAgain, input, Input
<1>2. \/ Fail
      \/ Shrink(Head(work))
      \/ AcceptLeaf
      \/ /\ work' = Recounted(work, window)
         /\ phase' = phase /\ step' = step /\ read' = read
      \/ /\ work' = Recounted(work, -1)
         /\ phase' = phase /\ step' = step /\ read' = read
  <2>1. CASE MeasureLeaf
    BY <2>1 DEF MeasureLeaf, ShrinkOrFail, Recounted
  <2>2. CASE AskLeaf
    BY <2>2 DEF AskLeaf, RecountedOver, ShrinkOrFail, Recounted
  <2>3. CASE AskLeafAgain
    BY <2>3 DEF AskLeafAgain
  <2> QED BY <2>1, <2>2, <2>3
<1>3. CASE Fail
  BY <1>1, <1>3, ReadingEnds DEF Fail
<1>4. CASE Shrink(Head(work))
  BY <1>1, <1>4, ReadingShrink
<1>5. CASE AcceptLeaf
  BY <1>1, <1>5, ReadingAccept
<1>6. CASE /\ work' = Recounted(work, window)
           /\ phase' = phase /\ step' = step /\ read' = read
  <2>1. window \in Int
    BY ExtractionAssumption DEF Reading
  <2> QED BY <1>1, <1>6, <2>1, ReadingMeasured
<1>7. CASE /\ work' = Recounted(work, -1)
           /\ phase' = phase /\ step' = step /\ read' = read
  <2>1. -1 \in Int
    OBVIOUS
  <2> QED BY <1>1, <1>7, <2>1, ReadingMeasured
<1> QED BY <1>2, <1>3, <1>4, <1>5, <1>6, <1>7

LEMMA ReadingLeavesDone ==
  ASSUME Reading, LeavesDone
  PROVE  Reading'
<1>1. /\ phase \in Extracting /\ step = "leaves" /\ work = <<>>
      /\ work' = work /\ read' = read
      /\ Complete(split, recovery, calls, items[phase])
  BY DEF LeavesDone
<1>2. Input
  BY DEF Reading, LeavesDone, input, Input
<1>3. Text(work) = {}
  BY <1>1 DEF Text
<1>4. read[phase] = prompt /\ source.mode # "single" /\ (phase = "projects" => read["core"] = prompt)
  BY <1>1, <1>3 DEF Reading
<1>5. read \in [Extracting -> SUBSET prompt]
  BY DEF Reading
<1> QED BY <1>1, <1>2, <1>4, <1>5, ReadingComplete

LEMMA ReadingStep ==
  ASSUME Reading, [Next]_vars
  PROVE  Reading'
<1>1. CASE BuildDocument \/ LoseDocument \/ StartExtraction
  BY <1>1, ReadingBuild
<1>2. CASE AskPlain \/ CountRoot \/ AskWhole
  BY <1>2, ReadingWhole
<1>3. CASE MeasureLeaf \/ AskLeaf \/ AskLeafAgain
  BY <1>3, ReadingLeaf
<1>4. CASE LeavesDone
  BY <1>4, ReadingLeavesDone
<1>5. CASE AskSecond
  BY <1>5 DEF AskSecond, Reading, input, Extracting
<1>6. CASE Drift
  BY <1>6 DEF Drift, Reading, input, control, Extracting, Text
<1>7. CASE UNCHANGED vars
  BY <1>7 DEF vars, Reading, Text
<1> QED BY <1>1, <1>2, <1>3, <1>4, <1>5, <1>6, <1>7 DEF Next, Step

\* Whatever the routes and the answers do, between a plan, its packed groups,
\* the parts of a chunk and the merge no piece of the source is lost: a result
\* that is kept was read from all of it (service.py:2205, 2586).
THEOREM NothingIsSkipped == Spec => []WholeSourceRead
<1>1. Reading => WholeSourceRead
  BY DEF Reading, WholeSourceRead
<1>2. Reading /\ [Next]_vars => Reading'
  BY ReadingStep
<1> QED BY <1>1, <1>2, ReadingInit, PTL DEF Spec

-----------------------------------------------------------------------------
(* Lists, whatever is in them. *)

List(s) == s \in Seq(WordsOf(s))

LEMMA ListFacts ==
  ASSUME NEW s, List(s)
  PROVE  Len(s) \in Nat /\ DOMAIN s = 1..Len(s) /\ Listed(s, Len(s))
BY DEF List, Listed

LEMMA ListIs ==
  ASSUME NEW n \in Nat, NEW f, Listed(f, n)
  PROVE  List(f) /\ Len(f) = n /\ DOMAIN f = 1..n
<1> DEFINE S == WordsOf(f)
<1>1. DOMAIN f = 1..n
  BY DEF Listed
<1>2. \A i \in 1..n : f[i] \in S
  BY <1>1 DEF WordsOf
<1> HIDE DEF S
<1>3. f \in Seq(S) /\ Len(f) = n
  BY <1>2, ListedSeq
<1> QED BY <1>1, <1>3 DEF S, List

LEMMA SeqIsList ==
  ASSUME NEW S, NEW s \in Seq(S)
  PROVE  List(s) /\ WordsOf(s) \subseteq S
<1>1. Len(s) \in Nat /\ DOMAIN s = 1..Len(s) /\ s = [i \in 1..Len(s) |-> s[i]] /\ \A i \in 1..Len(s) : s[i] \in S
  OBVIOUS
<1>2. List(s)
  BY <1>1, ListIs DEF Listed
<1> QED BY <1>1, <1>2 DEF WordsOf

LEMMA ListIsSeq ==
  ASSUME NEW S, NEW s, List(s), WordsOf(s) \subseteq S
  PROVE  s \in Seq(S)
<1>1. Len(s) \in Nat /\ DOMAIN s = 1..Len(s) /\ Listed(s, Len(s))
  BY ListFacts
<1>2. \A i \in 1..Len(s) : s[i] \in S
  BY <1>1 DEF WordsOf
<1> QED BY <1>1, <1>2, ListedSeq

\* A list with every row replaced.
LEMMA ListLike ==
  ASSUME NEW s, List(s), NEW f, f = [i \in DOMAIN s |-> f[i]]
  PROVE  List(f) /\ DOMAIN f = DOMAIN s /\ Len(f) = Len(s)
<1>1. Len(s) \in Nat /\ DOMAIN s = 1..Len(s)
  BY ListFacts
<1>2. Listed(f, Len(s))
  BY <1>1 DEF Listed
<1> QED BY <1>1, <1>2, ListIs

LEMMA EmptyList == List(<<>>) /\ WordsOf(<<>>) = {}
BY DEF List, WordsOf

LEMMA Concat ==
  ASSUME NEW s, NEW t, List(s), List(t)
  PROVE  /\ List(s \o t) /\ WordsOf(s \o t) = WordsOf(s) \cup WordsOf(t)
         /\ Len(s \o t) = Len(s) + Len(t)
         /\ \A i \in 1..Len(s) : (s \o t)[i] = s[i]
         /\ \A i \in 1..Len(t) : (s \o t)[Len(s) + i] = t[i]
<1> DEFINE S == WordsOf(s) \cup WordsOf(t)
<1>1. s \in Seq(S) /\ t \in Seq(S)
  BY ListIsSeq
<1> HIDE DEF S
<1>2. s \o t \in Seq(S) /\ Range(s \o t) = Range(s) \cup Range(t)
  BY <1>1, JoinedLists
<1>3. List(s \o t)
  BY <1>2, SeqIsList
<1>4. /\ Len(s \o t) = Len(s) + Len(t)
      /\ \A i \in 1..Len(s) : (s \o t)[i] = s[i]
      /\ \A i \in 1..Len(t) : (s \o t)[Len(s) + i] = t[i]
  BY <1>1
<1> QED BY <1>2, <1>3, <1>4 DEF Range, WordsOf

LEMMA AppendList ==
  ASSUME NEW s, NEW x, List(s)
  PROVE  /\ List(Append(s, x)) /\ WordsOf(Append(s, x)) = WordsOf(s) \cup {x}
         /\ Len(Append(s, x)) = Len(s) + 1
<1> DEFINE S == WordsOf(s) \cup {x}
<1>1. s \in Seq(S) /\ x \in S
  BY ListIsSeq
<1> HIDE DEF S
<1>2. /\ Append(s, x) \in Seq(S) /\ Len(Append(s, x)) = Len(s) + 1 /\ Len(s) \in Nat
      /\ DOMAIN s = 1..Len(s) /\ DOMAIN Append(s, x) = 1..(Len(s) + 1)
      /\ \A i \in 1..(Len(s) + 1) : Append(s, x)[i] = IF i = Len(s) + 1 THEN x ELSE s[i]
  BY <1>1
<1>3. List(Append(s, x))
  BY <1>2, SeqIsList
<1>4. ASSUME NEW i \in DOMAIN s PROVE s[i] \in WordsOf(Append(s, x))
  <2>1. i \in 1..(Len(s) + 1) /\ i # Len(s) + 1
    BY <1>2
  <2> QED BY <1>2, <2>1 DEF WordsOf
<1>5. x \in WordsOf(Append(s, x))
  <2>1. Len(s) + 1 \in 1..(Len(s) + 1)
    BY <1>2
  <2> QED BY <1>2, <2>1 DEF WordsOf
<1>6. ASSUME NEW i \in DOMAIN Append(s, x) PROVE Append(s, x)[i] \in WordsOf(s) \cup {x}
  <2>1. i # Len(s) + 1 => i \in DOMAIN s
    BY <1>2
  <2> QED BY <1>2, <2>1 DEF WordsOf
<1> QED BY <1>2, <1>3, <1>4, <1>5, <1>6 DEF WordsOf

LEMMA FlattenList ==
  ASSUME NEW ss, List(ss), \A i \in DOMAIN ss : List(ss[i])
  PROVE  /\ List(FlattenSeq(ss))
         /\ WordsOf(FlattenSeq(ss)) = UNION {WordsOf(ss[i]) : i \in DOMAIN ss}
<1> DEFINE S == UNION {WordsOf(ss[i]) : i \in DOMAIN ss}
<1>1. Len(ss) \in Nat /\ DOMAIN ss = 1..Len(ss) /\ Listed(ss, Len(ss))
  BY ListFacts
<1>2. \A i \in 1..Len(ss) : ss[i] \in Seq(S)
  <2> SUFFICES ASSUME NEW i \in 1..Len(ss) PROVE ss[i] \in Seq(S)
    OBVIOUS
  <2>1. List(ss[i]) /\ WordsOf(ss[i]) \subseteq S
    BY <1>1
  <2> HIDE DEF S
  <2> QED BY <2>1, ListIsSeq
<1> HIDE DEF S
<1>3. FlattenSeq(ss) \in Seq(S) /\ Range(FlattenSeq(ss)) = UNION {Range(ss[i]) : i \in 1..Len(ss)}
  BY <1>1, <1>2, FlattenHolds
<1>4. List(FlattenSeq(ss))
  BY <1>3, SeqIsList
<1>5. WordsOf(FlattenSeq(ss)) = Range(FlattenSeq(ss)) /\ \A i \in 1..Len(ss) : WordsOf(ss[i]) = Range(ss[i])
  BY DEF WordsOf, Range
<1> QED BY <1>1, <1>3, <1>4, <1>5

-----------------------------------------------------------------------------
(* Sets in an order. *)

StrictOrder(S, before) ==
  /\ \A x \in S : <<x, x>> \notin before
  /\ \A x, y, z \in S : <<x, y>> \in before /\ <<y, z>> \in before => <<x, z>> \in before
  /\ \A x, y \in S : x # y => <<x, y>> \in before \/ <<y, x>> \in before

Below(S, before, x) == {y \in S : <<y, x>> \in before}

LEMMA RanksDiffer ==
  ASSUME NEW S, IsFiniteSet(S), NEW before, StrictOrder(S, before)
  PROVE  /\ \A x \in S : Cardinality(Below(S, before, x)) \in 0..(Cardinality(S) - 1)
         /\ \A x, y \in S : Cardinality(Below(S, before, x)) = Cardinality(Below(S, before, y)) => x = y
<1> DEFINE below(x) == Below(S, before, x)
<1>1. Cardinality(S) \in Nat
  BY FS_CardinalityType
<1>2. ASSUME NEW x \in S
      PROVE  /\ IsFiniteSet(below(x)) /\ Cardinality(below(x)) \in Nat
             /\ x \notin below(x) /\ Cardinality(below(x)) < Cardinality(S)
  <2>1. below(x) \in SUBSET S
    BY DEF Below
  <2>2. x \notin below(x)
    BY DEF StrictOrder, Below
  <2> HIDE DEF below
  <2>3. IsFiniteSet(below(x)) /\ Cardinality(below(x)) <= Cardinality(S)
        /\ (Cardinality(S) = Cardinality(below(x)) => S = below(x))
    BY <2>1, FS_Subset
  <2>4. Cardinality(below(x)) \in Nat
    BY <2>3, FS_CardinalityType
  <2> QED BY <1>1, <2>2, <2>3, <2>4
<1>3. ASSUME NEW x \in S, NEW y \in S, <<x, y>> \in before
      PROVE  Cardinality(below(x)) < Cardinality(below(y))
  <2>1. x \in below(y)
    BY <1>3 DEF Below
  <2>2. \A z \in below(x) : z \in below(y)
    BY <1>3 DEF StrictOrder, Below
  <2> HIDE DEF below
  <2>3. below(x) \in SUBSET below(y) /\ below(x) # below(y)
    BY <1>2, <2>1, <2>2
  <2>4. Cardinality(below(x)) <= Cardinality(below(y))
        /\ (Cardinality(below(y)) = Cardinality(below(x)) => below(y) = below(x))
    BY <1>2, <2>3, FS_Subset
  <2> QED BY <1>2, <2>3, <2>4
<1> HIDE DEF below
<1>4. ASSUME NEW x \in S, NEW y \in S, x # y PROVE Cardinality(below(x)) # Cardinality(below(y))
  <2>1. <<x, y>> \in before \/ <<y, x>> \in before
    BY <1>4 DEF StrictOrder
  <2> QED BY <1>2, <1>3, <2>1
<1>5. \A x \in S : Cardinality(below(x)) \in 0..(Cardinality(S) - 1)
  BY <1>1, <1>2
<1> QED BY <1>4, <1>5 DEF below

LEMMA RankExists ==
  ASSUME NEW S, IsFiniteSet(S), NEW before, StrictOrder(S, before), NEW i \in 1..Cardinality(S)
  PROVE  \E x \in S : Cardinality({y \in S : <<y, x>> \in before}) = i - 1
<1> DEFINE rank == [x \in S |-> Cardinality(Below(S, before, x))]
           T == 0..(Cardinality(S) - 1)
<1>1. Cardinality(S) \in Nat
  BY FS_CardinalityType
<1>2. rank \in Injection(S, T)
  <2>1. rank \in [S -> T]
    BY RanksDiffer
  <2>2. \A x, y \in S : rank[x] = rank[y] => x = y
    BY RanksDiffer
  <2> HIDE DEF rank
  <2> QED BY <2>1, <2>2 DEF Injection, IsInjective
<1>3. IsFiniteSet(T) /\ Cardinality(T) = Cardinality(S)
  <2> DEFINE c == Cardinality(S)
  <2>1. c \in Nat /\ 0 \in Int /\ c - 1 \in Int
    BY <1>1
  <2> HIDE DEF c
  <2>2. IsFiniteSet(0..(c - 1)) /\ Cardinality(0..(c - 1)) = IF 0 > c - 1 THEN 0 ELSE (c - 1) - 0 + 1
    BY <2>1, FS_Interval
  <2>3. Cardinality(0..(c - 1)) = c
    BY <2>1, <2>2
  <2> QED BY <2>2, <2>3 DEF c
<1> HIDE DEF T
<1>4. rank \in Surjection(S, T)
  <2> HIDE DEF rank
  <2> QED BY <1>2, <1>3, FS_Injection
<1>5. \A t \in T : \E x \in S : rank[x] = t
  <2> HIDE DEF rank
  <2> QED BY <1>4 DEF Surjection
<1>6. i - 1 \in T
  BY <1>1 DEF T
<1> QED BY <1>5, <1>6 DEF Below

\* The list holds each member once, the ones that come before first.
LEMMA OrderedHolds ==
  ASSUME NEW S, IsFiniteSet(S), NEW before, StrictOrder(S, before)
  PROVE  /\ List(Ordered(S, before)) /\ Len(Ordered(S, before)) = Cardinality(S)
         /\ Cardinality(S) \in Nat /\ DOMAIN Ordered(S, before) = 1..Cardinality(S)
         /\ \A i \in 1..Cardinality(S) :
                /\ Ordered(S, before)[i] \in S
                /\ Cardinality(Below(S, before, Ordered(S, before)[i])) = i - 1
<1> DEFINE f == Ordered(S, before)
           g(i) == CHOOSE x \in S : Cardinality({y \in S : <<y, x>> \in before}) = i - 1
<1>1. Cardinality(S) \in Nat
  BY FS_CardinalityType
<1>2. f = [i \in 1..Cardinality(S) |-> g(i)]
  BY DEF Ordered
<1>3. ASSUME NEW i \in 1..Cardinality(S) PROVE g(i) \in S /\ Cardinality(Below(S, before, g(i))) = i - 1
  <2>1. \E x \in S : Cardinality({y \in S : <<y, x>> \in before}) = i - 1
    BY RankExists
  <2>2. g(i) \in S /\ Cardinality({y \in S : <<y, g(i)>> \in before}) = i - 1
    BY <2>1
  <2> QED BY <2>2 DEF Below
<1> HIDE DEF f, g
<1>4. Listed(f, Cardinality(S))
  BY <1>2 DEF Listed
<1>5. List(f) /\ Len(f) = Cardinality(S) /\ DOMAIN f = 1..Cardinality(S)
  BY <1>1, <1>4, ListIs
<1>6. \A i \in 1..Cardinality(S) : f[i] \in S /\ Cardinality(Below(S, before, f[i])) = i - 1
  BY <1>2, <1>3
<1> QED BY <1>1, <1>5, <1>6 DEF f

LEMMA OrderedLists ==
  ASSUME NEW S, IsFiniteSet(S), NEW before, StrictOrder(S, before)
  PROVE  /\ \A i, j \in 1..Cardinality(S) : Ordered(S, before)[i] = Ordered(S, before)[j] => i = j
         /\ WordsOf(Ordered(S, before)) = S
<1> DEFINE f == Ordered(S, before)
<1>1. /\ Cardinality(S) \in Nat /\ DOMAIN f = 1..Cardinality(S)
      /\ \A i \in 1..Cardinality(S) : f[i] \in S /\ Cardinality(Below(S, before, f[i])) = i - 1
  BY OrderedHolds
<1> HIDE DEF f
<1>2. ASSUME NEW i \in 1..Cardinality(S), NEW j \in 1..Cardinality(S), f[i] = f[j] PROVE i = j
  <2>1. i - 1 = j - 1
    BY <1>1, <1>2
  <2> QED BY <1>1, <2>1
<1>3. ASSUME NEW x \in S PROVE \E i \in 1..Cardinality(S) : f[i] = x
  <2> DEFINE c == Cardinality(Below(S, before, x))
  <2>1. c \in 0..(Cardinality(S) - 1)
    BY RanksDiffer
  <2> HIDE DEF c
  <2> DEFINE i == c + 1
  <2>2. i \in 1..Cardinality(S) /\ i - 1 = c
    BY <1>1, <2>1
  <2> HIDE DEF i
  <2>3. f[i] \in S /\ Cardinality(Below(S, before, f[i])) = i - 1
    BY <1>1, <2>2
  <2>4. f[i] = x
    BY <2>2, <2>3, RanksDiffer DEF c
  <2> QED BY <2>2, <2>4
<1> QED BY <1>1, <1>2, <1>3 DEF f, WordsOf

\* The rows at some places.
LEMMA PlacesOf ==
  ASSUME NEW s, List(s), NEW I \in SUBSET DOMAIN s
  PROVE  /\ List(Places(I)) /\ WordsOf(Places(I)) = I /\ IsFiniteSet(I)
         /\ DOMAIN Places(I) = 1..Cardinality(I) /\ Cardinality(I) \in Nat
         /\ Len(Places(I)) = Cardinality(I)
         /\ \A i, j \in 1..Cardinality(I) : Places(I)[i] = Places(I)[j] => i = j
<1> DEFINE before == {p \in I \X I : p[1] < p[2]}
<1>1. Len(s) \in Nat /\ DOMAIN s = 1..Len(s)
  BY ListFacts
<1>2. IsFiniteSet(I)
  <2> DEFINE n == Len(s)
  <2>1. n \in Int /\ 1 \in Int /\ I \in SUBSET (1..n)
    BY <1>1
  <2> HIDE DEF n
  <2>2. IsFiniteSet(1..n)
    BY <2>1, FS_Interval
  <2> QED BY <2>1, <2>2, FS_Subset
<1>3. \A i, j \in I : <<i, j>> \in before <=> i < j
  OBVIOUS
<1>4. \A i \in I : i \in Nat
  BY <1>1
<1>5. Places(I) = Ordered(I, before)
  BY DEF Places
<1> HIDE DEF before
<1>6. StrictOrder(I, before)
  BY <1>3, <1>4 DEF StrictOrder
<1> QED BY <1>2, <1>5, <1>6, OrderedHolds, OrderedLists

LEMMA RowsAtHolds ==
  ASSUME NEW s, NEW places, List(places), NEW I, WordsOf(places) = I
  PROVE  /\ List(RowsAt(s, places)) /\ WordsOf(RowsAt(s, places)) = {s[i] : i \in I}
         /\ DOMAIN RowsAt(s, places) = DOMAIN places
         /\ \A n \in DOMAIN places : RowsAt(s, places)[n] = s[places[n]]
<1>1. RowsAt(s, places) = [n \in DOMAIN places |-> s[places[n]]]
  BY DEF RowsAt
<1>2. List(RowsAt(s, places))
  BY <1>1, ListLike
<1> QED BY <1>1, <1>2 DEF WordsOf

LEMMA SomeRows ==
  ASSUME NEW s, List(s), NEW I \in SUBSET DOMAIN s
  PROVE  /\ List(RowsAt(s, Places(I))) /\ WordsOf(RowsAt(s, Places(I))) = {s[i] : i \in I}
         /\ WordsOf(RowsAt(s, Places(I))) \subseteq WordsOf(s)
<1>1. List(Places(I)) /\ WordsOf(Places(I)) = I
  BY PlacesOf
<1>2. /\ List(RowsAt(s, Places(I))) /\ WordsOf(RowsAt(s, Places(I))) = {s[i] : i \in I}
  BY <1>1, RowsAtHolds
<1> QED BY <1>2 DEF WordsOf

-----------------------------------------------------------------------------
(* The first and the last of some numbers, the first of some pages. *)

LEMMA MinIs ==
  ASSUME NEW S \in SUBSET Nat, S # {}
  PROVE  Min(S) \in S /\ \A n \in S : Min(S) <= n
<1>1. \E m \in S : \A n \in S : m <= n
  BY Least
<1> QED BY <1>1 DEF Min

LEMMA MaxIs ==
  ASSUME NEW k \in Nat, NEW S \in SUBSET (0..k), S # {}
  PROVE  Max(S) \in S /\ \A n \in S : n <= Max(S)
<1> DEFINE T == {k - n : n \in S}
<1>1. T \in SUBSET Nat /\ T # {}
  <2>1. \A n \in S : n \in 0..k
    OBVIOUS
  <2>2. \A n \in S : k - n \in Nat
    BY <2>1
  <2> QED BY <2>2
<1>2. PICK m \in T : \A n \in T : m <= n
  <2> HIDE DEF T
  <2> QED BY <1>1, Least
<1>3. PICK x \in S : m = k - x
  BY <1>2
<1>4. ASSUME NEW n \in S PROVE x >= n
  <2>1. m <= k - n /\ x \in 0..k /\ n \in 0..k
    BY <1>2
  <2> QED BY <1>3, <2>1
<1>5. \E y \in S : \A n \in S : y >= n
  BY <1>4
<1>6. Max(S) \in S /\ \A n \in S : Max(S) >= n
  BY <1>5 DEF Max
<1>7. \A n \in S : n \in Nat
  OBVIOUS
<1> QED BY <1>6, <1>7

LEMMA FirstPageIn ==
  ASSUME NEW pages \in SUBSET (Nat \X Nat), pages # {}
  PROVE  FirstPage(pages) \in pages
<1> DEFINE docs == {a[1] : a \in pages}
<1>1. PICK d \in docs : \A e \in docs : d <= e
  <2>1. docs \in SUBSET Nat /\ docs # {}
    OBVIOUS
  <2> HIDE DEF docs
  <2> QED BY <2>1, Least
<1> DEFINE numbers == {a[2] : a \in {a \in pages : a[1] = d}}
<1>2. PICK n \in numbers : \A m \in numbers : n <= m
  <2>1. numbers \in SUBSET Nat /\ numbers # {}
    BY <1>1
  <2> HIDE DEF numbers
  <2> QED BY <2>1, Least
<1>3. PICK a \in pages : a[1] = d /\ a[2] = n
  BY <1>2
<1>4. ASSUME NEW b \in pages \ {a} PROVE Earlier(a, b)
  <2>1. /\ a = <<a[1], a[2]>> /\ b = <<b[1], b[2]>> /\ a[1] \in Nat /\ b[1] \in Nat /\ a[2] \in Nat
        /\ b[2] \in Nat /\ b \in pages /\ a # b
    OBVIOUS
  <2>2. d <= b[1]
    BY <1>1, <2>1
  <2>3. b[1] = d => n <= b[2]
    BY <1>2, <2>1
  <2> QED BY <1>3, <2>1, <2>2, <2>3 DEF Earlier
<1>5. \E x \in pages : \A b \in pages \ {x} : Earlier(x, b)
  BY <1>4
<1> QED BY <1>5 DEF FirstPage

-----------------------------------------------------------------------------
(* Quotations that are in the source. *)

Borne(s, refs) == \A r \in refs : r.quote # {} => QuoteInSource(s, r)

LEMMA NormalBorne ==
  ASSUME NEW s, NEW refs
  PROVE  Borne(s, NormalRefs(s, refs))
<1> SUFFICES ASSUME NEW r \in NormalRefs(s, refs), r.quote # {} PROVE QuoteInSource(s, r)
  BY DEF Borne
<1> DEFINE of(x) == [doc |-> x.doc, page |-> x.page,
                     quote |-> IF ~x.spaced /\ QuoteInSource(s, x) THEN x.quote ELSE {}]
<1>1. PICK x \in refs : r = of(x)
  BY DEF NormalRefs
<1>2. r.doc = x.doc /\ r.page = x.page /\ r.quote = IF ~x.spaced /\ QuoteInSource(s, x) THEN x.quote ELSE {}
  BY <1>1
<1>3. QuoteInSource(s, x) /\ r.quote = x.quote
  BY <1>2
<1> QED BY <1>2, <1>3 DEF QuoteInSource

\* A page of the source and words of it.
LEMMA PageRef ==
  ASSUME NEW s, TextOK(s), NEW at \in DOMAIN s, NEW q, q \subseteq WordsOf(PageText(s[at]))
  PROVE  /\ Borne(s, {RefAt(at, q)}) /\ RefAt(at, q).page # NoPage
         /\ QuoteInSource(s, RefAt(at, q)) /\ RefAt(at, q).quote = q
<1>1. at \in (DOMAIN DocType) \X (Nat \ {NoPage})
  BY DEF TextOK
<1>2. at = <<at[1], at[2]>> /\ at[2] # NoPage
  BY <1>1
<1>3. RefAt(at, q).doc = at[1] /\ RefAt(at, q).page = at[2] /\ RefAt(at, q).quote = q
  BY DEF RefAt
<1>4. QuoteInSource(s, RefAt(at, q))
  BY <1>2, <1>3 DEF QuoteInSource, InPage, InLine
<1> QED BY <1>2, <1>3, <1>4 DEF Borne

LEMMA PageNumbers ==
  ASSUME NEW s, TextOK(s), NEW P \in SUBSET DOMAIN s, P # {}
  PROVE  FirstPage(P) \in P
<1>1. P \in SUBSET ((DOMAIN DocType) \X (Nat \ {NoPage})) /\ DOMAIN DocType \subseteq Nat
  BY CandidateAssumption DEF TextOK
<1>2. P \in SUBSET (Nat \X Nat)
  BY <1>1
<1> QED BY <1>2, FirstPageIn

LEMMA ExactBorne ==
  ASSUME NEW s, TextOK(s), NEW word
  PROVE  Borne(s, ExactMatch(s, word))
<1> DEFINE hits == {at \in DOMAIN s : InPage({word}, s[at])}
<1>1. CASE word = NoText \/ hits = {}
  BY <1>1 DEF ExactMatch, Borne
<1>2. CASE ~(word = NoText \/ hits = {})
  <2> DEFINE page == FirstPage(hits)
  <2>1. ExactMatch(s, word) = {RefAt(page, {word})}
    BY <1>2 DEF ExactMatch
  <2>2. page \in hits
    BY <1>2, PageNumbers
  <2>3. page \in DOMAIN s /\ {word} \subseteq WordsOf(PageText(s[page]))
    BY <2>2 DEF InPage, InLine
  <2> HIDE DEF page, hits
  <2> QED BY <2>1, <2>3, PageRef
<1> QED BY <1>1, <1>2

LEMMA OneOfWords ==
  ASSUME NEW words
  PROVE  OneOf(words) \subseteq words /\ (words # {} => OneOf(words) # {})
BY DEF OneOf

LEMMA ExtractWords ==
  ASSUME NEW patterns, NEW code, NEW text
  PROVE  Extract(patterns, code, text) \subseteq text
<1> DEFINE found == {i \in DOMAIN PatternsFor(patterns, code) : Matches(patterns[code][i], text)}
           p == patterns[code][CHOOSE i \in found : \A j \in found : i <= j]
<1>1. Extract(patterns, code, text) = IF found = {} THEN {} ELSE PhraseOf(p, text)
  BY DEF Extract
<1> HIDE DEF found, p
<1>2. PhraseOf(p, text) \subseteq text
  <2>1. OneOf(p.words \cap text) \subseteq text /\ OneOf(p.with \cap text) \subseteq text
    BY OneOfWords
  <2> QED BY <2>1 DEF PhraseOf
<1> QED BY <1>1, <1>2

LEMMA StrongestIn ==
  ASSUME NEW s, TextOK(s), NEW code
  PROVE  StrongestPage(s, code) \subseteq DOMAIN s
<1> DEFINE at(page) == Strength(code, WordsOf(PageText(s[page])))
           best == {a \in DOMAIN s : at(a) > 0 /\ \A b \in DOMAIN s : at(a) >= at(b)}
<1>1. StrongestPage(s, code) = IF best = {} THEN {} ELSE {FirstPage(best)}
  BY DEF StrongestPage
<1>2. best \in SUBSET DOMAIN s
  OBVIOUS
<1> HIDE DEF best
<1> QED BY <1>1, <1>2, PageNumbers

LEMMA SpanBorne ==
  ASSUME NEW s, TextOK(s), NEW code
  PROVE  Borne(s, SpanMatch(s, code))
<1> SUFFICES ASSUME NEW r \in SpanMatch(s, code) PROVE Borne(s, {r})
  BY DEF Borne
<1>1. PICK page \in StrongestPage(s, code) :
         r = RefAt(page, Extract(CorePatterns, code, WordsOf(PageText(s[page]))))
  BY DEF SpanMatch
<1>2. page \in DOMAIN s
  BY StrongestIn
<1> QED BY <1>1, <1>2, ExtractWords, PageRef

LEMMA JobMatchBorne ==
  ASSUME NEW s, TextOK(s), NEW code
  PROVE  Borne(s, JobMatch(s, code))
<1> DEFINE named == {at \in DOMAIN s : Named(code, WordsOf(PageText(s[at])))}
<1>1. CASE code = "JOB-OPS-SYS"
  BY <1>1, SpanBorne DEF JobMatch
<1>2. CASE code # "JOB-OPS-SYS" /\ (code \notin RequiredJobs \/ named = {})
  BY <1>2 DEF JobMatch, Borne
<1>3. CASE code # "JOB-OPS-SYS" /\ ~(code \notin RequiredJobs \/ named = {})
  <2> DEFINE page == FirstPage(named)
             q == OneOf(Literal[code] \cap WordsOf(PageText(s[page])))
  <2>1. JobMatch(s, code) = {RefAt(page, q)}
    BY <1>3 DEF JobMatch
  <2>2. page \in DOMAIN s
    <3>1. named \in SUBSET DOMAIN s /\ named # {}
      BY <1>3
    <3> HIDE DEF named
    <3> QED BY <3>1, PageNumbers
  <2>3. q \subseteq WordsOf(PageText(s[page]))
    BY OneOfWords
  <2> HIDE DEF page, q
  <2> QED BY <2>1, <2>2, <2>3, PageRef
<1> QED BY <1>1, <1>2, <1>3

\* What evidences a code is not nothing.
LEMMA EvidenceSaysSomething ==
  ASSUME NEW code, NEW text
  PROVE  /\ SupportsCoreJob(code, text) => text # {}
         /\ SupportsJob(code, text) => text # {}
         /\ SupportsExp(code, text) => text # {}
         /\ SupportsExtra(code, text) => text # {}
<1>1. Named(code, text) => text # {}
  BY DEF Named
<1>2. \A patterns, c : Supports(patterns, c, text) => text # {}
  BY DEF Supports, Matches
<1> QED BY <1>1, <1>2 DEF SupportsCoreJob, SupportsJob, SupportsExp, SupportsExtra

-----------------------------------------------------------------------------
(* The rows of the person. *)

ItemFields == {"code", "raw", "refs"}

ItemRows(rows) == List(rows) /\ \A x \in WordsOf(rows) : ItemFields \subseteq DOMAIN x

DateOK(d) == d # Null /\ DOMAIN d = {"form", "p"} /\ d.p \in Seq(Nat)

WorkRows(rows) ==
  /\ List(rows)
  /\ \A x \in WordsOf(rows) : /\ {"raw", "start", "end", "refs"} \subseteq DOMAIN x
                              /\ IsFiniteSet(x.end) /\ \A d \in x.end : DateOK(d)

CoreLists == {"profile", "jobs", "skills", "exps", "work", "schools", "certs"}

CoreShape(c) ==
  /\ DOMAIN c = CoreLists
  /\ ItemRows(c.jobs) /\ ItemRows(c.skills) /\ ItemRows(c.exps) /\ WorkRows(c.work)

BorneRows(s, rows) == \A x \in WordsOf(rows) : Borne(s, x.refs)

\* Rows that are as wide as others.
LEMMA ItemsLike ==
  ASSUME NEW rows, ItemRows(rows), NEW f, f = [i \in DOMAIN rows |-> f[i]],
         \A i \in DOMAIN rows : DOMAIN f[i] = DOMAIN rows[i]
  PROVE  ItemRows(f) /\ DOMAIN f = DOMAIN rows /\ Len(f) = Len(rows)
<1>1. List(f) /\ DOMAIN f = DOMAIN rows /\ Len(f) = Len(rows)
  BY ListLike DEF ItemRows
<1> QED BY <1>1 DEF ItemRows, WordsOf

LEMMA NormalItemIs ==
  ASSUME NEW s, NEW x, NEW type, ItemFields \subseteq DOMAIN x
  PROVE  /\ DOMAIN NormalItem(s, x, type) = DOMAIN x
         /\ NormalItem(s, x, type).refs = NormalRefs(s, ExpandRefs(x.refs))
         /\ NormalItem(s, x, type).code = Lookup(x.code, type)
         /\ NormalItem(s, x, type).raw = x.raw
<1> DEFINE refs == NormalRefs(s, ExpandRefs(x.refs))
           y == [x EXCEPT !.refs = refs]
<1>1. NormalItem(s, x, type) = [y EXCEPT !.code = Lookup(y.code, type)]
  BY DEF NormalItem, NormalRow
<1> HIDE DEF refs
<1>2. DOMAIN y = DOMAIN x /\ y.refs = refs /\ y.code = x.code /\ y.raw = x.raw
  BY DEF ItemFields
<1> HIDE DEF y
<1> DEFINE code == Lookup(y.code, type)
<1>3. code = Lookup(x.code, type)
  BY <1>2
<1> HIDE DEF code
<1>4. NormalItem(s, x, type) = [y EXCEPT !.code = code]
  BY <1>1 DEF code
<1> QED BY <1>2, <1>3, <1>4 DEF ItemFields, refs

LEMMA NormalItems ==
  ASSUME NEW s, NEW rows, ItemRows(rows), NEW type, NEW f,
         f = [i \in DOMAIN rows |-> NormalItem(s, rows[i], type)]
  PROVE  ItemRows(f) /\ BorneRows(s, f)
<1>1. \A i \in DOMAIN rows : f[i] = NormalItem(s, rows[i], type) /\ ItemFields \subseteq DOMAIN rows[i]
  BY DEF ItemRows, WordsOf
<1>2. \A i \in DOMAIN rows : DOMAIN f[i] = DOMAIN rows[i] /\ Borne(s, f[i].refs)
  BY <1>1, NormalItemIs, NormalBorne
<1>3. f = [i \in DOMAIN rows |-> f[i]]
  BY <1>1
<1>4. ItemRows(f) /\ DOMAIN f = DOMAIN rows
  BY <1>2, <1>3, ItemsLike
<1> QED BY <1>2, <1>4 DEF BorneRows, WordsOf

\* Which job is the primary one says nothing of its evidence.
LEMMA PrimaryIs ==
  ASSUME NEW jobs, ItemRows(jobs)
  PROVE  /\ ItemRows(SinglePrimary(jobs)) /\ DOMAIN SinglePrimary(jobs) = DOMAIN jobs
         /\ \A i \in DOMAIN jobs : /\ SinglePrimary(jobs)[i].code = jobs[i].code
                                   /\ SinglePrimary(jobs)[i].raw = jobs[i].raw
                                   /\ SinglePrimary(jobs)[i].refs = jobs[i].refs
<1> DEFINE primaries == {i \in DOMAIN jobs : jobs[i].primary}
           keep == CHOOSE i \in primaries : \A j \in primaries \ {i} :
                    jobs[i].conf > jobs[j].conf \/ (jobs[i].conf = jobs[j].conf /\ i < j)
           f == [i \in DOMAIN jobs |-> [jobs[i] EXCEPT !.primary = (i = keep)]]
<1>1. SinglePrimary(jobs) = IF Cardinality(primaries) <= 1 THEN jobs ELSE f
  BY DEF SinglePrimary
<1>2. \A i \in DOMAIN jobs : ItemFields \subseteq DOMAIN jobs[i]
  BY DEF ItemRows, WordsOf
<1> HIDE DEF primaries, keep
<1>3. \A i \in DOMAIN jobs : /\ DOMAIN f[i] = DOMAIN jobs[i] /\ f[i].code = jobs[i].code
                             /\ f[i].raw = jobs[i].raw /\ f[i].refs = jobs[i].refs
  BY <1>2 DEF ItemFields
<1>4. f = [i \in DOMAIN jobs |-> f[i]]
  OBVIOUS
<1> HIDE DEF f
<1>5. ItemRows(f) /\ DOMAIN f = DOMAIN jobs
  BY <1>3, <1>4, ItemsLike
<1> QED BY <1>1, <1>3, <1>5

LEMMA PrimaryBorne ==
  ASSUME NEW s, NEW jobs, ItemRows(jobs), BorneRows(s, jobs)
  PROVE  BorneRows(s, SinglePrimary(jobs))
BY PrimaryIs DEF BorneRows, WordsOf

LEMMA RowsAreItems ==
  ASSUME NEW rows, NEW fields, RowsOK(rows, fields), ItemFields \subseteq fields
  PROVE  ItemRows(rows)
BY DEF RowsOK, ItemRows, List

LEMMA NormalWork ==
  ASSUME NEW s, NEW rows, WorkRows(rows), NEW f, f = [i \in DOMAIN rows |-> NormalRow(s, rows[i])]
  PROVE  WorkRows(f)
<1>1. \A i \in DOMAIN rows : f[i] = [rows[i] EXCEPT !.refs = NormalRefs(s, ExpandRefs(rows[i].refs))]
  BY DEF NormalRow
<1>2. \A i \in DOMAIN rows : rows[i] \in WordsOf(rows)
  BY DEF WordsOf
<1>3. \A i \in DOMAIN rows : DOMAIN f[i] = DOMAIN rows[i] /\ f[i].end = rows[i].end
  BY <1>1, <1>2 DEF WorkRows
<1>4. List(f) /\ DOMAIN f = DOMAIN rows
  BY ListLike DEF WorkRows
<1>5. ASSUME NEW x \in WordsOf(f)
      PROVE  /\ {"raw", "start", "end", "refs"} \subseteq DOMAIN x
             /\ IsFiniteSet(x.end) /\ \A d \in x.end : DateOK(d)
  <2>1. PICK i \in DOMAIN rows : x = f[i]
    BY <1>4 DEF WordsOf
  <2> QED BY <1>2, <1>3, <2>1 DEF WorkRows
<1> QED BY <1>4, <1>5 DEF WorkRows

LEMMA NormalCoreShape ==
  ASSUME NEW s, NEW raw, CoreOK(raw)
  PROVE  CoreShape(NormalCore(s, raw)) /\ BorneRows(s, NormalCore(s, raw).jobs)
<1> DEFINE c == NormalCore(s, raw)
           jobs == [i \in DOMAIN raw.jobs |-> NormalItem(s, raw.jobs[i], "JOB")]
           skills == [i \in DOMAIN raw.skills |-> NormalItem(s, raw.skills[i], "TECH")]
           exps == [i \in DOMAIN raw.exps |-> NormalItem(s, raw.exps[i], "EXP")]
           line == [i \in DOMAIN raw.work |-> NormalRow(s, raw.work[i])]
<1>1. DOMAIN c = CoreLists /\ c.jobs = SinglePrimary(jobs) /\ c.skills = skills /\ c.exps = exps /\ c.work = line
  BY DEF NormalCore, CoreLists, Mapped
<1>2. ItemRows(raw.jobs) /\ ItemRows(raw.skills) /\ ItemRows(raw.exps)
  BY RowsAreItems DEF CoreOK, ItemFields
<1>3. WorkRows(raw.work)
  BY DEF CoreOK, RowsOK, WorkRows, DateOK, List
<1>4. ItemRows(jobs) /\ BorneRows(s, jobs)
  BY <1>2, NormalItems
<1>5. ItemRows(skills) /\ ItemRows(exps)
  BY <1>2, NormalItems
<1>6. WorkRows(line)
  BY <1>3, NormalWork
<1> HIDE DEF c, jobs, skills, exps, line
<1>7. ItemRows(SinglePrimary(jobs)) /\ BorneRows(s, SinglePrimary(jobs))
  BY <1>4, PrimaryIs, PrimaryBorne
<1> QED BY <1>1, <1>5, <1>6, <1>7 DEF CoreShape, c

LEMMA PromotedItems ==
  ASSUME NEW rows, ItemRows(rows), NEW type
  PROVE  /\ ItemRows(Promoted(rows, type))
         /\ \A s : BorneRows(s, rows) => BorneRows(s, Promoted(rows, type))
<1> DEFINE f == Promoted(rows, type)
<1>1. f = [i \in DOMAIN rows |-> IF rows[i].code = NoText
                                 THEN [rows[i] EXCEPT !.code = Lookup(rows[i].raw, type)] ELSE rows[i]]
  BY DEF Promoted, Mapped
<1> HIDE DEF f
<1>2. \A i \in DOMAIN rows : ItemFields \subseteq DOMAIN rows[i]
  BY DEF ItemRows, WordsOf
<1>3. ASSUME NEW i \in DOMAIN rows PROVE DOMAIN f[i] = DOMAIN rows[i] /\ f[i].refs = rows[i].refs
  <2>1. f[i] = IF rows[i].code = NoText THEN [rows[i] EXCEPT !.code = Lookup(rows[i].raw, type)] ELSE rows[i]
    BY <1>1
  <2>2. ItemFields \subseteq DOMAIN rows[i]
    BY <1>2
  <2> QED BY <2>1, <2>2 DEF ItemFields
<1>4. f = [i \in DOMAIN rows |-> f[i]]
  BY <1>1
<1>5. ItemRows(f) /\ DOMAIN f = DOMAIN rows
  BY <1>3, <1>4, ItemsLike
<1> QED BY <1>3, <1>5 DEF BorneRows, WordsOf, f

LEMMA PromoteShape ==
  ASSUME NEW s, NEW c, CoreShape(c), BorneRows(s, c.jobs)
  PROVE  CoreShape(PromoteCodes(c)) /\ BorneRows(s, PromoteCodes(c).jobs)
<1> DEFINE d == PromoteCodes(c)
           jobs == Promoted(c.jobs, "JOB")
           skills == Promoted(c.skills, "TECH")
           exps == Promoted(c.exps, "EXP")
<1>1. d = [c EXCEPT !.jobs = jobs, !.skills = skills, !.exps = exps]
  BY DEF PromoteCodes
<1>2. ItemRows(jobs) /\ ItemRows(skills) /\ ItemRows(exps) /\ BorneRows(s, jobs)
  BY PromotedItems DEF CoreShape
<1> HIDE DEF d, jobs, skills, exps
<1>3. DOMAIN c = CoreLists
  BY DEF CoreShape
<1>4. DOMAIN d = CoreLists /\ d.jobs = jobs /\ d.skills = skills /\ d.exps = exps /\ d.work = c.work
  BY <1>1, <1>3 DEF CoreLists
<1> QED BY <1>2, <1>4 DEF CoreShape, d

LEMMA ExactRows ==
  ASSUME NEW s, TextOK(s), NEW rows
  PROVE  /\ ItemRows(rows) => ItemRows(Exact(s, rows))
         /\ WorkRows(rows) => WorkRows(Exact(s, rows))
         /\ ItemRows(rows) /\ BorneRows(s, rows) => BorneRows(s, Exact(s, rows))
<1> DEFINE f == Exact(s, rows)
<1>1. f = [i \in DOMAIN rows |->
              IF Quoted(rows[i].refs) \/ ExactMatch(s, rows[i].raw) = {} THEN rows[i]
              ELSE [rows[i] EXCEPT !.refs = ExactMatch(s, rows[i].raw)]]
  BY DEF Exact, Mapped
<1> HIDE DEF f
<1>2. ASSUME NEW i \in DOMAIN rows
      PROVE  \/ f[i] = rows[i]
             \/ f[i] = [rows[i] EXCEPT !.refs = ExactMatch(s, rows[i].raw)]
  BY <1>1
<1>3. \A i \in DOMAIN rows : DOMAIN f[i] = DOMAIN rows[i]
  BY <1>2
<1>4. f = [i \in DOMAIN rows |-> f[i]]
  BY <1>1
<1>5. ASSUME ItemRows(rows) PROVE ItemRows(f)
  BY <1>3, <1>4, <1>5, ItemsLike
<1>6. ASSUME WorkRows(rows) PROVE WorkRows(f)
  <2>1. List(f) /\ DOMAIN f = DOMAIN rows
    BY <1>4, <1>6, ListLike DEF WorkRows
  <2>2. ASSUME NEW x \in WordsOf(f)
        PROVE  /\ {"raw", "start", "end", "refs"} \subseteq DOMAIN x
               /\ IsFiniteSet(x.end) /\ \A d \in x.end : DateOK(d)
    <3>1. PICK i \in DOMAIN rows : x = f[i]
      BY <2>1 DEF WordsOf
    <3>2. {"raw", "start", "end", "refs"} \subseteq DOMAIN rows[i] /\ rows[i] \in WordsOf(rows)
      BY <1>6 DEF WorkRows, WordsOf
    <3>3. DOMAIN x = DOMAIN rows[i] /\ x.end = rows[i].end
      BY <1>2, <1>3, <3>1, <3>2
    <3> QED BY <1>6, <3>2, <3>3 DEF WorkRows
  <2> QED BY <2>1, <2>2 DEF WorkRows
<1>7. ASSUME ItemRows(rows), BorneRows(s, rows) PROVE BorneRows(s, f)
  <2>1. DOMAIN f = DOMAIN rows
    BY <1>4, <1>7, ItemsLike, <1>3
  <2>2. ASSUME NEW i \in DOMAIN rows PROVE Borne(s, f[i].refs)
    <3>1. rows[i] \in WordsOf(rows) /\ "refs" \in DOMAIN rows[i]
      BY <1>7 DEF WordsOf, ItemRows, ItemFields
    <3>2. f[i].refs = rows[i].refs \/ f[i].refs = ExactMatch(s, rows[i].raw)
      BY <1>2, <3>1
    <3> QED BY <1>7, <3>1, <3>2, ExactBorne DEF BorneRows
  <2> QED BY <2>1, <2>2 DEF BorneRows, WordsOf
<1> QED BY <1>5, <1>6, <1>7 DEF f

LEMMA ExactShape ==
  ASSUME NEW s, TextOK(s), NEW c, CoreShape(c), BorneRows(s, c.jobs)
  PROVE  CoreShape(ExactEvidence(s, c)) /\ BorneRows(s, ExactEvidence(s, c).jobs)
<1> DEFINE d == ExactEvidence(s, c)
<1>1. /\ DOMAIN d = CoreLists /\ d.jobs = Exact(s, c.jobs) /\ d.skills = Exact(s, c.skills)
      /\ d.exps = Exact(s, c.exps) /\ d.work = Exact(s, c.work)
  BY DEF ExactEvidence, CoreShape, CoreLists
<1> HIDE DEF d
<1> QED BY <1>1, ExactRows DEF CoreShape, d

LEMMA InOrderIs ==
  ASSUME NEW order, List(order), NEW chosen
  PROVE  List(InOrder(order, chosen)) /\ WordsOf(InOrder(order, chosen)) = WordsOf(order) \cap chosen
<1> DEFINE I == {i \in DOMAIN order : order[i] \in chosen}
<1>1. InOrder(order, chosen) = RowsAt(order, Places(I))
  BY DEF InOrder
<1>2. List(InOrder(order, chosen)) /\ WordsOf(InOrder(order, chosen)) = {order[i] : i \in I}
  BY <1>1, SomeRows
<1>3. {order[i] : i \in I} = WordsOf(order) \cap chosen
  BY DEF WordsOf
<1> QED BY <1>2, <1>3

LEMMA OrdersAreLists ==
  List(ExpOrder) /\ List(TechOrder) /\ List(CodeOrder) /\ List(JobOrder)
<1>1. List(CodeOrder)
  BY CatalogAssumption DEF List
<1>2. List(TechOrder)
  BY <1>1, InOrderIs DEF TechOrder
<1>3. ExpOrder \in Seq({"EXP-INFRA", "EXP-MGT", "EXP-SEC-OPS", "EXP-SEC-BUILD"})
  BY DEF ExpOrder
<1>4. JobOrder \in Seq({"JOB-OPS-SYS", "JOB-MGT", "JOB-ARC-TA", "JOB-MGT-PM", "JOB-MGT-PL"})
  BY DEF JobOrder
<1> QED BY <1>1, <1>2, <1>3, <1>4, SeqIsList

LEMMA SkillsShape ==
  ASSUME NEW s, NEW c, CoreShape(c)
  PROVE  /\ CoreShape(LiteralSkills(s, c)) /\ LiteralSkills(s, c).jobs = c.jobs
         /\ CoreShape(DropSkills(c)) /\ DropSkills(c).jobs = c.jobs
         /\ CoreShape(ClearStatus(c)) /\ ClearStatus(c).jobs = c.jobs
<1>1. DOMAIN c = CoreLists
  BY DEF CoreShape
<1>2. CoreShape(LiteralSkills(s, c)) /\ LiteralSkills(s, c).jobs = c.jobs
  <2> DEFINE fixed(x) == IF x.code \in DOMAIN Techs /\ ~Quoted(x.refs) /\ LiteralMatch(s, x.code) # {}
                         THEN [x EXCEPT !.refs = LiteralMatch(s, x.code)] ELSE x
             rows == [i \in DOMAIN c.skills |-> fixed(c.skills[i])]
             missing == {k \in (DOMAIN Techs) \ Codes(c.skills) : LiteralMatch(s, k) # {}}
             new(k) == [code |-> k, raw |-> RawOf(LiteralMatch(s, k)), refs |-> LiteralMatch(s, k)]
             order == InOrder(TechOrder, missing)
             more == [i \in DOMAIN order |-> new(order[i])]
             skills == rows \o more
  <2>1. LiteralSkills(s, c) = [c EXCEPT !.skills = skills]
    BY DEF LiteralSkills, Mapped
  <2>2. ItemRows(rows)
    <3>1. \A i \in DOMAIN c.skills : DOMAIN rows[i] = DOMAIN c.skills[i]
      OBVIOUS
    <3>2. rows = [i \in DOMAIN c.skills |-> rows[i]]
      OBVIOUS
    <3> HIDE DEF rows
    <3> QED BY <3>1, <3>2, ItemsLike DEF CoreShape
  <2>3. ItemRows(more)
    <3>1. List(order)
      BY InOrderIs, OrdersAreLists
    <3>2. List(more) /\ DOMAIN more = DOMAIN order
      <4>1. more = [i \in DOMAIN order |-> more[i]]
        OBVIOUS
      <4> HIDE DEF more, order
      <4> QED BY <3>1, <4>1, ListLike
    <3>3. \A i \in DOMAIN order : ItemFields \subseteq DOMAIN more[i]
      BY DEF ItemFields
    <3> QED BY <3>2, <3>3 DEF ItemRows, WordsOf
  <2> HIDE DEF rows, more
  <2>4. ItemRows(skills)
    BY <2>2, <2>3, Concat DEF ItemRows
  <2> HIDE DEF skills
  <2>5. DOMAIN [c EXCEPT !.skills = skills] = CoreLists
    BY <1>1
  <2> QED BY <1>1, <2>1, <2>4, <2>5 DEF CoreShape, CoreLists
<1>3. CoreShape(DropSkills(c)) /\ DropSkills(c).jobs = c.jobs
  <2> DEFINE I == {i \in DOMAIN c.skills : c.skills[i].raw \notin Activities /\ Quoted(c.skills[i].refs)}
             skills == RowsAt(c.skills, Places(I))
  <2>1. DropSkills(c) = [c EXCEPT !.skills = skills]
    BY DEF DropSkills, Kept
  <2>2. ItemRows(skills)
    <3>1. ItemRows(c.skills) /\ I \in SUBSET DOMAIN c.skills
      BY DEF CoreShape
    <3> HIDE DEF I
    <3> QED BY <3>1, SomeRows DEF ItemRows
  <2> HIDE DEF skills
  <2> QED BY <1>1, <2>1, <2>2 DEF CoreShape, CoreLists
<1>4. CoreShape(ClearStatus(c)) /\ ClearStatus(c).jobs = c.jobs
  <2>1. PICK schools : ClearStatus(c) = [c EXCEPT !.schools = schools]
    BY DEF ClearStatus
  <2> QED BY <1>1, <2>1 DEF CoreShape, CoreLists
<1> QED BY <1>2, <1>3, <1>4

LEMMA PhraseShape ==
  ASSUME NEW s, NEW c, CoreShape(c)
  PROVE  /\ CoreShape(PhraseEvidence(s, c)) /\ PhraseEvidence(s, c).jobs = c.jobs
         /\ CoreShape(MoreExps(s, c)) /\ MoreExps(s, c).jobs = c.jobs
<1>1. DOMAIN c = CoreLists /\ ItemRows(c.exps)
  BY DEF CoreShape
<1>2. CoreShape(PhraseEvidence(s, c)) /\ PhraseEvidence(s, c).jobs = c.jobs
  <2> DEFINE fixed(x) == IF Quoted(x.refs) \/ PhraseMatch(s, x.code) = {} THEN x
                         ELSE [x EXCEPT !.refs = PhraseMatch(s, x.code)]
             rows == [i \in DOMAIN c.exps |-> fixed(c.exps[i])]
  <2>1. PhraseEvidence(s, c) = [c EXCEPT !.exps = rows]
    BY DEF PhraseEvidence, FillFrom, Mapped
  <2>2. ItemRows(rows)
    <3>1. \A i \in DOMAIN c.exps : DOMAIN rows[i] = DOMAIN c.exps[i]
      OBVIOUS
    <3>2. rows = [i \in DOMAIN c.exps |-> rows[i]]
      OBVIOUS
    <3> HIDE DEF rows
    <3> QED BY <1>1, <3>1, <3>2, ItemsLike
  <2> HIDE DEF rows
  <2> QED BY <1>1, <2>1, <2>2 DEF CoreShape, CoreLists
<1>3. CoreShape(MoreExps(s, c)) /\ MoreExps(s, c).jobs = c.jobs
  <2> DEFINE missing == {k \in SemanticExps \ Codes(c.exps) : SpanMatch(s, k) # {}}
             new(k) == [code |-> k, raw |-> RawOf(SpanMatch(s, k)), refs |-> SpanMatch(s, k)]
             order == InOrder(ExpOrder, missing)
             more == [i \in DOMAIN order |-> new(order[i])]
             exps == c.exps \o more
  <2>1. MoreExps(s, c) = [c EXCEPT !.exps = exps]
    BY DEF MoreExps, Mapped
  <2>2. ItemRows(more)
    <3>1. List(order)
      BY InOrderIs, OrdersAreLists
    <3>2. List(more) /\ DOMAIN more = DOMAIN order
      <4>1. more = [i \in DOMAIN order |-> more[i]]
        OBVIOUS
      <4> HIDE DEF more, order
      <4> QED BY <3>1, <4>1, ListLike
    <3>3. \A i \in DOMAIN order : ItemFields \subseteq DOMAIN more[i]
      BY DEF ItemFields
    <3> QED BY <3>2, <3>3 DEF ItemRows, WordsOf
  <2> HIDE DEF more
  <2>3. ItemRows(exps)
    BY <1>1, <2>2, Concat DEF ItemRows
  <2> HIDE DEF exps
  <2> QED BY <1>1, <2>1, <2>3 DEF CoreShape, CoreLists
<1> QED BY <1>2, <1>3

LEMMA JobEvidenceShape ==
  ASSUME NEW s, TextOK(s), NEW c, CoreShape(c), BorneRows(s, c.jobs)
  PROVE  CoreShape(JobEvidence(s, c)) /\ BorneRows(s, JobEvidence(s, c).jobs)
<1> DEFINE fixed(x) == IF Quoted(x.refs) \/ JobMatch(s, x.code) = {} THEN x
                       ELSE [x EXCEPT !.refs = JobMatch(s, x.code)]
           rows == [i \in DOMAIN c.jobs |-> fixed(c.jobs[i])]
<1>1. JobEvidence(s, c) = [c EXCEPT !.jobs = rows]
  BY DEF JobEvidence, FillFrom, Mapped
<1>2. DOMAIN c = CoreLists /\ ItemRows(c.jobs)
  BY DEF CoreShape
<1>3. \A i \in DOMAIN c.jobs : DOMAIN rows[i] = DOMAIN c.jobs[i]
  OBVIOUS
<1>4. ASSUME NEW i \in DOMAIN c.jobs PROVE Borne(s, rows[i].refs)
  <2>1. c.jobs[i] \in WordsOf(c.jobs) /\ "refs" \in DOMAIN c.jobs[i]
    BY <1>2 DEF WordsOf, ItemRows, ItemFields
  <2>2. rows[i].refs = c.jobs[i].refs \/ rows[i].refs = JobMatch(s, c.jobs[i].code)
    BY <2>1
  <2> QED BY <2>1, <2>2, JobMatchBorne DEF BorneRows
<1>5. rows = [i \in DOMAIN c.jobs |-> rows[i]]
  OBVIOUS
<1> HIDE DEF rows
<1>6. ItemRows(rows) /\ DOMAIN rows = DOMAIN c.jobs
  BY <1>2, <1>3, <1>5, ItemsLike
<1>7. BorneRows(s, rows)
  BY <1>4, <1>6 DEF BorneRows, WordsOf
<1> QED BY <1>1, <1>2, <1>6, <1>7 DEF CoreShape, CoreLists

\* A job that may stand in a candidate.
JobClaim(s, x) ==
  /\ x.code \notin ForbiddenJobs
  /\ x.code \in RequiredJobs =>
         \E r \in x.refs : /\ r.quote # {} /\ QuoteInSource(s, r)
                           /\ SupportsCoreJob(x.code, r.quote)

JobClaims(s, jobs) == \A x \in WordsOf(jobs) : JobClaim(s, x)

LEMMA DropJobsClaims ==
  ASSUME NEW s, NEW c, CoreShape(c), BorneRows(s, c.jobs)
  PROVE  CoreShape(DropJobs(c)) /\ JobClaims(s, DropJobs(c).jobs)
<1> DEFINE Keeps(x) == /\ x.code \notin ForbiddenJobs
                       /\ x.code \in RequiredJobs => \E r \in x.refs : SupportsCoreJob(x.code, r.quote)
           I == {i \in DOMAIN c.jobs : Keeps(c.jobs[i])}
           jobs == RowsAt(c.jobs, Places(I))
<1>1. DropJobs(c) = [c EXCEPT !.jobs = jobs]
  BY DEF DropJobs, Kept
<1>2. ItemRows(jobs) /\ WordsOf(jobs) = {c.jobs[i] : i \in I}
  <2>1. ItemRows(c.jobs) /\ I \in SUBSET DOMAIN c.jobs
    BY DEF CoreShape
  <2> HIDE DEF I
  <2> QED BY <2>1, SomeRows DEF ItemRows
<1>3. ASSUME NEW x \in WordsOf(jobs) PROVE JobClaim(s, x)
  <2>1. PICK i \in I : x = c.jobs[i]
    BY <1>2
  <2>2. Keeps(x) /\ Borne(s, x.refs)
    BY <2>1 DEF BorneRows, WordsOf
  <2>3. ASSUME x.code \in RequiredJobs
        PROVE  \E r \in x.refs : /\ r.quote # {} /\ QuoteInSource(s, r)
                                 /\ SupportsCoreJob(x.code, r.quote)
    <3>1. PICK r \in x.refs : SupportsCoreJob(x.code, r.quote)
      BY <2>2, <2>3
    <3>2. r.quote # {}
      BY <3>1, EvidenceSaysSomething
    <3> QED BY <2>2, <3>1, <3>2 DEF Borne
  <2> QED BY <2>2, <2>3 DEF JobClaim
<1> HIDE DEF jobs
<1>4. CoreShape(DropJobs(c)) /\ DropJobs(c).jobs = jobs
  BY <1>1, <1>2 DEF CoreShape, CoreLists
<1> QED BY <1>3, <1>4 DEF JobClaims

\* What _normalize_core makes of an answer.
LEMMA CoreIsQuoted ==
  ASSUME NEW s, TextOK(s), NEW raw, CoreOK(raw)
  PROVE  CoreShape(NormalizeCore(s, raw)) /\ JobClaims(s, NormalizeCore(s, raw).jobs)
<1> DEFINE normal == NormalCore(s, raw)
           promoted == PromoteCodes(normal)
           exact == ExactEvidence(s, promoted)
           literal == LiteralSkills(s, exact)
           dropped == DropSkills(literal)
           skills == ClearStatus(dropped)
           phrased == PhraseEvidence(s, skills)
           more == MoreExps(s, phrased)
           jobs == JobEvidence(s, more)
<1>1. NormalizeCore(s, raw) = DropJobs(jobs)
  BY DEF NormalizeCore
<1>2. CoreShape(normal) /\ BorneRows(s, normal.jobs)
  BY NormalCoreShape
<1> HIDE DEF normal
<1>3. CoreShape(promoted) /\ BorneRows(s, promoted.jobs)
  BY <1>2, PromoteShape
<1> HIDE DEF promoted
<1>4. CoreShape(exact) /\ BorneRows(s, exact.jobs)
  BY <1>3, ExactShape
<1> HIDE DEF exact
<1>5. CoreShape(literal) /\ literal.jobs = exact.jobs
  BY <1>4, SkillsShape
<1> HIDE DEF literal
<1>6. CoreShape(dropped) /\ dropped.jobs = exact.jobs
  BY <1>5, SkillsShape
<1> HIDE DEF dropped
<1>7. CoreShape(skills) /\ skills.jobs = exact.jobs
  BY <1>6, SkillsShape
<1> HIDE DEF skills
<1>8. CoreShape(phrased) /\ phrased.jobs = exact.jobs
  BY <1>7, PhraseShape
<1> HIDE DEF phrased
<1>9. CoreShape(more) /\ more.jobs = exact.jobs
  BY <1>8, PhraseShape
<1> HIDE DEF more
<1>10. CoreShape(jobs) /\ BorneRows(s, jobs.jobs)
  BY <1>4, <1>9, JobEvidenceShape
<1> HIDE DEF jobs
<1> QED BY <1>1, <1>10, DropJobsClaims

-----------------------------------------------------------------------------
(* Rows grouped by their keys. *)

\* The first of some places.
LEMMA FirstPlace ==
  ASSUME NEW s, List(s), NEW I \in SUBSET DOMAIN s, I # {}
  PROVE  /\ 1 \in DOMAIN Places(I) /\ Places(I)[1] \in I
         /\ \A i \in I : Places(I)[1] <= i
<1> DEFINE before == {p \in I \X I : p[1] < p[2]}
<1>1. Places(I) = Ordered(I, before)
  BY DEF Places
<1>2. \A i, j \in I : <<i, j>> \in before <=> i < j
  OBVIOUS
<1>3. \A i \in I : i \in Nat
  BY ListFacts
<1> HIDE DEF before
<1>4. StrictOrder(I, before)
  BY <1>2, <1>3 DEF StrictOrder
<1>5. IsFiniteSet(I) /\ DOMAIN Places(I) = 1..Cardinality(I) /\ Cardinality(I) \in Nat
  BY PlacesOf
<1>6. Cardinality(I) # 0
  BY <1>5, FS_EmptySet
<1>7. 1 \in 1..Cardinality(I)
  BY <1>5, <1>6
<1> DEFINE first == Places(I)[1]
           B == Below(I, before, first)
<1>8. first \in I /\ Cardinality(B) = 0
  <2>1. Ordered(I, before)[1] \in I /\ Cardinality(Below(I, before, Ordered(I, before)[1])) = 1 - 1
    BY <1>4, <1>5, <1>7, OrderedHolds
  <2> QED BY <1>1, <2>1
<1>9. IsFiniteSet(B)
  <2>1. B \in SUBSET I
    BY DEF Below
  <2> HIDE DEF B
  <2> QED BY <1>5, <2>1, FS_Subset
<1>10. B = {}
  <2> HIDE DEF B
  <2> QED BY <1>8, <1>9, FS_EmptySet
<1> HIDE DEF first
<1>11. \A i \in I : ~(i < first)
  BY <1>2, <1>8, <1>10 DEF Below
<1> QED BY <1>3, <1>5, <1>7, <1>8, <1>11 DEF first

Alike(rows, key, i) == {j \in DOMAIN rows : key[j] = key[i]}
Heads(rows, key) == {i \in DOMAIN rows : key[i] # NoKey /\ \A j \in DOMAIN rows : j < i => key[j] # key[i]}
Group(rows, key, i) == RowsAt(rows, Places(Alike(rows, key, i)))

\* The head of a group is its first row, and every row with a key is in a group.
LEMMA GroupsOf ==
  ASSUME NEW rows, List(rows), NEW key
  PROVE  /\ Heads(rows, key) \subseteq DOMAIN rows
         /\ \A i \in DOMAIN rows : key[i] # NoKey => \E h \in Heads(rows, key) : key[h] = key[i]
         /\ \A h \in Heads(rows, key) :
                /\ List(Group(rows, key, h)) /\ 1 \in DOMAIN Group(rows, key, h)
                /\ Group(rows, key, h)[1] = rows[h]
                /\ WordsOf(Group(rows, key, h)) = {rows[j] : j \in Alike(rows, key, h)}
                /\ WordsOf(Group(rows, key, h)) \subseteq WordsOf(rows)
<1>1. DOMAIN rows \subseteq Nat
  BY ListFacts
<1>2. ASSUME NEW i \in DOMAIN rows, key[i] # NoKey PROVE \E h \in Heads(rows, key) : key[h] = key[i]
  <2> DEFINE S == Alike(rows, key, i)
  <2>1. S \in SUBSET Nat /\ S # {}
    BY <1>1 DEF Alike
  <2>2. PICK h \in S : \A j \in S : h <= j
    <3> HIDE DEF S
    <3> QED BY <2>1, Least
  <2>3. h \in DOMAIN rows /\ key[h] = key[i]
    BY DEF Alike
  <2>4. \A j \in DOMAIN rows : j < h => key[j] # key[h]
    <3> SUFFICES ASSUME NEW j \in DOMAIN rows, j < h, key[j] = key[h] PROVE FALSE
      OBVIOUS
    <3>1. j \in S
      BY <2>3 DEF Alike
    <3>2. h <= j /\ h \in Nat /\ j \in Nat
      BY <1>1, <2>2, <2>3, <3>1
    <3> QED BY <3>2
  <2> QED BY <1>2, <2>3, <2>4 DEF Heads
<1>3. ASSUME NEW h \in Heads(rows, key)
      PROVE  /\ List(Group(rows, key, h)) /\ 1 \in DOMAIN Group(rows, key, h)
             /\ Group(rows, key, h)[1] = rows[h]
             /\ WordsOf(Group(rows, key, h)) = {rows[j] : j \in Alike(rows, key, h)}
             /\ WordsOf(Group(rows, key, h)) \subseteq WordsOf(rows)
  <2> DEFINE I == Alike(rows, key, h)
  <2>1. I \in SUBSET DOMAIN rows /\ h \in I
    BY DEF Alike, Heads
  <2>2. \A j \in I : j < h => FALSE
    BY DEF Alike, Heads
  <2> HIDE DEF I
  <2>3. 1 \in DOMAIN Places(I) /\ Places(I)[1] \in I /\ \A j \in I : Places(I)[1] <= j
    BY <2>1, FirstPlace
  <2>4. Places(I)[1] = h
    BY <1>1, <2>1, <2>2, <2>3
  <2>5. /\ List(RowsAt(rows, Places(I))) /\ WordsOf(RowsAt(rows, Places(I))) = {rows[j] : j \in I}
        /\ WordsOf(RowsAt(rows, Places(I))) \subseteq WordsOf(rows)
    BY <2>1, SomeRows
  <2>6. 1 \in DOMAIN RowsAt(rows, Places(I)) /\ RowsAt(rows, Places(I))[1] = rows[h]
    BY <2>3, <2>4 DEF RowsAt
  <2>7. Group(rows, key, h) = RowsAt(rows, Places(I))
    BY DEF Group, I
  <2> QED BY <2>5, <2>6, <2>7 DEF I
<1> QED BY <1>2, <1>3 DEF Heads

\* m gives the merged row of each head.
LEMMA GroupedRows ==
  ASSUME NEW rows, List(rows), NEW key, NEW m
  PROVE  /\ List(RowsAt(m, Places(Heads(rows, key))))
         /\ WordsOf(RowsAt(m, Places(Heads(rows, key)))) = {m[h] : h \in Heads(rows, key)}
<1>1. Heads(rows, key) \in SUBSET DOMAIN rows
  BY DEF Heads
<1>2. List(Places(Heads(rows, key))) /\ WordsOf(Places(Heads(rows, key))) = Heads(rows, key)
  BY <1>1, PlacesOf
<1> QED BY <1>2, RowsAtHolds

\* Keys and merged rows of the groups of the code.
ItemKeys(rows) == [i \in DOMAIN rows |-> ItemKey(rows[i])]
JobHeads(rows) == [i \in DOMAIN rows |-> MergeJobs(Group(rows, ItemKeys(rows), i))]
ItemHeads(rows) == [i \in DOMAIN rows |-> MergeItems(Group(rows, ItemKeys(rows), i))]

LEMMA ItemsGrouped ==
  ASSUME NEW rows, List(rows)
  PROVE  /\ Grouped(rows, ItemKey, MergeJobs) = RowsAt(JobHeads(rows), Places(Heads(rows, ItemKeys(rows))))
         /\ Grouped(rows, ItemKey, MergeItems) = RowsAt(ItemHeads(rows), Places(Heads(rows, ItemKeys(rows))))
<1> DEFINE key == ItemKeys(rows)
           heads == {i \in DOMAIN rows :
                        /\ ItemKey(rows[i]) # NoKey
                        /\ \A j \in DOMAIN rows : j < i => ItemKey(rows[j]) # ItemKey(rows[i])}
           alike(i) == {j \in DOMAIN rows : ItemKey(rows[j]) = ItemKey(rows[i])}
           P == Places(heads)
<1>1. \A i \in DOMAIN rows : key[i] = ItemKey(rows[i])
  BY DEF ItemKeys
<1>2. heads = Heads(rows, key)
  BY <1>1 DEF Heads
<1>3. \A i \in DOMAIN rows : alike(i) = Alike(rows, key, i)
  BY <1>1 DEF Alike
<1>4. Grouped(rows, ItemKey, MergeJobs) = [n \in DOMAIN P |-> MergeJobs(RowsAt(rows, Places(alike(P[n]))))]
  BY DEF Grouped, Mapped
<1>5. Grouped(rows, ItemKey, MergeItems) = [n \in DOMAIN P |-> MergeItems(RowsAt(rows, Places(alike(P[n]))))]
  BY DEF Grouped, Mapped
<1>6. \A n \in DOMAIN P : P[n] \in DOMAIN rows
  <2>1. heads \in SUBSET DOMAIN rows
    OBVIOUS
  <2> HIDE DEF heads
  <2>2. WordsOf(P) = heads
    BY <2>1, PlacesOf
  <2> QED BY <2>1, <2>2 DEF WordsOf
<1>7. P = Places(Heads(rows, key))
  BY <1>2
<1> HIDE DEF P, heads, alike
<1>8. \A n \in DOMAIN P : /\ JobHeads(rows)[P[n]] = MergeJobs(RowsAt(rows, Places(alike(P[n]))))
                          /\ ItemHeads(rows)[P[n]] = MergeItems(RowsAt(rows, Places(alike(P[n]))))
  BY <1>3, <1>6 DEF JobHeads, ItemHeads, Group
<1> HIDE DEF key
<1>9. Grouped(rows, ItemKey, MergeJobs) = RowsAt(JobHeads(rows), P)
  BY <1>4, <1>8 DEF RowsAt
<1>10. Grouped(rows, ItemKey, MergeItems) = RowsAt(ItemHeads(rows), P)
  BY <1>5, <1>8 DEF RowsAt
<1> QED BY <1>7, <1>9, <1>10 DEF key

\* Every row comes from one of the others, and none with a code is lost.
FromItems(some, rows) ==
  \A y \in WordsOf(some) : \E x \in WordsOf(rows) : y.code = x.code /\ x.refs \subseteq y.refs
HoldItems(some, rows) ==
  \A x \in WordsOf(rows) : x.code # NoText =>
      \E y \in WordsOf(some) : y.code = x.code /\ x.refs \subseteq y.refs

LEMMA MergedItemIs ==
  ASSUME NEW g, ItemFields \subseteq DOMAIN g[1]
  PROVE  /\ ItemFields \subseteq DOMAIN MergeItems(g) /\ ItemFields \subseteq DOMAIN MergeJobs(g)
         /\ MergeItems(g).code = g[1].code /\ MergeJobs(g).code = g[1].code
         /\ MergeItems(g).refs = AllRefs(g) /\ MergeJobs(g).refs = AllRefs(g)
<1> DEFINE refs == AllRefs(g)
           first == FirstRaw(g)
           conf == Max({g[i].conf : i \in DOMAIN g})
           y == [g[1] EXCEPT !.refs = refs, !.raw = first]
<1>1. MergeItems(g) = y /\ MergeJobs(g) = [y EXCEPT !.conf = conf]
  BY DEF MergeItems, MergeJobs
<1> HIDE DEF refs, first, conf
<1>2. DOMAIN y = DOMAIN g[1] /\ y.code = g[1].code /\ y.refs = refs
  BY DEF ItemFields
<1> HIDE DEF y
<1>3. /\ DOMAIN [y EXCEPT !.conf = conf] = DOMAIN y /\ [y EXCEPT !.conf = conf].code = y.code
      /\ [y EXCEPT !.conf = conf].refs = y.refs
  BY <1>2 DEF ItemFields
<1> QED BY <1>1, <1>2, <1>3 DEF refs

\* A merged group has its code, and every reference of its rows.
LEMMA ItemHeadIs ==
  ASSUME NEW rows, ItemRows(rows), NEW h \in Heads(rows, ItemKeys(rows))
  PROVE  \A y \in {JobHeads(rows)[h], ItemHeads(rows)[h]} :
             /\ ItemFields \subseteq DOMAIN y
             /\ y.code = rows[h].code
             /\ \A j \in Alike(rows, ItemKeys(rows), h) : rows[j].refs \subseteq y.refs
<1> DEFINE key == ItemKeys(rows)
           g == Group(rows, key, h)
<1>1. /\ List(rows) /\ h \in DOMAIN rows /\ g[1] = rows[h]
      /\ WordsOf(g) = {rows[j] : j \in Alike(rows, key, h)}
  BY GroupsOf DEF ItemRows
<1>2. JobHeads(rows)[h] = MergeJobs(g) /\ ItemHeads(rows)[h] = MergeItems(g)
  BY <1>1 DEF JobHeads, ItemHeads
<1> HIDE DEF g, key
<1>3. ItemFields \subseteq DOMAIN rows[h]
  BY <1>1 DEF ItemRows, WordsOf
<1>4. /\ ItemFields \subseteq DOMAIN MergeItems(g) /\ ItemFields \subseteq DOMAIN MergeJobs(g)
      /\ MergeItems(g).code = rows[h].code /\ MergeJobs(g).code = rows[h].code
      /\ MergeItems(g).refs = AllRefs(g) /\ MergeJobs(g).refs = AllRefs(g)
  BY <1>1, <1>3, MergedItemIs
<1>5. ASSUME NEW j \in Alike(rows, key, h) PROVE rows[j].refs \subseteq AllRefs(g)
  <2>1. rows[j] \in WordsOf(g)
    BY <1>1
  <2>2. PICK i \in DOMAIN g : g[i] = rows[j]
    BY <2>1 DEF WordsOf
  <2> QED BY <2>2 DEF AllRefs
<1> QED BY <1>2, <1>4, <1>5 DEF key

LEMMA ItemKeyTells ==
  ASSUME NEW x, NEW y, x.code # NoText, ItemKey(x) = ItemKey(y)
  PROVE  y.code = x.code /\ ItemKey(x) # NoKey
<1>1. ItemKey(x) = <<"code", x.code>>
  BY DEF ItemKey
<1>2. y.code # NoText
  <2> SUFFICES ASSUME y.code = NoText PROVE FALSE
    OBVIOUS
  <2>1. ItemKey(y) = <<"raw", y.raw>> \/ ItemKey(y) = <<>>
    BY DEF ItemKey, NoKey
  <2>2. Len(<<"code", x.code>>) = 2 /\ Len(<<>>) = 0 /\ <<"code", x.code>>[1] = "code" /\ <<"raw", y.raw>>[1] = "raw"
    OBVIOUS
  <2>3. "code" # "raw"
    OBVIOUS
  <2> QED BY <1>1, <2>1, <2>2, <2>3
<1>3. ItemKey(y) = <<"code", y.code>>
  BY <1>2 DEF ItemKey
<1>4. <<"code", x.code>>[2] = x.code /\ <<"code", y.code>>[2] = y.code
  OBVIOUS
<1>5. ItemKey(x) # NoKey
  <2>1. Len(<<"code", x.code>>) = 2 /\ Len(<<>>) = 0
    OBVIOUS
  <2> QED BY <1>1, <2>1 DEF NoKey
<1> QED BY <1>1, <1>3, <1>4, <1>5

LEMMA ItemsMerge ==
  ASSUME NEW rows, ItemRows(rows)
  PROVE  \A some \in {Grouped(rows, ItemKey, MergeJobs), Grouped(rows, ItemKey, MergeItems)} :
             ItemRows(some) /\ FromItems(some, rows) /\ HoldItems(some, rows)
<1> DEFINE key == ItemKeys(rows)
           heads == Heads(rows, key)
<1> SUFFICES ASSUME NEW m \in {JobHeads(rows), ItemHeads(rows)}
             PROVE  LET some == RowsAt(m, Places(heads))
                    IN  ItemRows(some) /\ FromItems(some, rows) /\ HoldItems(some, rows)
  BY ItemsGrouped DEF ItemRows
<1> DEFINE some == RowsAt(m, Places(heads))
<1>1. List(some) /\ WordsOf(some) = {m[h] : h \in heads}
  BY GroupedRows DEF ItemRows
<1> HIDE DEF some
<1>2. ASSUME NEW h \in heads
      PROVE  /\ ItemFields \subseteq DOMAIN m[h] /\ m[h].code = rows[h].code
             /\ \A j \in Alike(rows, key, h) : rows[j].refs \subseteq m[h].refs
             /\ h \in DOMAIN rows /\ h \in Alike(rows, key, h)
  BY ItemHeadIs DEF Heads, Alike
<1>3. \A i \in DOMAIN rows : key[i] = ItemKey(rows[i])
  BY DEF ItemKeys
<1> HIDE DEF key
<1>4. ItemRows(some)
  BY <1>1, <1>2 DEF ItemRows
<1>5. FromItems(some, rows)
  BY <1>1, <1>2 DEF FromItems, WordsOf
<1>6. HoldItems(some, rows)
  <2> SUFFICES ASSUME NEW x \in WordsOf(rows), x.code # NoText
               PROVE  \E y \in WordsOf(some) : y.code = x.code /\ x.refs \subseteq y.refs
    BY DEF HoldItems
  <2>1. PICK i \in DOMAIN rows : x = rows[i]
    BY DEF WordsOf
  <2>2. ItemKey(x) # NoKey
    BY ItemKeyTells
  <2>3. PICK h \in heads : key[h] = key[i]
    BY <1>3, <2>1, <2>2, GroupsOf DEF ItemRows
  <2>4. ItemKey(x) = ItemKey(rows[h]) /\ i \in Alike(rows, key, h)
    BY <1>2, <1>3, <2>1, <2>3 DEF Alike
  <2>5. rows[h].code = x.code
    BY <2>4, ItemKeyTells
  <2> QED BY <1>1, <1>2, <2>1, <2>4, <2>5
<1> QED BY <1>4, <1>5, <1>6 DEF some

\* The parts of a core.
CoreItems(c) == DOMAIN c = CoreLists /\ ItemRows(c.jobs) /\ ItemRows(c.skills) /\ ItemRows(c.exps)

LEMMA PartsFlatten ==
  ASSUME NEW parts, List(parts), NEW list \in CoreLists,
         \A c \in WordsOf(parts) : ItemRows(c[list]),
         NEW rows, rows = FlattenSeq([i \in DOMAIN parts |-> parts[i][list]])
  PROVE  ItemRows(rows) /\ WordsOf(rows) = UNION {WordsOf(c[list]) : c \in WordsOf(parts)}
<1> DEFINE ss == [i \in DOMAIN parts |-> parts[i][list]]
<1>1. ss = [i \in DOMAIN parts |-> ss[i]] /\ \A i \in DOMAIN parts : ss[i] = parts[i][list]
  OBVIOUS
<1>2. rows = FlattenSeq(ss)
  OBVIOUS
<1> HIDE DEF ss
<1>3. List(ss) /\ DOMAIN ss = DOMAIN parts
  BY <1>1, ListLike
<1>4. \A i \in DOMAIN parts : parts[i] \in WordsOf(parts)
  BY DEF WordsOf
<1>5. \A i \in DOMAIN ss : List(ss[i])
  BY <1>1, <1>3, <1>4 DEF ItemRows
<1>6. List(rows) /\ WordsOf(rows) = UNION {WordsOf(ss[i]) : i \in DOMAIN ss}
  BY <1>2, <1>3, <1>5, FlattenList
<1>7. UNION {WordsOf(ss[i]) : i \in DOMAIN ss} = UNION {WordsOf(c[list]) : c \in WordsOf(parts)}
  BY <1>1, <1>3, <1>4 DEF WordsOf
<1>8. \A x \in WordsOf(rows) : ItemFields \subseteq DOMAIN x
  BY <1>6, <1>7 DEF ItemRows
<1> QED BY <1>6, <1>7, <1>8 DEF ItemRows

\* What the merge of the core parts keeps.
LEMMA CoresMerge ==
  ASSUME NEW parts, List(parts), \A c \in WordsOf(parts) : CoreItems(c)
  PROVE  /\ CoreItems(MergeCores(parts))
         /\ \A list \in {"jobs", "skills", "exps"} :
                /\ \A y \in WordsOf(MergeCores(parts)[list]) :
                       \E c \in WordsOf(parts) : \E x \in WordsOf(c[list]) : y.code = x.code /\ x.refs \subseteq y.refs
                /\ \A c \in WordsOf(parts) : HoldItems(MergeCores(parts)[list], c[list])
<1> DEFINE all(list) == FlattenSeq([i \in DOMAIN parts |-> parts[i][list]])
           c == MergeCores(parts)
           jobs == Grouped(all("jobs"), ItemKey, MergeJobs)
           skills == Grouped(all("skills"), ItemKey, MergeItems)
           exps == Grouped(all("exps"), ItemKey, MergeItems)
<1>1. DOMAIN c = CoreLists /\ c.jobs = SinglePrimary(jobs) /\ c.skills = skills /\ c.exps = exps
  BY DEF MergeCores, CoreLists
<1>2. ASSUME NEW list \in {"jobs", "skills", "exps"}
      PROVE  ItemRows(all(list)) /\ WordsOf(all(list)) = UNION {WordsOf(p[list]) : p \in WordsOf(parts)}
  <2>1. list \in CoreLists /\ \A p \in WordsOf(parts) : ItemRows(p[list])
    BY DEF CoreLists, CoreItems
  <2> QED BY <2>1, PartsFlatten
<1>3. ItemRows(all("jobs")) /\ ItemRows(all("skills")) /\ ItemRows(all("exps"))
  BY <1>2
<1>4. /\ ItemRows(jobs) /\ FromItems(jobs, all("jobs")) /\ HoldItems(jobs, all("jobs"))
      /\ ItemRows(skills) /\ FromItems(skills, all("skills")) /\ HoldItems(skills, all("skills"))
      /\ ItemRows(exps) /\ FromItems(exps, all("exps")) /\ HoldItems(exps, all("exps"))
  BY <1>3, ItemsMerge
<1> HIDE DEF all, jobs, skills, exps, c
<1> DEFINE prime == SinglePrimary(jobs)
<1>5. ItemRows(prime) /\ FromItems(prime, all("jobs")) /\ HoldItems(prime, all("jobs"))
  <2>1. /\ ItemRows(prime) /\ DOMAIN prime = DOMAIN jobs
        /\ \A i \in DOMAIN jobs : prime[i].code = jobs[i].code /\ prime[i].refs = jobs[i].refs
    BY <1>4, PrimaryIs
  <2> HIDE DEF prime
  <2>2. FromItems(prime, all("jobs"))
    <3> SUFFICES ASSUME NEW y \in WordsOf(prime)
                 PROVE  \E x \in WordsOf(all("jobs")) : y.code = x.code /\ x.refs \subseteq y.refs
      BY DEF FromItems
    <3>1. PICK i \in DOMAIN jobs : y = prime[i]
      BY <2>1 DEF WordsOf
    <3>2. jobs[i] \in WordsOf(jobs)
      BY DEF WordsOf
    <3> QED BY <1>4, <2>1, <3>1, <3>2 DEF FromItems
  <2>3. HoldItems(prime, all("jobs"))
    <3> SUFFICES ASSUME NEW x \in WordsOf(all("jobs")), x.code # NoText
                 PROVE  \E y \in WordsOf(prime) : y.code = x.code /\ x.refs \subseteq y.refs
      BY DEF HoldItems
    <3>1. PICK y \in WordsOf(jobs) : y.code = x.code /\ x.refs \subseteq y.refs
      BY <1>4 DEF HoldItems
    <3>2. PICK i \in DOMAIN jobs : y = jobs[i]
      BY DEF WordsOf
    <3>3. prime[i] \in WordsOf(prime)
      BY <2>1 DEF WordsOf
    <3> QED BY <2>1, <3>1, <3>2, <3>3
  <2> QED BY <2>1, <2>2, <2>3
<1> HIDE DEF prime
<1>6. \A list \in {"jobs", "skills", "exps"} : FromItems(c[list], all(list)) /\ HoldItems(c[list], all(list))
  BY <1>1, <1>4, <1>5 DEF prime
<1>7. ASSUME NEW list \in {"jobs", "skills", "exps"}
      PROVE  /\ \A y \in WordsOf(c[list]) :
                    \E p \in WordsOf(parts) : \E x \in WordsOf(p[list]) : y.code = x.code /\ x.refs \subseteq y.refs
             /\ \A p \in WordsOf(parts) : HoldItems(c[list], p[list])
  BY <1>2, <1>6 DEF FromItems, HoldItems
<1>8. CoreItems(c)
  BY <1>1, <1>4, <1>5 DEF CoreItems, prime
<1> QED BY <1>7, <1>8 DEF c

\* Jobs that are claimed with right stay so when they are merged.
LEMMA MergedClaims ==
  ASSUME NEW s, NEW parts, List(parts), \A c \in WordsOf(parts) : CoreItems(c) /\ JobClaims(s, c.jobs)
  PROVE  JobClaims(s, MergeCores(parts).jobs)
<1> SUFFICES ASSUME NEW y \in WordsOf(MergeCores(parts).jobs) PROVE JobClaim(s, y)
  BY DEF JobClaims
<1>1. \A list \in {"jobs", "skills", "exps"} : \A z \in WordsOf(MergeCores(parts)[list]) :
          \E c \in WordsOf(parts) : \E x \in WordsOf(c[list]) : z.code = x.code /\ x.refs \subseteq z.refs
  BY CoresMerge
<1>2. PICK c \in WordsOf(parts) : \E x \in WordsOf(c["jobs"]) : y.code = x.code /\ x.refs \subseteq y.refs
  BY <1>1
<1>3. PICK x \in WordsOf(c.jobs) : y.code = x.code /\ x.refs \subseteq y.refs
  BY <1>2
<1>4. JobClaim(s, x)
  BY DEF JobClaims
<1> QED BY <1>3, <1>4 DEF JobClaim

\* A loan goes to a row without a quotation, and leaves its code alone.
LEMMA LendIs ==
  ASSUME NEW x, ItemFields \subseteq DOMAIN x, NEW loans
  PROVE  /\ ItemFields \subseteq DOMAIN Lend(x, loans) /\ Lend(x, loans).code = x.code
         /\ Quoted(x.refs) => Lend(x, loans) = x
<1> DEFINE refs == UNION {WithLoan(x.refs, loan) : loan \in loans}
           given == IF x.raw = x.code THEN RawOf(loans) ELSE x.raw
           y == [x EXCEPT !.refs = refs, !.raw = given]
<1>1. Lend(x, loans) = IF x.code = NoText \/ Quoted(x.refs) \/ loans = {} \/ ~Quoted(refs) THEN x ELSE y
  BY DEF Lend
<1> HIDE DEF refs, given
<1>2. DOMAIN y = DOMAIN x /\ y.code = x.code
  BY DEF ItemFields
<1> HIDE DEF y
<1> QED BY <1>1, <1>2

LEMMA LentRows ==
  ASSUME NEW rows, ItemRows(rows), NEW loans, NEW f, f = [i \in DOMAIN rows |-> Lend(rows[i], loans[i])]
  PROVE  /\ ItemRows(f) /\ DOMAIN f = DOMAIN rows
         /\ \A i \in DOMAIN rows : f[i].code = rows[i].code /\ (Quoted(rows[i].refs) => f[i] = rows[i])
<1>1. \A i \in DOMAIN rows : ItemFields \subseteq DOMAIN rows[i]
  BY DEF ItemRows, WordsOf
<1>2. \A i \in DOMAIN rows : /\ ItemFields \subseteq DOMAIN f[i] /\ f[i].code = rows[i].code
                             /\ Quoted(rows[i].refs) => f[i] = rows[i]
  BY <1>1, LendIs
<1>3. f = [i \in DOMAIN rows |-> f[i]]
  OBVIOUS
<1>4. List(f) /\ DOMAIN f = DOMAIN rows
  BY <1>3, ListLike DEF ItemRows
<1> QED BY <1>2, <1>4 DEF ItemRows, WordsOf

LEMMA RootLent ==
  ASSUME NEW s, NEW c, CoreItems(c), NEW ps
  PROVE  /\ CoreItems(SupplementRoot(s, c, ps))
         /\ SupplementRoot(s, c, ps).skills = c.skills /\ SupplementRoot(s, c, ps).work = c.work
         /\ \A list \in {"jobs", "exps"} :
                /\ DOMAIN SupplementRoot(s, c, ps)[list] = DOMAIN c[list]
                /\ \A i \in DOMAIN c[list] :
                       /\ SupplementRoot(s, c, ps)[list][i].code = c[list][i].code
                       /\ Quoted(c[list][i].refs) => SupplementRoot(s, c, ps)[list][i] = c[list][i]
<1> DEFINE jobs == Borrow(s, c.jobs, ps, "job", LendsJob)
           exps == Borrow(s, c.exps, ps, "exp", LendsExp)
           jobLoans == [i \in DOMAIN c.jobs |-> Lent(s, ps, "job", c.jobs[i].code, LendsJob)]
           expLoans == [i \in DOMAIN c.exps |-> Lent(s, ps, "exp", c.exps[i].code, LendsExp)]
           d == SupplementRoot(s, c, ps)
<1>1. d = [c EXCEPT !.jobs = jobs, !.exps = exps]
  BY DEF SupplementRoot
<1>2. jobs = [i \in DOMAIN c.jobs |-> Lend(c.jobs[i], jobLoans[i])]
  BY DEF Borrow, Mapped
<1>3. exps = [i \in DOMAIN c.exps |-> Lend(c.exps[i], expLoans[i])]
  BY DEF Borrow, Mapped
<1> HIDE DEF jobs, exps, jobLoans, expLoans, d
<1>4. /\ ItemRows(jobs) /\ DOMAIN jobs = DOMAIN c.jobs
      /\ \A i \in DOMAIN c.jobs : jobs[i].code = c.jobs[i].code /\ (Quoted(c.jobs[i].refs) => jobs[i] = c.jobs[i])
  BY <1>2, LentRows DEF CoreItems
<1>5. /\ ItemRows(exps) /\ DOMAIN exps = DOMAIN c.exps
      /\ \A i \in DOMAIN c.exps : exps[i].code = c.exps[i].code /\ (Quoted(c.exps[i].refs) => exps[i] = c.exps[i])
  BY <1>3, LentRows DEF CoreItems
<1>6. DOMAIN c = CoreLists
  BY DEF CoreItems
<1>7. DOMAIN d = CoreLists /\ d.jobs = jobs /\ d.exps = exps /\ d.skills = c.skills /\ d.work = c.work
  BY <1>1, <1>6 DEF CoreLists
<1> QED BY <1>4, <1>5, <1>7 DEF CoreItems, d

\* A loan neither makes nor breaks a claim.
LEMMA LentClaims ==
  ASSUME NEW s, NEW c, CoreItems(c), JobClaims(s, c.jobs), NEW ps
  PROVE  JobClaims(s, SupplementRoot(s, c, ps).jobs)
<1> DEFINE jobs == SupplementRoot(s, c, ps).jobs
<1>1. /\ DOMAIN jobs = DOMAIN c.jobs
      /\ \A i \in DOMAIN c.jobs : jobs[i].code = c.jobs[i].code /\ (Quoted(c.jobs[i].refs) => jobs[i] = c.jobs[i])
  BY RootLent
<1> HIDE DEF jobs
<1>2. ASSUME NEW i \in DOMAIN c.jobs PROVE JobClaim(s, jobs[i])
  <2>1. JobClaim(s, c.jobs[i])
    BY DEF JobClaims, WordsOf
  <2>2. CASE c.jobs[i].code \in RequiredJobs
    <3>1. Quoted(c.jobs[i].refs)
      BY <2>1, <2>2 DEF JobClaim, Quoted
    <3> QED BY <1>1, <2>1, <3>1
  <2>3. CASE c.jobs[i].code \notin RequiredJobs
    BY <1>1, <2>1, <2>3 DEF JobClaim
  <2> QED BY <2>2, <2>3
<1> QED BY <1>1, <1>2 DEF JobClaims, WordsOf, jobs

-----------------------------------------------------------------------------
(* Rows of projects are parts of their pages. *)

LEMMA SubSeqIn ==
  ASSUME NEW S, NEW s \in Seq(S), NEW a \in Nat \ {0}, NEW b \in Int, b <= Len(s)
  PROVE  SubSeq(s, a, b) \in Seq(S)
OBVIOUS

LEMMA SubWords ==
  ASSUME NEW text, List(text), NEW a \in Nat, a >= 1, NEW b \in Int, b <= Len(text)
  PROVE  List(SubSeq(text, a, b)) /\ WordsOf(SubSeq(text, a, b)) \subseteq WordsOf(text)
<1> DEFINE S == WordsOf(text)
<1>1. text \in Seq(S) /\ a \in Nat \ {0}
  BY DEF List
<1> HIDE DEF S
<1>2. SubSeq(text, a, b) \in Seq(S)
  BY <1>1, SubSeqIn
<1> QED BY <1>2, SeqIsList DEF S

\* Where the block of a period lies.
LEMMA BlockIn ==
  ASSUME NEW text, List(text), NEW i \in DOMAIN text, NEW others
  PROVE  /\ BlockStart(text, i) \in Nat /\ BlockStart(text, i) >= 1
         /\ BlockEnd(text, i, others) \in Int /\ BlockEnd(text, i, others) <= Len(text)
<1>1. Len(text) \in Nat /\ DOMAIN text = 1..Len(text)
  BY ListFacts
<1>2. FullPeriods(text) \subseteq 1..Len(text)
  BY <1>1 DEF FullPeriods
<1>3. BlockStart(text, i) \in Nat /\ BlockStart(text, i) >= 1
  <2> DEFINE S == {0} \cup {j \in FullPeriods(text) : j < i}
             k == Len(text)
  <2>1. S \in SUBSET (0..k) /\ S # {} /\ k \in Nat
    BY <1>1, <1>2
  <2>2. BlockStart(text, i) = Max(S) + 1
    BY DEF BlockStart
  <2> HIDE DEF S, k
  <2>3. Max(S) \in 0..k
    BY <2>1, MaxIs
  <2> QED BY <2>1, <2>2, <2>3
<1>4. BlockEnd(text, i, others) \in Int /\ BlockEnd(text, i, others) <= Len(text)
  <2> DEFINE S == {Len(text) + 1} \cup {j \in FullPeriods(text) : j > i}
             next == Min(S)
             T == {next} \cup {k \in i + 1 .. next - 1 : text[k] \in others}
  <2>1. S \in SUBSET Nat /\ S # {} /\ Len(text) + 1 \in S
    BY <1>1, <1>2
  <2>2. BlockEnd(text, i, others) = Min(T) - 1
    BY DEF BlockEnd
  <2> HIDE DEF S
  <2>3. next \in S /\ next <= Len(text) + 1
    BY <2>1, MinIs
  <2>4. next \in Nat
    BY <2>1, <2>3
  <2>5. T \in SUBSET Nat /\ next \in T
    BY <1>1, <2>4
  <2> HIDE DEF next, T
  <2>6. Min(T) \in Nat /\ Min(T) <= next
    BY <2>5, MinIs
  <2> QED BY <1>1, <2>2, <2>3, <2>4, <2>6
<1> QED BY <1>3, <1>4

LEMMA SpanIn ==
  ASSUME NEW text, List(text), NEW p, NEW siblings, NEW span \in OwnedSpan(p, text, siblings)
  PROVE  span[1] \in Nat /\ span[1] >= 1 /\ span[2] \in Int /\ span[2] <= Len(text)
<1> DEFINE others == siblings \ {p.name}
           starts == {i \in FullPeriods(text) : Periods[text[i]].start = p.start}
           titles(i) == {k \in BlockStart(text, i) .. BlockEnd(text, i, others) : text[k] = p.name}
           before(i) == {k \in titles(i) : k < i}
           bearers == {i \in starts : CustomerFollows(p, text, i, others)}
           rows == IF p.name # NoText THEN {i \in starts : titles(i) # {}}
                   ELSE IF p.customer # NoText /\ Cardinality(bearers) = 1 THEN bearers ELSE {}
           first(i) == IF p.name = NoText THEN BlockStart(text, i)
                       ELSE IF before(i) # {} THEN Max(before(i)) ELSE i
<1>1. Len(text) \in Nat /\ DOMAIN text = 1..Len(text)
  BY ListFacts
<1>2. \/ span = <<1, Len(text)>>
      \/ \E i \in rows : span = <<first(i), BlockEnd(text, i, others)>>
  BY DEF OwnedSpan
<1>3. rows \subseteq DOMAIN text
  BY DEF FullPeriods
<1>4. CASE span = <<1, Len(text)>>
  BY <1>1, <1>4
<1>5. ASSUME NEW i \in rows, span = <<first(i), BlockEnd(text, i, others)>>
      PROVE  span[1] \in Nat /\ span[1] >= 1 /\ span[2] \in Int /\ span[2] <= Len(text)
  <2>1. i \in 1..Len(text)
    BY <1>1, <1>3
  <2>2. /\ BlockStart(text, i) \in Nat /\ BlockStart(text, i) >= 1
        /\ BlockEnd(text, i, others) \in Int /\ BlockEnd(text, i, others) <= Len(text)
    BY <1>3, BlockIn
  <2>3. before(i) # {} => Max(before(i)) \in before(i)
    <3> DEFINE S == before(i)
               k == Len(text)
    <3>1. S \in SUBSET (0..k) /\ k \in Nat
      BY <1>1, <2>2
    <3> HIDE DEF S, k
    <3>2. S # {} => Max(S) \in S
      BY <3>1, MaxIs
    <3> QED BY <3>2 DEF S
  <2>4. before(i) # {} => Max(before(i)) \in Nat /\ Max(before(i)) >= 1
    <3>1. \A k \in before(i) : k \in Nat /\ k >= 1
      BY <2>2
    <3> HIDE DEF before
    <3> QED BY <2>3, <3>1
  <2>5. first(i) \in Nat /\ first(i) >= 1
    <3> HIDE DEF before
    <3> QED BY <2>1, <2>2, <2>4
  <2> HIDE DEF first
  <2> QED BY <1>5, <2>2, <2>5
<1> HIDE DEF rows, first
<1> QED BY <1>2, <1>4, <1>5

LEMMA SpanWords ==
  ASSUME NEW text, List(text), NEW p, NEW siblings, NEW t \in SpanText(text, OwnedSpan(p, text, siblings))
  PROVE  List(t) /\ WordsOf(t) \subseteq WordsOf(text)
<1>1. PICK span \in OwnedSpan(p, text, siblings) : t = SubSeq(text, span[1], span[2])
  BY DEF SpanText
<1>2. span[1] \in Nat /\ span[1] >= 1 /\ span[2] \in Int /\ span[2] <= Len(text)
  BY SpanIn
<1> QED BY <1>1, <1>2, SubWords

\* The lines of a page and the words of them.
LEMMA PageLines ==
  ASSUME NEW s, TextOK(s), NEW at \in DOMAIN s
  PROVE  /\ List(s[at]) /\ List(PageText(s[at]))
         /\ \A i \in DOMAIN s[at] : List(s[at][i]) /\ WordsOf(s[at][i]) \subseteq WordsOf(PageText(s[at]))
<1> DEFINE W == UNION {WordsOf(s[at][i]) : i \in DOMAIN s[at]}
<1>1. s[at] \in Seq(Seq(W))
  BY DEF TextOK
<1> HIDE DEF W
<1>2. List(s[at]) /\ WordsOf(s[at]) \subseteq Seq(W)
  BY <1>1, SeqIsList
<1>3. \A i \in DOMAIN s[at] : s[at][i] \in Seq(W)
  BY <1>2 DEF WordsOf
<1>4. \A i \in DOMAIN s[at] : List(s[at][i])
  BY <1>3, SeqIsList
<1>5. List(PageText(s[at])) /\ WordsOf(PageText(s[at])) = UNION {WordsOf(s[at][i]) : i \in DOMAIN s[at]}
  BY <1>2, <1>4, FlattenList DEF PageText
<1> QED BY <1>2, <1>4, <1>5

\* A row that stands on its page.
RowOnPage(s, row) ==
  row.at \in DOMAIN s /\ List(row.text) /\ WordsOf(row.text) \subseteq WordsOf(PageText(s[row.at]))

LEMMA OwnedRow ==
  ASSUME NEW s, TextOK(s), NEW at \in DOMAIN s, NEW text, List(text),
         WordsOf(text) \subseteq WordsOf(PageText(s[at])), NEW p, NEW siblings,
         NEW t \in SpanText(text, OwnedSpan(p, text, siblings)), NEW row, row = [at |-> at, text |-> t]
  PROVE  RowOnPage(s, row)
<1>1. List(t) /\ WordsOf(t) \subseteq WordsOf(text)
  BY SpanWords
<1> QED BY <1>1 DEF RowOnPage

LEMMA RowWords ==
  ASSUME NEW span, List(span)
  PROVE  Title(span) \subseteq WordsOf(span) /\ Duty(span) \subseteq WordsOf(span)
<1> DEFINE at == FullPeriods(span)
<1>1. Len(span) \in Nat /\ DOMAIN span = 1..Len(span)
  BY ListFacts
<1>2. CASE at = {}
  BY <1>2 DEF Title, Duty
<1>3. CASE at # {}
  <2>1. at \in SUBSET Nat /\ at \subseteq 1..Len(span)
    BY <1>1 DEF FullPeriods
  <2> DEFINE m == Min(at)
  <2>2. m \in 1..Len(span)
    <3> HIDE DEF at
    <3>1. m \in at
      BY <1>3, <2>1, MinIs
    <3> QED BY <2>1, <3>1
  <2>3. Title(span) = {span[i] : i \in 1 .. m - 1} /\ Duty(span) = {span[i] : i \in m + 1 .. Len(span)}
    BY <1>3 DEF Title, Duty
  <2> HIDE DEF m
  <2>4. (1 .. m - 1) \subseteq DOMAIN span /\ (m + 1 .. Len(span)) \subseteq DOMAIN span
    BY <1>1, <2>2
  <2> QED BY <2>3, <2>4 DEF WordsOf
<1> QED BY <1>2, <1>3

LEMMA RowQuotes ==
  ASSUME NEW span, List(span), NEW code
  PROVE  RowExpQuote(code, span) \subseteq WordsOf(span) /\ RowJobQuote(code, span) \subseteq WordsOf(span)
<1>1. Title(span) \subseteq WordsOf(span) /\ Duty(span) \subseteq WordsOf(span)
  BY RowWords
<1>2. ASSUME NEW c PROVE RowExpQuote(c, span) \subseteq WordsOf(span)
  <2>1. /\ Extract(ProjectPatterns, c, Duty(span)) \subseteq WordsOf(span)
        /\ Extract(ProjectPatterns, c, Title(span)) \subseteq WordsOf(span)
        /\ Extract(ProjectPatterns, c, WordsOf(span)) \subseteq WordsOf(span)
    BY <1>1, ExtractWords
  <2> QED BY <2>1 DEF RowExpQuote
<1>3. OneOf(Literal[code] \cap Duty(span)) \subseteq WordsOf(span)
  BY <1>1, OneOfWords
<1>4. RowJobQuote(code, span) \subseteq WordsOf(span)
  BY <1>1, <1>2, <1>3 DEF RowJobQuote
<1> QED BY <1>2, <1>4

\* A reference to a row that quotes the row.
LEMMA RowRef ==
  ASSUME NEW s, TextOK(s), NEW row, RowOnPage(s, row), NEW q, q \subseteq WordsOf(row.text)
  PROVE  Borne(s, {RefAt(row.at, q)})
<1>1. row.at \in DOMAIN s /\ q \subseteq WordsOf(PageText(s[row.at]))
  BY DEF RowOnPage
<1> QED BY <1>1, PageRef

LEMMA ExpRefBorne ==
  ASSUME NEW s, TextOK(s), NEW p, NEW code, NEW siblings
  PROVE  Borne(s, ExpRef(s, p, code, siblings))
<1> SUFFICES ASSUME NEW r \in ExpRef(s, p, code, siblings) PROVE Borne(s, {r})
  BY DEF Borne
<1> DEFINE wanted(span) == RowSupportsExp(code, span)
           owned(at, text) == {[at |-> at, text |-> t] :
                               t \in {t \in SpanText(text, OwnedSpan(p, text, siblings)) : wanted(t)}}
<1>1. PICK row \in SourceRow(s, p, siblings, wanted) : r = RefAt(row.at, RowExpQuote(code, row.text))
  BY DEF ExpRef
<1>2. row \in RowsIn(s, p, siblings, wanted)
  BY DEF SourceRow, TheRow
<1>3. \E at \in DOMAIN s : \/ row \in owned(at, PageText(s[at]))
                           \/ \E i \in DOMAIN s[at] : row \in owned(at, s[at][i])
  BY <1>2 DEF RowsIn
<1>4. PICK at \in DOMAIN s : \/ row \in owned(at, PageText(s[at]))
                             \/ \E i \in DOMAIN s[at] : row \in owned(at, s[at][i])
  BY <1>3
<1>5. ASSUME NEW text, List(text), WordsOf(text) \subseteq WordsOf(PageText(s[at])), row \in owned(at, text)
      PROVE  RowOnPage(s, row)
  BY <1>5, OwnedRow
<1>6. RowOnPage(s, row)
  <2> HIDE DEF owned
  <2> QED BY <1>4, <1>5, PageLines
<1>7. RowExpQuote(code, row.text) \subseteq WordsOf(row.text)
  BY <1>6, RowQuotes DEF RowOnPage
<1> QED BY <1>1, <1>6, <1>7, RowRef

LEMMA JobRefBorne ==
  ASSUME NEW s, TextOK(s), NEW p, NEW code, NEW siblings
  PROVE  Borne(s, JobRef(s, p, code, siblings))
<1> SUFFICES ASSUME NEW r \in JobRef(s, p, code, siblings) PROVE Borne(s, {r})
  BY DEF Borne
<1> DEFINE wanted(span) == RowJobQuote(code, span) # {}
           owned(at, text) == {[at |-> at, text |-> t] :
                               t \in {t \in SpanText(text, OwnedSpan(p, text, siblings)) : wanted(t)}}
<1>1. PICK row \in SourceRow(s, p, siblings, wanted) : r = RefAt(row.at, RowJobQuote(code, row.text))
  BY DEF JobRef
<1>2. row \in RowsIn(s, p, siblings, wanted)
  BY DEF SourceRow, TheRow
<1>3. \E at \in DOMAIN s : \/ row \in owned(at, PageText(s[at]))
                           \/ \E i \in DOMAIN s[at] : row \in owned(at, s[at][i])
  BY <1>2 DEF RowsIn
<1>4. PICK at \in DOMAIN s : \/ row \in owned(at, PageText(s[at]))
                             \/ \E i \in DOMAIN s[at] : row \in owned(at, s[at][i])
  BY <1>3
<1>5. ASSUME NEW text, List(text), WordsOf(text) \subseteq WordsOf(PageText(s[at])), row \in owned(at, text)
      PROVE  RowOnPage(s, row)
  BY <1>5, OwnedRow
<1>6. RowOnPage(s, row)
  <2> HIDE DEF owned
  <2> QED BY <1>4, <1>5, PageLines
<1>7. RowJobQuote(code, row.text) \subseteq WordsOf(row.text)
  BY <1>6, RowQuotes DEF RowOnPage
<1> QED BY <1>1, <1>6, <1>7, RowRef

-----------------------------------------------------------------------------
(* The rows of the projects. *)

ProjectFields == {"name", "customer", "start", "end", "refs", "rels"}
RelFields == {"code", "refs"}

\* A code of the catalog, of the kind of its relation, with evidence where it is
\* asked for.
TypedRel(s, kind, x) ==
  /\ x.code = NoText \/ x.code \in WordsOf(CodeOrder)
  /\ kind = "job" => x.code \notin SemanticExps \cup ExtraExps /\ Borne(s, x.refs)
  /\ kind = "exp" => x.code \notin SemanticJobs \cup ExtraJobs /\ Borne(s, x.refs)

RelsOK(s, kind, rels) ==
  List(rels) /\ \A x \in WordsOf(rels) : RelFields \subseteq DOMAIN x /\ TypedRel(s, kind, x)

ProjectOK(s, p) ==
  /\ DOMAIN p = ProjectFields /\ p.start \in Nat /\ p.end \in Nat /\ DOMAIN p.rels = Kinds
  /\ \A kind \in Kinds : RelsOK(s, kind, p.rels[kind])

LEMMA RelsLike ==
  ASSUME NEW s, NEW kind, NEW rels, List(rels), NEW f, f = [i \in DOMAIN rels |-> f[i]],
         \A i \in DOMAIN rels : RelFields \subseteq DOMAIN f[i] /\ TypedRel(s, kind, f[i])
  PROVE  RelsOK(s, kind, f)
<1>1. List(f) /\ DOMAIN f = DOMAIN rels
  BY ListLike
<1> QED BY <1>1 DEF RelsOK, WordsOf

LEMMA KindIs ==
  ASSUME NEW s, NEW kind \in Kinds, NEW c, NEW x, x.code = Lookup(c, TypeOf[kind]), Borne(s, x.refs)
  PROVE  TypedRel(s, kind, x)
<1>1. x.code = NoText \/ (x.code \in DOMAIN Catalog /\ Catalog[x.code] = TypeOf[kind])
  BY DEF Lookup
<1>2. x.code = NoText \/ x.code \in WordsOf(CodeOrder)
  BY <1>1, CatalogAssumption
<1>3. NoText \notin SemanticExps \cup ExtraExps /\ NoText \notin SemanticJobs \cup ExtraJobs
  BY DEF NoText, SemanticExps, ExtraExps, SemanticJobs, ExtraJobs, LiteralJobs
<1>4. TypeOf["job"] = "JOB" /\ TypeOf["exp"] = "EXP"
  BY DEF TypeOf
<1>5. ASSUME kind = "job" PROVE x.code \notin SemanticExps \cup ExtraExps
  BY <1>1, <1>3, <1>4, <1>5, CatalogAssumption
<1>6. ASSUME kind = "exp" PROVE x.code \notin SemanticJobs \cup ExtraJobs
  BY <1>1, <1>3, <1>4, <1>6, CatalogAssumption
<1> QED BY <1>2, <1>5, <1>6 DEF TypedRel

LEMMA NormalRelIs ==
  ASSUME NEW s, NEW x, NEW type, RelFields \subseteq DOMAIN x
  PROVE  /\ DOMAIN NormalItem(s, x, type) = DOMAIN x
         /\ NormalItem(s, x, type).refs = NormalRefs(s, ExpandRefs(x.refs))
         /\ NormalItem(s, x, type).code = Lookup(x.code, type)
<1> DEFINE refs == NormalRefs(s, ExpandRefs(x.refs))
           y == [x EXCEPT !.refs = refs]
<1>1. NormalItem(s, x, type) = [y EXCEPT !.code = Lookup(y.code, type)]
  BY DEF NormalItem, NormalRow
<1> HIDE DEF refs
<1>2. DOMAIN y = DOMAIN x /\ y.refs = refs /\ y.code = x.code
  BY DEF RelFields
<1> HIDE DEF y
<1> DEFINE code == Lookup(y.code, type)
<1>3. code = Lookup(x.code, type)
  BY <1>2
<1> HIDE DEF code
<1>4. NormalItem(s, x, type) = [y EXCEPT !.code = code]
  BY <1>1 DEF code
<1> QED BY <1>2, <1>3, <1>4 DEF RelFields, refs

\* A project as the schema has it.
RawProject(p) ==
  /\ DOMAIN p = ProjectFields /\ p.start \in Nat /\ p.end \in Nat /\ DOMAIN p.rels = Kinds
  /\ \A kind \in Kinds : List(p.rels[kind]) /\ \A x \in WordsOf(p.rels[kind]) : RelFields \subseteq DOMAIN x

LEMMA ExpandedRels ==
  ASSUME NEW raw, NEW kind, List(raw.codes[kind])
  PROVE  /\ List(ExpandRels(raw, kind))
         /\ \A x \in WordsOf(ExpandRels(raw, kind)) : RelFields \subseteq DOMAIN x
<1> DEFINE own(code)  == IF code \in DOMAIN raw.rm[kind] THEN ExpandRefs(raw.rm[kind][code]) ELSE {}
           refs(code) == IF own(code) # {} \/ kind \in Strict THEN own(code) ELSE ExpandRefs(raw.refs)
           I == {i \in DOMAIN raw.codes[kind] : kind \in Strict => refs(raw.codes[kind][i]) # {}}
           codes == RowsAt(raw.codes[kind], Places(I))
           f == ExpandRels(raw, kind)
<1>1. f = [i \in DOMAIN codes |-> [code |-> codes[i], refs |-> refs(codes[i])]]
  BY DEF ExpandRels, Mapped, Kept
<1>2. List(codes)
  <2>1. I \in SUBSET DOMAIN raw.codes[kind]
    OBVIOUS
  <2> HIDE DEF I
  <2> QED BY <2>1, SomeRows
<1> HIDE DEF codes, refs, f
<1>3. f = [i \in DOMAIN codes |-> f[i]]
  BY <1>1
<1>4. List(f) /\ DOMAIN f = DOMAIN codes
  BY <1>2, <1>3, ListLike
<1>5. \A i \in DOMAIN codes : RelFields \subseteq DOMAIN f[i]
  BY <1>1 DEF RelFields
<1> QED BY <1>4, <1>5 DEF WordsOf, f

LEMMA ExpandShape ==
  ASSUME NEW answer, ProjectsOK(answer), NEW raw \in WordsOf(answer)
  PROVE  RawProject(ExpandProject(raw))
<1> DEFINE p == ExpandProject(raw)
<1>1. /\ DOMAIN p = ProjectFields /\ p.start = raw.start /\ p.end = raw.end
      /\ p.rels = [kind \in Kinds |-> ExpandRels(raw, kind)]
  BY DEF ExpandProject, ProjectFields
<1> HIDE DEF p
<1>2. raw.start \in Nat /\ raw.end \in Nat /\ \A kind \in Kinds : List(raw.codes[kind])
  BY DEF ProjectsOK, List
<1>3. ASSUME NEW kind \in Kinds
      PROVE  List(p.rels[kind]) /\ \A x \in WordsOf(p.rels[kind]) : RelFields \subseteq DOMAIN x
  BY <1>1, <1>2, ExpandedRels
<1> QED BY <1>1, <1>2, <1>3 DEF RawProject, p

LEMMA RepairShape ==
  ASSUME NEW s, NEW p, RawProject(p)
  PROVE  RawProject(RepairProject(s, p))
<1> DEFINE refs == RepairSpacing(s, p.refs)
           q == [p EXCEPT !.refs = refs]
           fixed(rows) == [i \in DOMAIN rows |-> [rows[i] EXCEPT !.refs = RepairSpacing(s, rows[i].refs)]]
           rels == [kind \in Kinds |-> IF kind \in Strict THEN fixed(q.rels[kind]) ELSE q.rels[kind]]
           d == RepairProject(s, p)
<1>1. d = [q EXCEPT !.rels = rels]
  BY DEF RepairProject, Mapped
<1> HIDE DEF refs
<1>2. DOMAIN q = ProjectFields /\ q.start = p.start /\ q.end = p.end /\ q.rels = p.rels
  BY DEF RawProject, ProjectFields
<1>3. ASSUME NEW kind \in Kinds
      PROVE  List(rels[kind]) /\ \A x \in WordsOf(rels[kind]) : RelFields \subseteq DOMAIN x
  <2> DEFINE rows == p.rels[kind]
             f == fixed(rows)
  <2>1. rels[kind] = IF kind \in Strict THEN f ELSE rows
    BY <1>2
  <2>2. List(rows) /\ \A x \in WordsOf(rows) : RelFields \subseteq DOMAIN x
    BY DEF RawProject
  <2>3. f = [i \in DOMAIN rows |-> f[i]] /\ \A i \in DOMAIN rows : DOMAIN f[i] = DOMAIN rows[i]
    OBVIOUS
  <2> HIDE DEF rows, f, rels
  <2>4. List(f) /\ DOMAIN f = DOMAIN rows
    BY <2>2, <2>3, ListLike
  <2> QED BY <2>1, <2>2, <2>3, <2>4 DEF WordsOf
<1>4. DOMAIN rels = Kinds
  OBVIOUS
<1> HIDE DEF q, rels, d
<1>5. DOMAIN d = ProjectFields /\ d.start = q.start /\ d.end = q.end /\ d.rels = rels
  BY <1>1, <1>2 DEF ProjectFields
<1>6. p.start \in Nat /\ p.end \in Nat
  BY DEF RawProject
<1> QED BY <1>2, <1>3, <1>4, <1>5, <1>6 DEF RawProject, d

LEMMA NormalShape ==
  ASSUME NEW s, NEW p, RawProject(p)
  PROVE  ProjectOK(s, NormalProject(s, p))
<1> DEFINE refs == NormalRefs(s, ExpandRefs(p.refs))
           q == [p EXCEPT !.refs = refs]
           rels == [kind \in Kinds |->
                       [i \in DOMAIN q.rels[kind] |-> NormalItem(s, q.rels[kind][i], TypeOf[kind])]]
           d == NormalProject(s, p)
<1>1. d = [q EXCEPT !.rels = rels]
  BY DEF NormalProject, NormalRow, Mapped
<1> HIDE DEF refs
<1>2. DOMAIN q = ProjectFields /\ q.start = p.start /\ q.end = p.end /\ q.rels = p.rels
  BY DEF RawProject, ProjectFields
<1>3. ASSUME NEW kind \in Kinds PROVE RelsOK(s, kind, rels[kind])
  <2> DEFINE rows == p.rels[kind]
             f == [i \in DOMAIN rows |-> NormalItem(s, rows[i], TypeOf[kind])]
  <2>1. rels[kind] = f
    BY <1>2
  <2>2. List(rows) /\ \A i \in DOMAIN rows : RelFields \subseteq DOMAIN rows[i]
    BY DEF RawProject, WordsOf
  <2>3. f = [i \in DOMAIN rows |-> f[i]] /\ \A i \in DOMAIN rows : f[i] = NormalItem(s, rows[i], TypeOf[kind])
    OBVIOUS
  <2> HIDE DEF rows, f, rels
  <2>4. ASSUME NEW i \in DOMAIN rows PROVE RelFields \subseteq DOMAIN f[i] /\ TypedRel(s, kind, f[i])
    <3>1. /\ DOMAIN f[i] = DOMAIN rows[i] /\ f[i].refs = NormalRefs(s, ExpandRefs(rows[i].refs))
          /\ f[i].code = Lookup(rows[i].code, TypeOf[kind])
      BY <2>2, <2>3, NormalRelIs
    <3>2. Borne(s, f[i].refs)
      BY <3>1, NormalBorne
    <3> QED BY <2>2, <3>1, <3>2, KindIs
  <2> QED BY <2>1, <2>2, <2>3, <2>4, RelsLike
<1>4. DOMAIN rels = Kinds
  OBVIOUS
<1> HIDE DEF q, rels, d
<1>5. DOMAIN d = ProjectFields /\ d.start = q.start /\ d.end = q.end /\ d.rels = rels
  BY <1>1, <1>2 DEF ProjectFields
<1>6. p.start \in Nat /\ p.end \in Nat
  BY DEF RawProject
<1> QED BY <1>2, <1>3, <1>4, <1>5, <1>6 DEF ProjectOK, d

\* A project with other references or dates, or with other relations of one kind.
LEMMA ProjectWith ==
  ASSUME NEW s, NEW p, ProjectOK(s, p), NEW q, DOMAIN q = ProjectFields,
         q.start \in Nat, q.end \in Nat, q.rels = p.rels
  PROVE  ProjectOK(s, q)
BY DEF ProjectOK

LEMMA RelsWith ==
  ASSUME NEW s, NEW p, ProjectOK(s, p), NEW kind \in Kinds, NEW rels, RelsOK(s, kind, rels)
  PROVE  /\ ProjectOK(s, [p EXCEPT !.rels = [p.rels EXCEPT ![kind] = rels]])
         /\ \A k \in Kinds : [p EXCEPT !.rels = [p.rels EXCEPT ![kind] = rels]].rels[k] =
                IF k = kind THEN rels ELSE p.rels[k]
<1> DEFINE all == [p.rels EXCEPT ![kind] = rels]
           q == [p EXCEPT !.rels = all]
<1>1. DOMAIN p = ProjectFields /\ p.start \in Nat /\ p.end \in Nat /\ DOMAIN p.rels = Kinds
  BY DEF ProjectOK
<1>2. DOMAIN all = Kinds /\ \A k \in Kinds : all[k] = IF k = kind THEN rels ELSE p.rels[k]
  BY <1>1
<1> HIDE DEF all
<1>3. DOMAIN q = ProjectFields /\ q.start = p.start /\ q.end = p.end /\ q.rels = all
  BY <1>1 DEF ProjectFields
<1> HIDE DEF q
<1>4. ProjectOK(s, q)
  BY <1>1, <1>2, <1>3 DEF ProjectOK
<1> QED BY <1>2, <1>3, <1>4 DEF q, all

ProjectsAre(s, ps) == List(ps) /\ \A p \in WordsOf(ps) : ProjectOK(s, p)

LEMMA ProjectsLike ==
  ASSUME NEW s, NEW ps, List(ps), NEW f, f = [i \in DOMAIN ps |-> f[i]],
         \A i \in DOMAIN ps : ProjectOK(s, f[i])
  PROVE  ProjectsAre(s, f) /\ DOMAIN f = DOMAIN ps
<1>1. List(f) /\ DOMAIN f = DOMAIN ps
  BY ListLike
<1> QED BY <1>1 DEF ProjectsAre, WordsOf

LEMMA RootShape ==
  ASSUME NEW s, NEW p, ProjectOK(s, p)
  PROVE  ProjectOK(s, RootEvidence(s, p))
<1>1. PICK refs : RootEvidence(s, p) = [p EXCEPT !.refs = refs]
  BY DEF RootEvidence
<1> DEFINE q == [p EXCEPT !.refs = refs]
<1>2. DOMAIN q = ProjectFields /\ q.start = p.start /\ q.end = p.end /\ q.rels = p.rels
  BY DEF ProjectOK, ProjectFields
<1> HIDE DEF q
<1>3. p.start \in Nat /\ p.end \in Nat
  BY DEF ProjectOK
<1> QED BY <1>1, <1>2, <1>3, ProjectWith DEF q

\* A project that took over a period.
IsDate(d) == d.start \in Nat /\ d.end \in Nat

LEMMA DatedShape ==
  ASSUME NEW s, NEW p, ProjectOK(s, p), NEW q, NEW d, IsDate(d),
         q \in {p, [p EXCEPT !.start = d.start, !.end = d.end], [p EXCEPT !.start = d.start],
                [p EXCEPT !.end = d.end]}
  PROVE  ProjectOK(s, q)
<1>1. DOMAIN p = ProjectFields /\ p.start \in Nat /\ p.end \in Nat
  BY DEF ProjectOK
<1>2. DOMAIN q = ProjectFields /\ q.start \in Nat /\ q.end \in Nat /\ q.rels = p.rels
  BY <1>1 DEF ProjectFields, IsDate
<1> QED BY <1>2, ProjectWith

LEMMA PeriodIsDate ==
  ASSUME NEW words, NEW d \in PeriodsIn(words)
  PROVE  IsDate(d)
BY ProjectSpansAssumption DEF PeriodsIn, IsDate

LEMMA OneMember ==
  ASSUME NEW S, Cardinality(S) = 1
  PROVE  (CHOOSE d \in S : TRUE) \in S
<1>1. S # {}
  BY FS_EmptySet
<1> QED BY <1>1

LEMMA OwnedIsDate ==
  ASSUME NEW s, NEW ps, NEW i, NEW d \in OwnedPeriods(s, ps, i)
  PROVE  IsDate(d)
<1>1. \E r : d \in PeriodsHolding(ps[i], r.quote, PageText(s[<<r.doc, r.page>>]), Titles(ps))
  BY DEF OwnedPeriods
<1>2. \E w \in DOMAIN Periods : d = Periods[w]
  BY <1>1 DEF PeriodsHolding, FullPeriods
<1> QED BY <1>2, ProjectSpansAssumption DEF IsDate

LEMMA DatesShape ==
  ASSUME NEW s, NEW ps, ProjectsAre(s, ps)
  PROVE  ProjectsAre(s, DatedProjects(s, ps))
<1> DEFINE quoted(p) == PeriodsIn(UNION {r.quote : r \in p.refs})
           filled(p, d) ==
            CASE p.start = NoMonth /\ p.end = NoMonth -> [p EXCEPT !.start = d.start, !.end = d.end]
              [] p.start = NoMonth /\ p.end = d.end   -> [p EXCEPT !.start = d.start]
              [] p.end = NoMonth /\ p.start = d.start -> [p EXCEPT !.end = d.end]
              [] OTHER -> p
           spread(p, d) == IF p.start = d.end THEN [p EXCEPT !.start = d.start]
                           ELSE IF p.start = d.start THEN [p EXCEPT !.end = d.end] ELSE p
           the(periods) == CHOOSE d \in periods : TRUE
           dated(i) ==
            LET p == ps[i]
            IN  IF NoMonth \in {p.start, p.end}
                THEN IF Cardinality(quoted(p)) = 1 THEN filled(p, the(quoted(p))) ELSE p
                ELSE IF p.start = p.end /\ Cardinality(OwnedPeriods(s, ps, i)) = 1
                THEN spread(p, the(OwnedPeriods(s, ps, i))) ELSE p
           f == DatedProjects(s, ps)
<1>1. f = [i \in DOMAIN ps |-> dated(i)]
  BY DEF DatedProjects
<1>2. ASSUME NEW p, NEW d PROVE filled(p, d) \in {p, [p EXCEPT !.start = d.start, !.end = d.end],
                                   [p EXCEPT !.start = d.start], [p EXCEPT !.end = d.end]}
  OBVIOUS
<1>3. ASSUME NEW p, NEW d PROVE spread(p, d) \in {p, [p EXCEPT !.start = d.start, !.end = d.end],
                                   [p EXCEPT !.start = d.start], [p EXCEPT !.end = d.end]}
  OBVIOUS
<1>4. ASSUME NEW p PROVE Cardinality(quoted(p)) = 1 => IsDate(the(quoted(p)))
  BY OneMember, PeriodIsDate
<1>5. ASSUME NEW i PROVE Cardinality(OwnedPeriods(s, ps, i)) = 1 => IsDate(the(OwnedPeriods(s, ps, i)))
  BY OneMember, OwnedIsDate
<1> HIDE DEF quoted, filled, spread, the, f
<1>6. ASSUME NEW i \in DOMAIN ps PROVE ProjectOK(s, dated(i))
  <2> DEFINE p == ps[i]
             own == OwnedPeriods(s, ps, i)
  <2>1. ProjectOK(s, p)
    BY DEF ProjectsAre, WordsOf
  <2>2. \/ dated(i) = p
        \/ Cardinality(quoted(p)) = 1 /\ dated(i) = filled(p, the(quoted(p)))
        \/ Cardinality(own) = 1 /\ dated(i) = spread(p, the(own))
    OBVIOUS
  <2>3. Cardinality(own) = 1 => IsDate(the(own))
    BY <1>5
  <2> HIDE DEF p, dated, own
  <2>4. CASE dated(i) = p
    BY <2>1, <2>4
  <2>5. CASE Cardinality(quoted(p)) = 1 /\ dated(i) = filled(p, the(quoted(p)))
    <3> DEFINE d == the(quoted(p))
    <3>1. IsDate(d)
      BY <1>4, <2>5
    <3>2. dated(i) = filled(p, d)
      BY <2>5
    <3> HIDE DEF d
    <3>3. filled(p, d) \in {p, [p EXCEPT !.start = d.start, !.end = d.end],
                            [p EXCEPT !.start = d.start], [p EXCEPT !.end = d.end]}
      BY <1>2
    <3> QED BY <2>1, <3>1, <3>2, <3>3, DatedShape
  <2>6. CASE Cardinality(own) = 1 /\ dated(i) = spread(p, the(own))
    BY <1>3, <2>1, <2>3, <2>6, DatedShape
  <2> QED BY <2>2, <2>4, <2>5, <2>6
<1> HIDE DEF dated
<1>7. f = [i \in DOMAIN ps |-> f[i]] /\ \A i \in DOMAIN ps : ProjectOK(s, f[i])
  BY <1>1, <1>6
<1> QED BY <1>7, ProjectsLike DEF ProjectsAre, f

LEMMA AnswerShape ==
  ASSUME NEW s, NEW answer, ProjectsOK(answer)
  PROVE  ProjectsAre(s, DatedAnswer(s, answer))
<1> DEFINE one(raw) == RootEvidence(s, NormalProject(s, RepairProject(s, ExpandProject(raw))))
           f == [i \in DOMAIN answer |-> one(answer[i])]
<1>1. DatedAnswer(s, answer) = DatedProjects(s, f)
  BY DEF DatedAnswer, Mapped
<1>2. List(answer)
  BY DEF ProjectsOK, RowsOK, List
<1>3. ASSUME NEW i \in DOMAIN answer PROVE ProjectOK(s, one(answer[i]))
  <2>1. answer[i] \in WordsOf(answer)
    BY DEF WordsOf
  <2> QED BY <2>1, ExpandShape, RepairShape, NormalShape, RootShape
<1> HIDE DEF one
<1>4. f = [i \in DOMAIN answer |-> f[i]] /\ \A i \in DOMAIN answer : ProjectOK(s, f[i])
  BY <1>3
<1> HIDE DEF f
<1> QED BY <1>1, <1>2, <1>4, ProjectsLike, DatesShape

\* References that take the place of those of a relation.
LEMMA BackedRel ==
  ASSUME NEW s, NEW kind, NEW x, RelFields \subseteq DOMAIN x, TypedRel(s, kind, x), NEW refs,
         kind \in {"job", "exp"} => Borne(s, refs)
  PROVE  \A y \in {x, [x EXCEPT !.refs = refs], Backed(x, refs)} :
             RelFields \subseteq DOMAIN y /\ TypedRel(s, kind, y)
<1> DEFINE z == [x EXCEPT !.refs = refs]
<1>1. DOMAIN z = DOMAIN x /\ z.code = x.code /\ z.refs = refs
  BY DEF RelFields
<1>2. Backed(x, refs) \in {x, z}
  BY DEF Backed
<1> HIDE DEF z
<1>3. TypedRel(s, kind, z)
  BY <1>1 DEF TypedRel
<1> QED BY <1>1, <1>2, <1>3 DEF z

LEMMA RelsOf ==
  ASSUME NEW s, NEW p, ProjectOK(s, p), NEW kind \in Kinds
  PROVE  /\ RelsOK(s, kind, p.rels[kind]) /\ List(p.rels[kind])
         /\ \A i \in DOMAIN p.rels[kind] : RelFields \subseteq DOMAIN p.rels[kind][i]
                                            /\ TypedRel(s, kind, p.rels[kind][i])
BY DEF ProjectOK, RelsOK, WordsOf

LEMMA BackExpsShape ==
  ASSUME NEW s, TextOK(s), NEW p, ProjectOK(s, p), NEW titles
  PROVE  ProjectOK(s, BackExps(s, p, titles))
<1> DEFINE rows == p.rels["exp"]
           bare(x) == x.code \in SemanticExps /\ ~Evident(x, SupportsExp)
           f == [i \in DOMAIN rows |->
                    IF bare(rows[i]) THEN Backed(rows[i], ExpRef(s, p, rows[i].code, titles)) ELSE rows[i]]
<1>1. BackExps(s, p, titles) = [p EXCEPT !.rels = [p.rels EXCEPT !["exp"] = f]]
  BY DEF BackExps
<1>2. "exp" \in Kinds
  BY DEF Kinds
<1>3. List(rows) /\ \A i \in DOMAIN rows : RelFields \subseteq DOMAIN rows[i] /\ TypedRel(s, "exp", rows[i])
  BY <1>2, RelsOf
<1>4. ASSUME NEW i \in DOMAIN rows PROVE RelFields \subseteq DOMAIN f[i] /\ TypedRel(s, "exp", f[i])
  <2>1. f[i] \in {rows[i], Backed(rows[i], ExpRef(s, p, rows[i].code, titles))}
    OBVIOUS
  <2>2. Borne(s, ExpRef(s, p, rows[i].code, titles))
    BY ExpRefBorne
  <2> HIDE DEF rows, f
  <2> QED BY <1>3, <2>1, <2>2, BackedRel
<1>5. f = [i \in DOMAIN rows |-> f[i]]
  OBVIOUS
<1> HIDE DEF rows, f
<1>6. RelsOK(s, "exp", f)
  BY <1>3, <1>4, <1>5, RelsLike
<1> QED BY <1>1, <1>2, <1>6, RelsWith

LEMMA BackJobsShape ==
  ASSUME NEW s, TextOK(s), NEW p, ProjectOK(s, p), NEW titles
  PROVE  ProjectOK(s, BackJobs(s, p, titles))
<1> DEFINE rows == p.rels["job"]
           bare(x) == x.code \in SemanticJobs /\ ~Evident(x, SupportsJob)
           f == [i \in DOMAIN rows |->
                    IF bare(rows[i]) THEN Backed(rows[i], JobRef(s, p, rows[i].code, titles)) ELSE rows[i]]
<1>1. BackJobs(s, p, titles) = [p EXCEPT !.rels = [p.rels EXCEPT !["job"] = f]]
  BY DEF BackJobs
<1>2. "job" \in Kinds
  BY DEF Kinds
<1>3. List(rows) /\ \A i \in DOMAIN rows : RelFields \subseteq DOMAIN rows[i] /\ TypedRel(s, "job", rows[i])
  BY <1>2, RelsOf
<1>4. ASSUME NEW i \in DOMAIN rows PROVE RelFields \subseteq DOMAIN f[i] /\ TypedRel(s, "job", f[i])
  <2>1. f[i] \in {rows[i], Backed(rows[i], JobRef(s, p, rows[i].code, titles))}
    OBVIOUS
  <2>2. Borne(s, JobRef(s, p, rows[i].code, titles))
    BY JobRefBorne
  <2> HIDE DEF rows, f
  <2> QED BY <1>3, <2>1, <2>2, BackedRel
<1>5. f = [i \in DOMAIN rows |-> f[i]]
  OBVIOUS
<1> HIDE DEF rows, f
<1>6. RelsOK(s, "job", f)
  BY <1>3, <1>4, <1>5, RelsLike
<1> QED BY <1>1, <1>2, <1>6, RelsWith

LEMMA BackBizShape ==
  ASSUME NEW s, NEW p, ProjectOK(s, p), NEW titles
  PROVE  ProjectOK(s, BackBiz(s, p, titles))
<1> DEFINE any(span) == TRUE
           root == {r \in p.refs : SameRow(p, r)}
           row == {RefAt(x.at, WordsOf(x.text)) : x \in SourceRow(s, p, titles, any)}
           one(x) == IF \E r \in x.refs : SameRow(p, r) THEN x
                     ELSE IF root # {} THEN [x EXCEPT !.refs = {CHOOSE r \in root : TRUE}]
                     ELSE IF row # {} THEN [x EXCEPT !.refs = row] ELSE x
           rows == p.rels["biz"]
           f == [i \in DOMAIN rows |-> one(rows[i])]
<1>1. BackBiz(s, p, titles) = [p EXCEPT !.rels = [p.rels EXCEPT !["biz"] = f]]
  BY DEF BackBiz, Mapped
<1>2. "biz" \in Kinds
  BY DEF Kinds
<1>3. List(rows) /\ \A i \in DOMAIN rows : RelFields \subseteq DOMAIN rows[i] /\ TypedRel(s, "biz", rows[i])
  BY <1>2, RelsOf
<1>4. ASSUME NEW i \in DOMAIN rows PROVE RelFields \subseteq DOMAIN f[i] /\ TypedRel(s, "biz", f[i])
  <2>1. \E refs : f[i] \in {rows[i], [rows[i] EXCEPT !.refs = refs]}
    <3> HIDE DEF root, row
    <3> QED OBVIOUS
  <2> HIDE DEF rows, f
  <2> QED BY <1>3, <2>1, BackedRel
<1>5. f = [i \in DOMAIN rows |-> f[i]]
  OBVIOUS
<1> HIDE DEF rows, f
<1>6. RelsOK(s, "biz", f)
  BY <1>3, <1>4, <1>5, RelsLike
<1> QED BY <1>1, <1>2, <1>6, RelsWith

LEMMA OperationsShape ==
  ASSUME NEW s, TextOK(s), NEW p, ProjectOK(s, p), NEW titles, NEW codes
  PROVE  ProjectOK(s, ToOperations(s, p, titles, codes))
<1> DEFINE ops == JobRef(s, p, "JOB-OPS-SYS", titles)
           one(x) == IF x.code \notin codes \/ Evident(x, SupportsJob) \/ ops = {} THEN x
                     ELSE [x EXCEPT !.code = "JOB-OPS-SYS", !.refs = ops]
           rows == p.rels["job"]
           f == [i \in DOMAIN rows |-> one(rows[i])]
<1>1. ToOperations(s, p, titles, codes) = [p EXCEPT !.rels = [p.rels EXCEPT !["job"] = f]]
  BY DEF ToOperations, Operating, Mapped
<1>2. "job" \in Kinds
  BY DEF Kinds
<1>3. List(rows) /\ \A i \in DOMAIN rows : RelFields \subseteq DOMAIN rows[i] /\ TypedRel(s, "job", rows[i])
  BY <1>2, RelsOf
<1>4. Borne(s, ops)
  BY JobRefBorne
<1>5. "JOB-OPS-SYS" \in WordsOf(CodeOrder)
  <2>1. JobOrder[1] = "JOB-OPS-SYS" /\ 1 \in DOMAIN JobOrder
    BY DEF JobOrder
  <2> QED BY <2>1, CatalogAssumption DEF WordsOf
<1>6. "JOB-OPS-SYS" \notin SemanticExps \cup ExtraExps
  BY DEF SemanticExps, ExtraExps
<1> HIDE DEF ops
<1>7. ASSUME NEW i \in DOMAIN rows PROVE RelFields \subseteq DOMAIN f[i] /\ TypedRel(s, "job", f[i])
  <2> DEFINE z == [rows[i] EXCEPT !.code = "JOB-OPS-SYS", !.refs = ops]
  <2>1. f[i] \in {rows[i], z}
    OBVIOUS
  <2>2. RelFields \subseteq DOMAIN z /\ z.code = "JOB-OPS-SYS" /\ z.refs = ops
    <3> HIDE DEF rows
    <3> QED BY <1>3 DEF RelFields
  <2> HIDE DEF rows, f, z
  <2>3. TypedRel(s, "job", z)
    BY <1>4, <1>5, <1>6, <2>2, SMTT(40) DEF TypedRel
  <2> QED BY <1>3, <2>1, <2>2, <2>3
<1>8. f = [i \in DOMAIN rows |-> f[i]]
  BY Zenon
<1> HIDE DEF rows, f
<1>9. RelsOK(s, "job", f)
  BY <1>3, <1>7, <1>8, RelsLike
<1> QED BY <1>1, <1>2, <1>9, RelsWith

\* Relations of known codes are added.
LEMMA SupplementShape ==
  ASSUME NEW s, NEW kind, NEW rels, RelsOK(s, kind, rels), NEW order, List(order), NEW refs,
         WordsOf(order) \subseteq WordsOf(CodeOrder),
         kind = "job" => WordsOf(order) \cap (SemanticExps \cup ExtraExps) = {},
         kind = "exp" => WordsOf(order) \cap (SemanticJobs \cup ExtraJobs) = {},
         kind \in {"job", "exp"} => \A c \in WordsOf(order) : Borne(s, refs[c])
  PROVE  RelsOK(s, kind, Supplemented(rels, order, refs))
<1> DEFINE missing == {c \in WordsOf(order) \ Codes(rels) : refs[c] # {}}
           new == InOrder(order, missing)
           more == [i \in DOMAIN new |-> [code |-> new[i], refs |-> refs[new[i]]]]
<1>1. Supplemented(rels, order, refs) = rels \o more
  BY DEF Supplemented, Mapped
<1>2. List(new) /\ WordsOf(new) \subseteq WordsOf(order)
  BY InOrderIs
<1> HIDE DEF new
<1>3. ASSUME NEW i \in DOMAIN new PROVE RelFields \subseteq DOMAIN more[i] /\ TypedRel(s, kind, more[i])
  <2>1. more[i].code = new[i] /\ more[i].refs = refs[new[i]] /\ RelFields \subseteq DOMAIN more[i]
    BY DEF RelFields
  <2>2. new[i] \in WordsOf(order)
    BY <1>2 DEF WordsOf
  <2> HIDE DEF more
  <2> QED BY <2>1, <2>2 DEF TypedRel
<1>4. more = [i \in DOMAIN new |-> more[i]]
  OBVIOUS
<1> HIDE DEF more
<1>5. RelsOK(s, kind, more)
  BY <1>2, <1>3, <1>4, RelsLike
<1>6. List(rels \o more) /\ WordsOf(rels \o more) = WordsOf(rels) \cup WordsOf(more)
  BY <1>5, Concat DEF RelsOK
<1> QED BY <1>1, <1>5, <1>6 DEF RelsOK

LEMMA OrderCodes ==
  /\ \A c \in WordsOf(JobOrder) : c \in {"JOB-OPS-SYS", "JOB-MGT", "JOB-ARC-TA", "JOB-MGT-PM", "JOB-MGT-PL"}
  /\ \A c \in WordsOf(ExpOrder) : c \in {"EXP-INFRA", "EXP-MGT", "EXP-SEC-OPS", "EXP-SEC-BUILD"}
  /\ WordsOf(TechOrder) \subseteq WordsOf(CodeOrder)
<1>1. JobOrder \in Seq({"JOB-OPS-SYS", "JOB-MGT", "JOB-ARC-TA", "JOB-MGT-PM", "JOB-MGT-PL"})
  BY DEF JobOrder
<1>2. ExpOrder \in Seq({"EXP-INFRA", "EXP-MGT", "EXP-SEC-OPS", "EXP-SEC-BUILD"})
  BY DEF ExpOrder
<1>3. WordsOf(TechOrder) \subseteq WordsOf(CodeOrder)
  BY InOrderIs, OrdersAreLists DEF TechOrder
<1> QED BY <1>1, <1>2, <1>3, SeqIsList

LEMMA MoreShape ==
  ASSUME NEW s, TextOK(s), NEW p, ProjectOK(s, p), NEW titles
  PROVE  ProjectOK(s, MoreRelations(s, p, titles))
<1> DEFINE jobRefs == [c \in WordsOf(JobOrder) |-> JobRef(s, p, c, titles)]
           expRefs == [c \in WordsOf(ExpOrder) |-> ExpRef(s, p, c, titles)]
           jobs == Supplemented(p.rels["job"], JobOrder, jobRefs)
           exps == Supplemented(p.rels["exp"], ExpOrder, expRefs)
           q == [p EXCEPT !.rels = [p.rels EXCEPT !["job"] = jobs]]
<1>1. "job" \in Kinds /\ "exp" \in Kinds
  BY DEF Kinds
<1>2. RelsOK(s, "job", p.rels["job"]) /\ RelsOK(s, "exp", p.rels["exp"])
  BY <1>1, RelsOf
<1>3. RelsOK(s, "job", jobs)
  <2>1. \A c \in WordsOf(JobOrder) : Borne(s, jobRefs[c])
    BY JobRefBorne
  <2>2. WordsOf(JobOrder) \cap (SemanticExps \cup ExtraExps) = {}
    BY OrderCodes DEF SemanticExps, ExtraExps
  <2> HIDE DEF jobRefs
  <2> QED BY <1>2, <2>1, <2>2, SupplementShape, OrdersAreLists, CatalogAssumption
<1>4. RelsOK(s, "exp", exps)
  <2>1. \A c \in WordsOf(ExpOrder) : Borne(s, expRefs[c])
    BY ExpRefBorne
  <2>2. WordsOf(ExpOrder) \cap (SemanticJobs \cup ExtraJobs) = {}
    BY OrderCodes DEF SemanticJobs, ExtraJobs, LiteralJobs
  <2> HIDE DEF expRefs
  <2> QED BY <1>2, <2>1, <2>2, SupplementShape, OrdersAreLists, CatalogAssumption
<1>5. DOMAIN p = ProjectFields /\ DOMAIN p.rels = Kinds
  BY DEF ProjectOK
<1>6. MoreRelations(s, p, titles) = [q EXCEPT !.rels = [q.rels EXCEPT !["exp"] = exps]]
  <2> DEFINE c == MoreRelations(s, p, titles)
  <2>1. c = [p EXCEPT !.rels = [p.rels EXCEPT !["job"] = jobs, !["exp"] = exps]]
    <3> HIDE DEF jobRefs, expRefs
    <3>1. c = [p EXCEPT !.rels.job = jobs, !.rels.exp = exps]
      BY DEF MoreRelations, jobRefs, expRefs
    <3> HIDE DEF jobs, exps, c
    <3> QED BY <1>1, <1>5, <3>1 DEF ProjectFields
  <2> HIDE DEF jobs, exps, c
  <2>2. q.rels = [p.rels EXCEPT !["job"] = jobs] /\ DOMAIN q = ProjectFields
    BY <1>5 DEF ProjectFields
  <2>3. [q.rels EXCEPT !["exp"] = exps] = [p.rels EXCEPT !["job"] = jobs, !["exp"] = exps]
    BY <2>2
  <2> QED BY <1>5, <2>1, <2>2, <2>3 DEF ProjectFields, c
<1> HIDE DEF jobs, exps
<1>7. ProjectOK(s, q)
  BY <1>1, <1>3, RelsWith
<1> HIDE DEF q
<1> QED BY <1>1, <1>4, <1>6, <1>7, RelsWith

LEMMA RepairedShape ==
  ASSUME NEW s, TextOK(s), NEW ps, ProjectsAre(s, ps)
  PROVE  ProjectsAre(s, RepairedProjects(s, ps))
<1> DEFINE titles == Titles(ps)
           f == [i \in DOMAIN ps |-> Repaired(s, ps[i], titles)]
<1>1. ASSUME NEW p, ProjectOK(s, p), NEW t PROVE ProjectOK(s, Repaired(s, p, t))
  <2> DEFINE exps == BackExps(s, p, t)
             biz == BackBiz(s, exps, t)
             named == ToOperations(s, biz, t, {"JOB-MGT-PM", "JOB-MGT-PL"})
             managed == ToOperations(s, named, t, {"JOB-MGT"})
             jobs == BackJobs(s, managed, t)
  <2>1. Repaired(s, p, t) = MoreRelations(s, jobs, t)
    BY DEF Repaired
  <2>2. ProjectOK(s, exps)
    BY <1>1, BackExpsShape
  <2> HIDE DEF exps
  <2>3. ProjectOK(s, biz)
    BY <2>2, BackBizShape
  <2> HIDE DEF biz
  <2>4. ProjectOK(s, named)
    BY <2>3, OperationsShape
  <2> HIDE DEF named
  <2>5. ProjectOK(s, managed)
    BY <2>4, OperationsShape
  <2> HIDE DEF managed
  <2>6. ProjectOK(s, jobs)
    BY <2>5, BackJobsShape
  <2> HIDE DEF jobs
  <2> QED BY <2>1, <2>6, MoreShape
<1>2. RepairedProjects(s, ps) = f
  BY DEF RepairedProjects
<1>3. List(ps) /\ \A i \in DOMAIN ps : ProjectOK(s, ps[i])
  BY DEF ProjectsAre, WordsOf
<1> HIDE DEF titles
<1>4. f = [i \in DOMAIN ps |-> f[i]] /\ \A i \in DOMAIN ps : ProjectOK(s, f[i])
  BY <1>1, <1>3
<1> HIDE DEF f
<1> QED BY <1>2, <1>3, <1>4, ProjectsLike

LEMMA TechsShape ==
  ASSUME NEW s, NEW ps, ProjectsAre(s, ps)
  PROVE  ProjectsAre(s, MoreTechs(s, ps))
<1> DEFINE f == MoreTechs(s, ps)
           refs(p) == [c \in WordsOf(TechOrder) |-> TechRef(s, p, c, Titles(ps))]
           techs(p) == Supplemented(p.rels["tech"], TechOrder, refs(p))
           more(p) == [p EXCEPT !.rels = [p.rels EXCEPT !["tech"] = techs(p)]]
<1>1. /\ f = [i \in DOMAIN ps |-> f[i]]
      /\ \A i \in DOMAIN ps : f[i] \in {ps[i], more(ps[i])}
  BY DEF MoreTechs
<1>2. List(ps) /\ \A i \in DOMAIN ps : ProjectOK(s, ps[i])
  BY DEF ProjectsAre, WordsOf
<1>3. ASSUME NEW p, ProjectOK(s, p) PROVE ProjectOK(s, more(p))
  <2>1. "tech" \in Kinds
    BY DEF Kinds
  <2>2. RelsOK(s, "tech", p.rels["tech"])
    BY <1>3, <2>1, RelsOf
  <2>3. RelsOK(s, "tech", techs(p))
    <3> DEFINE given == refs(p)
    <3> HIDE DEF given
    <3>1. RelsOK(s, "tech", Supplemented(p.rels["tech"], TechOrder, given))
      BY <2>2, SupplementShape, OrdersAreLists, OrderCodes
    <3> QED BY <3>1 DEF given
  <2> HIDE DEF techs
  <2> QED BY <1>3, <2>1, <2>3, RelsWith
<1> HIDE DEF f, more
<1>4. \A i \in DOMAIN ps : ProjectOK(s, f[i])
  BY <1>1, <1>2, <1>3
<1> QED BY <1>1, <1>2, <1>4, ProjectsLike DEF f

\* Filters.
LEMMA SomeRels ==
  ASSUME NEW s, NEW kind, NEW rels, RelsOK(s, kind, rels), NEW I \in SUBSET DOMAIN rels
  PROVE  RelsOK(s, kind, RowsAt(rels, Places(I)))
         /\ WordsOf(RowsAt(rels, Places(I))) = {rels[i] : i \in I}
<1>1. List(rels)
  BY DEF RelsOK
<1>2. /\ List(RowsAt(rels, Places(I))) /\ WordsOf(RowsAt(rels, Places(I))) = {rels[i] : i \in I}
      /\ WordsOf(RowsAt(rels, Places(I))) \subseteq WordsOf(rels)
  BY <1>1, SomeRows
<1> QED BY <1>2 DEF RelsOK

LEMMA QuotedShape ==
  ASSUME NEW s, NEW ps, ProjectsAre(s, ps)
  PROVE  ProjectsAre(s, QuotedOnly(ps))
<1> DEFINE I == {i \in DOMAIN ps : Quoted(ps[i].refs)}
           J(rels) == {i \in DOMAIN rels : Quoted(rels[i].refs)}
           cut(p) == [kind \in Kinds |-> IF kind \in Strict THEN RowsAt(p.rels[kind], Places(J(p.rels[kind])))
                                         ELSE p.rels[kind]]
           rows == RowsAt(ps, Places(I))
           f == [i \in DOMAIN rows |-> [rows[i] EXCEPT !.rels = cut(rows[i])]]
<1>1. QuotedOnly(ps) = f
  BY DEF QuotedOnly, Kept, Mapped
<1>2. I \in SUBSET DOMAIN ps /\ List(ps)
  BY DEF ProjectsAre
<1> HIDE DEF I
<1>3. List(rows) /\ WordsOf(rows) \subseteq WordsOf(ps)
  BY <1>2, SomeRows
<1> HIDE DEF rows
<1>4. ASSUME NEW p, ProjectOK(s, p) PROVE ProjectOK(s, [p EXCEPT !.rels = cut(p)])
  <2>1. ASSUME NEW kind \in Kinds PROVE RelsOK(s, kind, cut(p)[kind])
    <3> DEFINE rels == p.rels[kind]
    <3>1. RelsOK(s, kind, rels)
      BY <1>4, RelsOf
    <3>2. cut(p)[kind] \in {rels, RowsAt(rels, Places(J(rels)))}
      OBVIOUS
    <3> HIDE DEF rels, cut
    <3>3. J(rels) \in SUBSET DOMAIN rels
      OBVIOUS
    <3> HIDE DEF J
    <3> QED BY <3>1, <3>2, <3>3, SomeRels
  <2>2. DOMAIN cut(p) = Kinds
    OBVIOUS
  <2> HIDE DEF cut
  <2> DEFINE q == [p EXCEPT !.rels = cut(p)]
  <2>3. DOMAIN p = ProjectFields /\ p.start \in Nat /\ p.end \in Nat
    BY <1>4 DEF ProjectOK
  <2>4. DOMAIN q = ProjectFields /\ q.start = p.start /\ q.end = p.end /\ q.rels = cut(p)
    BY <2>3 DEF ProjectFields
  <2> HIDE DEF q
  <2>5. ProjectOK(s, q)
    BY <2>1, <2>2, <2>3, <2>4 DEF ProjectOK
  <2> QED BY <2>5 DEF q
<1>5. \A i \in DOMAIN rows : ProjectOK(s, rows[i])
  BY <1>3 DEF ProjectsAre, WordsOf
<1> HIDE DEF cut
<1>6. f = [i \in DOMAIN rows |-> f[i]] /\ \A i \in DOMAIN rows : ProjectOK(s, f[i])
  BY <1>4, <1>5
<1> HIDE DEF f
<1> QED BY <1>1, <1>3, <1>6, ProjectsLike

\* The codes that have to be quoted.
GuardedCodes == SemanticJobs \cup SemanticExps \cup ExtraJobs \cup ExtraExps

RelClaim(s, kind, x) ==
  x.code \in GuardedCodes =>
      \E r \in x.refs : r.quote # {} /\ QuoteInSource(s, r) /\ Says(kind, x.code, r.quote)

PartClaim(s, p) == \A kind \in {"job", "exp"} : \A x \in WordsOf(p.rels[kind]) : RelClaim(s, kind, x)

LEMMA JobIsClaimed ==
  ASSUME NEW s, NEW p, NEW titles, NEW x, TypedRel(s, "job", x),
         x.code \in ExtraJobs => OwnAndSupported(s, p, x, titles),
         x.code \in GuardedJobs \cup {"JOB-MGT-PM", "JOB-MGT-PL"} => Evident(x, SupportsJob)
  PROVE  RelClaim(s, "job", x)
<1>1. x.code \notin SemanticExps \cup ExtraExps /\ Borne(s, x.refs)
  BY DEF TypedRel
<1>2. x.code \in SemanticJobs => Evident(x, SupportsJob)
  BY DEF SemanticJobs, LiteralJobs, GuardedJobs
<1>3. CASE x.code \in ExtraJobs
  <2>1. PICK r \in x.refs : SupportsExtra(x.code, r.quote)
    BY <1>3 DEF OwnAndSupported
  <2>2. r.quote # {}
    BY <2>1, EvidenceSaysSomething
  <2>3. QuoteInSource(s, r) /\ Says("job", x.code, r.quote)
    BY <1>1, <1>3, <2>1, <2>2 DEF Borne, Says
  <2> QED BY <2>2, <2>3 DEF RelClaim
<1>4. CASE x.code \notin ExtraJobs /\ x.code \in SemanticJobs
  <2>1. PICK r \in x.refs : SupportsJob(x.code, r.quote)
    BY <1>2, <1>4 DEF Evident
  <2>2. r.quote # {}
    BY <2>1, EvidenceSaysSomething
  <2>3. QuoteInSource(s, r) /\ Says("job", x.code, r.quote)
    BY <1>1, <1>4, <2>1, <2>2 DEF Borne, Says
  <2> QED BY <2>2, <2>3 DEF RelClaim
<1> QED BY <1>1, <1>3, <1>4 DEF RelClaim, GuardedCodes

LEMMA ExpIsClaimed ==
  ASSUME NEW s, NEW p, NEW titles, NEW x, TypedRel(s, "exp", x),
         x.code \in ExtraExps => OwnAndSupported(s, p, x, titles),
         x.code \in SemanticExps => Evident(x, SupportsExp)
  PROVE  RelClaim(s, "exp", x)
<1>1. x.code \notin SemanticJobs \cup ExtraJobs /\ Borne(s, x.refs)
  BY DEF TypedRel
<1>3. CASE x.code \in ExtraExps
  <2>1. PICK r \in x.refs : SupportsExtra(x.code, r.quote)
    BY <1>3 DEF OwnAndSupported
  <2>2. r.quote # {}
    BY <2>1, EvidenceSaysSomething
  <2>3. QuoteInSource(s, r) /\ Says("exp", x.code, r.quote)
    BY <1>1, <1>3, <2>1, <2>2 DEF Borne, Says
  <2> QED BY <2>2, <2>3 DEF RelClaim
<1>4. CASE x.code \notin ExtraExps /\ x.code \in SemanticExps
  <2>1. PICK r \in x.refs : SupportsExp(x.code, r.quote)
    BY <1>4 DEF Evident
  <2>2. r.quote # {}
    BY <2>1, EvidenceSaysSomething
  <2>3. QuoteInSource(s, r) /\ Says("exp", x.code, r.quote)
    BY <1>1, <1>4, <2>1, <2>2 DEF Borne, Says
  <2> QED BY <2>2, <2>3 DEF RelClaim
<1> QED BY <1>1, <1>3, <1>4 DEF RelClaim, GuardedCodes

LEMMA DropClaims ==
  ASSUME NEW s, NEW p, ProjectOK(s, p), NEW titles
  PROVE  ProjectOK(s, DropUnsupported(s, p, titles)) /\ PartClaim(s, DropUnsupported(s, p, titles))
<1> DEFINE keepJob(x) == /\ x.code \in ExtraJobs => OwnAndSupported(s, p, x, titles)
                         /\ x.code \in GuardedJobs \cup {"JOB-MGT-PM", "JOB-MGT-PL"} => Evident(x, SupportsJob)
           keepExp(x) == /\ x.code \in ExtraExps => OwnAndSupported(s, p, x, titles)
                         /\ x.code \in SemanticExps => Evident(x, SupportsExp)
           I == {i \in DOMAIN p.rels["job"] : keepJob(p.rels["job"][i])}
           J == {i \in DOMAIN p.rels["exp"] : keepExp(p.rels["exp"][i])}
           jobs == RowsAt(p.rels["job"], Places(I))
           exps == RowsAt(p.rels["exp"], Places(J))
           q == [p EXCEPT !.rels = [p.rels EXCEPT !["job"] = jobs]]
           d == DropUnsupported(s, p, titles)
<1>1. "job" \in Kinds /\ "exp" \in Kinds
  BY DEF Kinds
<1>2. RelsOK(s, "job", p.rels["job"]) /\ RelsOK(s, "exp", p.rels["exp"])
  BY <1>1, RelsOf
<1>3. I \in SUBSET DOMAIN p.rels["job"] /\ J \in SUBSET DOMAIN p.rels["exp"]
  OBVIOUS
<1>4. RelsOK(s, "job", jobs) /\ WordsOf(jobs) = {p.rels["job"][i] : i \in I}
      /\ RelsOK(s, "exp", exps) /\ WordsOf(exps) = {p.rels["exp"][i] : i \in J}
  <2> HIDE DEF I, J
  <2> QED BY <1>2, <1>3, SomeRels
<1>5. ASSUME NEW x \in WordsOf(jobs) PROVE RelClaim(s, "job", x)
  <2>1. keepJob(x) /\ TypedRel(s, "job", x)
    BY <1>4, Zenon DEF RelsOK
  <2> QED BY <2>1, JobIsClaimed, SMTT(40)
<1>6. ASSUME NEW x \in WordsOf(exps) PROVE RelClaim(s, "exp", x)
  <2>1. keepExp(x) /\ TypedRel(s, "exp", x)
    BY <1>4 DEF RelsOK
  <2> QED BY <2>1, ExpIsClaimed, SMTT(40)
<1>7. DOMAIN p = ProjectFields /\ DOMAIN p.rels = Kinds
  BY DEF ProjectOK
<1>8. d = [q EXCEPT !.rels = [q.rels EXCEPT !["exp"] = exps]]
  <2>1. d = [p EXCEPT !.rels = [p.rels EXCEPT !["job"] = jobs, !["exp"] = exps]]
    <3>1. d = [p EXCEPT !.rels.job = jobs, !.rels.exp = exps]
      BY DEF DropUnsupported, Kept
    <3> HIDE DEF jobs, exps, d
    <3> QED BY <1>1, <1>7, <3>1 DEF ProjectFields
  <2> HIDE DEF jobs, exps, d
  <2>2. q.rels = [p.rels EXCEPT !["job"] = jobs] /\ DOMAIN q = ProjectFields
    BY <1>7 DEF ProjectFields
  <2>3. [q.rels EXCEPT !["exp"] = exps] = [p.rels EXCEPT !["job"] = jobs, !["exp"] = exps]
    BY <2>2
  <2> QED BY <1>7, <2>1, <2>2, <2>3 DEF ProjectFields
<1> HIDE DEF jobs, exps, d
<1>9. ProjectOK(s, q) /\ \A k \in Kinds : q.rels[k] = IF k = "job" THEN jobs ELSE p.rels[k]
  BY <1>1, <1>4, RelsWith
<1> HIDE DEF q
<1>10. ProjectOK(s, d) /\ \A k \in Kinds : d.rels[k] = IF k = "exp" THEN exps ELSE q.rels[k]
  BY <1>1, <1>4, <1>8, <1>9, RelsWith
<1>11. d.rels["job"] = jobs /\ d.rels["exp"] = exps
  BY <1>1, <1>9, <1>10
<1> QED BY <1>5, <1>6, <1>10, <1>11 DEF PartClaim, d

\* What _normalize_projects makes of an answer.
LEMMA AnswerIsQuoted ==
  ASSUME NEW s, TextOK(s), NEW answer, ProjectsOK(answer)
  PROVE  ProjectsAre(s, NormalizeProjects(s, answer))
         /\ \A p \in WordsOf(NormalizeProjects(s, answer)) : PartClaim(s, p)
<1> DEFINE dated == DatedAnswer(s, answer)
           repaired == RepairedProjects(s, dated)
           techs == MoreTechs(s, repaired)
           quoted == QuotedOnly(techs)
           titles == Titles(quoted)
           f == [i \in DOMAIN quoted |-> DropUnsupported(s, quoted[i], titles)]
<1>1. NormalizeProjects(s, answer) = f
  BY DEF NormalizeProjects, SupportedProjects
<1>2. ProjectsAre(s, dated)
  BY AnswerShape
<1> HIDE DEF dated
<1>3. ProjectsAre(s, repaired)
  BY <1>2, RepairedShape
<1> HIDE DEF repaired
<1>4. ProjectsAre(s, techs)
  BY <1>3, TechsShape
<1> HIDE DEF techs
<1>5. ProjectsAre(s, quoted)
  BY <1>4, QuotedShape
<1> HIDE DEF quoted, titles
<1>6. List(quoted) /\ \A i \in DOMAIN quoted : ProjectOK(s, quoted[i])
  BY <1>5 DEF ProjectsAre, WordsOf
<1>7. /\ f = [i \in DOMAIN quoted |-> f[i]]
      /\ \A i \in DOMAIN quoted : ProjectOK(s, f[i]) /\ PartClaim(s, f[i])
  BY <1>6, DropClaims
<1> HIDE DEF f
<1>8. ProjectsAre(s, f) /\ DOMAIN f = DOMAIN quoted
  BY <1>6, <1>7, ProjectsLike
<1> QED BY <1>1, <1>7, <1>8 DEF WordsOf

-----------------------------------------------------------------------------
(* Projects that are united. *)

\* A project whatever its references, and one with months.
RowShape(p) ==
  /\ DOMAIN p = ProjectFields /\ DOMAIN p.rels = Kinds
  /\ \A kind \in Kinds :
         /\ List(p.rels[kind])
         /\ \A x \in WordsOf(p.rels[kind]) :
                RelFields \subseteq DOMAIN x /\ (x.code = NoText \/ x.code \in WordsOf(CodeOrder))

RowOK(p) == RowShape(p) /\ p.start \in Nat /\ p.end \in Nat

\* What was quoted with its page for p is in q.
Preserves(q, p) ==
  /\ Solid(p) \subseteq q.refs
  /\ \A kind \in Kinds : \A x \in WordsOf(p.rels[kind]) :
         x.code # NoText => \E y \in WordsOf(q.rels[kind]) : x.code = y.code /\ Solid(x) \subseteq y.refs

\* A guarded code is quoted with its page, or one of those that are exempt.
RelStands(s, exempt, kind, x) ==
  x.code \in GuardedCodes =>
      \/ <<kind, x.code>> \in exempt
      \/ \E r \in x.refs : /\ r.quote # {} /\ r.page # NoPage /\ QuoteInSource(s, r)
                           /\ Says(kind, x.code, r.quote)

Stands(s, exempt, p) ==
  \A kind \in {"job", "exp"} : \A x \in WordsOf(p.rels[kind]) : RelStands(s, exempt, kind, x)

LEMMA PreservesAll ==
  /\ \A p : Preserves(p, p)
  /\ \A p, q, u : Preserves(q, p) /\ Preserves(u, q) => Preserves(u, p)
<1>1. ASSUME NEW p PROVE Preserves(p, p)
  BY DEF Preserves, Solid
<1>2. ASSUME NEW p, NEW q, NEW u, Preserves(q, p), Preserves(u, q) PROVE Preserves(u, p)
  <2>1. ASSUME NEW a, NEW b, NEW c, Solid(a) \subseteq b.refs, Solid(b) \subseteq c.refs
        PROVE  Solid(a) \subseteq c.refs
    <3> SUFFICES ASSUME NEW r \in Solid(a) PROVE r \in c.refs
      OBVIOUS
    <3>1. r \in b.refs /\ r.quote # {} /\ r.page # NoPage
      BY <2>1 DEF Solid
    <3>2. r \in Solid(b)
      BY <3>1 DEF Solid
    <3> QED BY <2>1, <3>2
  <2>2. Solid(p) \subseteq u.refs
    BY <1>2, <2>1 DEF Preserves
  <2>3. ASSUME NEW kind \in Kinds, NEW x \in WordsOf(p.rels[kind]), x.code # NoText
        PROVE  \E z \in WordsOf(u.rels[kind]) : x.code = z.code /\ Solid(x) \subseteq z.refs
    <3>1. PICK y \in WordsOf(q.rels[kind]) : x.code = y.code /\ Solid(x) \subseteq y.refs
      BY <1>2, <2>3 DEF Preserves
    <3>2. PICK z \in WordsOf(u.rels[kind]) : y.code = z.code /\ Solid(y) \subseteq z.refs
      BY <1>2, <2>3, <3>1 DEF Preserves
    <3>3. Solid(x) \subseteq z.refs
      BY <2>1, <3>1, <3>2
    <3> QED BY <3>1, <3>2, <3>3
  <2> QED BY <2>2, <2>3 DEF Preserves
<1> QED BY <1>1, <1>2

\* The relations of one kind, united code by code.
LEMMA RelsUnited ==
  ASSUME NEW ss, List(ss), \A i \in DOMAIN ss : List(ss[i]),
         \A i \in DOMAIN ss : \A x \in WordsOf(ss[i]) : x.code = NoText \/ x.code \in WordsOf(CodeOrder)
  PROVE  /\ List(UnionRels(ss))
         /\ \A y \in WordsOf(UnionRels(ss)) :
                /\ RelFields \subseteq DOMAIN y /\ y.code \in WordsOf(CodeOrder)
                /\ \E i \in DOMAIN ss : \E x \in WordsOf(ss[i]) :
                       x.code = y.code /\ Solid(x) \subseteq y.refs
         /\ \A i \in DOMAIN ss : \A x \in WordsOf(ss[i]) : x.code # NoText =>
                \E y \in WordsOf(UnionRels(ss)) : x.code = y.code /\ Solid(x) \subseteq y.refs
<1> DEFINE all == FlattenSeq(ss)
           refs(c) == UnionRefs(UNION {all[i].refs : i \in {i \in DOMAIN all : all[i].code = c}})
           order == InOrder(CodeOrder, Codes(all))
           u == UnionRels(ss)
<1>1. u = [n \in DOMAIN order |-> [code |-> order[n], refs |-> refs(order[n])]]
  BY DEF UnionRels, Mapped
<1>2. List(all) /\ WordsOf(all) = UNION {WordsOf(ss[i]) : i \in DOMAIN ss}
  BY FlattenList
<1>3. Codes(all) = {x.code : x \in WordsOf(all)} \ {NoText}
  <2> HIDE DEF all
  <2> QED BY DEF Codes, WordsOf
<1>4. List(order) /\ WordsOf(order) = WordsOf(CodeOrder) \cap Codes(all)
  BY InOrderIs, OrdersAreLists
<1>5. ASSUME NEW x \in WordsOf(all) PROVE Solid(x) \subseteq refs(x.code)
  <2>1. PICK i \in DOMAIN all : x = all[i]
    BY DEF WordsOf
  <2> DEFINE same == {k \in DOMAIN all : all[k].code = x.code}
  <2>2. i \in same
    BY <2>1
  <2> HIDE DEF all, same
  <2>3. x.refs \subseteq UNION {all[k].refs : k \in same}
    BY <2>1, <2>2
  <2> QED BY <2>3 DEF Solid, UnionRefs, same
<1> HIDE DEF all, refs, order, u
<1>6. u = [n \in DOMAIN order |-> u[n]]
      /\ \A n \in DOMAIN order : u[n].code = order[n] /\ u[n].refs = refs(order[n]) /\ RelFields \subseteq DOMAIN u[n]
  BY <1>1 DEF RelFields
<1>7. List(u) /\ DOMAIN u = DOMAIN order
  BY <1>4, <1>6, ListLike
<1>8. ASSUME NEW y \in WordsOf(u)
      PROVE  /\ RelFields \subseteq DOMAIN y /\ y.code \in WordsOf(CodeOrder)
             /\ \E i \in DOMAIN ss : \E x \in WordsOf(ss[i]) : x.code = y.code /\ Solid(x) \subseteq y.refs
  <2>1. PICK n \in DOMAIN order : y = u[n]
    BY <1>7 DEF WordsOf
  <2>2. order[n] \in WordsOf(order)
    BY DEF WordsOf
  <2>3. PICK x \in WordsOf(all) : x.code = order[n]
    BY <1>3, <1>4, <2>2
  <2>4. \E i \in DOMAIN ss : x \in WordsOf(ss[i])
    BY <1>2
  <2> QED BY <1>4, <1>5, <1>6, <2>1, <2>2, <2>3, <2>4
<1>9. ASSUME NEW i \in DOMAIN ss, NEW x \in WordsOf(ss[i]), x.code # NoText
      PROVE  \E y \in WordsOf(u) : x.code = y.code /\ Solid(x) \subseteq y.refs
  <2>1. x \in WordsOf(all) /\ x.code \in WordsOf(CodeOrder)
    BY <1>2, <1>9
  <2>2. x.code \in WordsOf(order)
    BY <1>3, <1>4, <1>9, <2>1
  <2>3. PICK n \in DOMAIN order : order[n] = x.code
    BY <2>2 DEF WordsOf
  <2>4. u[n] \in WordsOf(u)
    BY <1>7 DEF WordsOf
  <2> QED BY <1>5, <1>6, <2>1, <2>3, <2>4
<1> QED BY <1>7, <1>8, <1>9 DEF u

LEMMA RowsUnited ==
  ASSUME NEW g, List(g), \A p \in WordsOf(g) : RowShape(p),
         NEW name, NEW customer, NEW start, NEW end, NEW q, q = MergeRows(g, name, customer, start, end)
  PROVE  /\ RowShape(q) /\ q.start = start /\ q.end = end
         /\ \A p \in WordsOf(g) : Preserves(q, p)
         /\ \A s, exempt : (\A p \in WordsOf(g) : Stands(s, exempt, p)) => Stands(s, exempt, q)
<1> DEFINE ss(kind) == [i \in DOMAIN g |-> g[i].rels[kind]]
<1>1. /\ DOMAIN q = ProjectFields /\ q.start = start /\ q.end = end
      /\ q.refs = UnionRefs(AllRefs(g)) /\ q.rels = [kind \in Kinds |-> UnionRels(ss(kind))]
  BY DEF MergeRows, ProjectFields
<1>2. \A i \in DOMAIN g : g[i] \in WordsOf(g)
  BY DEF WordsOf
<1>3. ASSUME NEW kind \in Kinds
      PROVE  /\ List(q.rels[kind])
             /\ \A y \in WordsOf(q.rels[kind]) :
                    /\ RelFields \subseteq DOMAIN y /\ y.code \in WordsOf(CodeOrder)
                    /\ \E p \in WordsOf(g) : \E x \in WordsOf(p.rels[kind]) :
                           x.code = y.code /\ Solid(x) \subseteq y.refs
             /\ \A p \in WordsOf(g) : \A x \in WordsOf(p.rels[kind]) : x.code # NoText =>
                    \E y \in WordsOf(q.rels[kind]) : x.code = y.code /\ Solid(x) \subseteq y.refs
  <2> DEFINE t == ss(kind)
             u == q.rels[kind]
  <2>1. t = [i \in DOMAIN g |-> t[i]] /\ \A i \in DOMAIN g : t[i] = g[i].rels[kind]
    OBVIOUS
  <2>2. u = UnionRels(t)
    BY <1>1
  <2> HIDE DEF t, u
  <2>3. List(t) /\ DOMAIN t = DOMAIN g
    BY <2>1, ListLike
  <2>4. \A i \in DOMAIN t : List(t[i]) /\ \A x \in WordsOf(t[i]) : x.code = NoText \/ x.code \in WordsOf(CodeOrder)
    BY <1>2, <2>1, <2>3 DEF RowShape
  <2>5. /\ List(u)
        /\ \A y \in WordsOf(u) :
               /\ RelFields \subseteq DOMAIN y /\ y.code \in WordsOf(CodeOrder)
               /\ \E i \in DOMAIN t : \E x \in WordsOf(t[i]) : x.code = y.code /\ Solid(x) \subseteq y.refs
        /\ \A i \in DOMAIN t : \A x \in WordsOf(t[i]) : x.code # NoText =>
               \E y \in WordsOf(u) : x.code = y.code /\ Solid(x) \subseteq y.refs
    BY <2>2, <2>3, <2>4, RelsUnited
  <2>6. \A y \in WordsOf(u) : \E p \in WordsOf(g) : \E x \in WordsOf(p.rels[kind]) :
            x.code = y.code /\ Solid(x) \subseteq y.refs
    BY <1>2, <2>1, <2>3, <2>5
  <2>7. \A p \in WordsOf(g) : \A x \in WordsOf(p.rels[kind]) : x.code # NoText =>
            \E y \in WordsOf(u) : x.code = y.code /\ Solid(x) \subseteq y.refs
    BY <2>1, <2>3, <2>5 DEF WordsOf
  <2> QED BY <2>5, <2>6, <2>7 DEF u
<1>4. RowShape(q)
  BY <1>1, <1>3 DEF RowShape
<1>5. ASSUME NEW p \in WordsOf(g) PROVE Preserves(q, p)
  <2>1. PICK i \in DOMAIN g : p = g[i]
    BY DEF WordsOf
  <2>2. p.refs \subseteq AllRefs(g)
    BY <2>1 DEF AllRefs
  <2>3. Solid(p) \subseteq q.refs
    BY <1>1, <2>2 DEF Solid, UnionRefs
  <2> QED BY <1>3, <2>3 DEF Preserves
<1>6. ASSUME NEW s, NEW exempt, \A p \in WordsOf(g) : Stands(s, exempt, p) PROVE Stands(s, exempt, q)
  <2> SUFFICES ASSUME NEW kind \in {"job", "exp"}, NEW y \in WordsOf(q.rels[kind]), y.code \in GuardedCodes,
                      <<kind, y.code>> \notin exempt
               PROVE  \E r \in y.refs : /\ r.quote # {} /\ r.page # NoPage /\ QuoteInSource(s, r)
                                        /\ Says(kind, y.code, r.quote)
    BY DEF Stands, RelStands
  <2>1. kind \in Kinds
    BY DEF Kinds
  <2>2. PICK p \in WordsOf(g) : \E x \in WordsOf(p.rels[kind]) : x.code = y.code /\ Solid(x) \subseteq y.refs
    BY <1>3, <2>1
  <2>3. PICK x \in WordsOf(p.rels[kind]) : x.code = y.code /\ Solid(x) \subseteq y.refs
    BY <2>2
  <2>4. RelStands(s, exempt, kind, x)
    BY <1>6 DEF Stands
  <2>5. PICK r \in x.refs : /\ r.quote # {} /\ r.page # NoPage /\ QuoteInSource(s, r)
                            /\ Says(kind, y.code, r.quote)
    BY <2>3, <2>4 DEF RelStands
  <2>6. r \in y.refs
    BY <2>3, <2>5 DEF Solid
  <2> QED BY <2>5, <2>6
<1> QED BY <1>1, <1>4, <1>5, <1>6

\* new has the rows of rows, alone or united.
Unites(q, g) ==
  \E name, customer : \E start \in Nat, end \in Nat : q = MergeRows(g, name, customer, start, end)

Gathers(new, rows) ==
  /\ List(new)
  /\ \A q \in WordsOf(new) :
         q \in WordsOf(rows) \/ \E g : List(g) /\ WordsOf(g) \subseteq WordsOf(rows) /\ Unites(q, g)
  /\ \A p \in WordsOf(rows) : \E q \in WordsOf(new) :
         q = p \/ \E g : List(g) /\ WordsOf(g) \subseteq WordsOf(rows) /\ p \in WordsOf(g) /\ Unites(q, g)

LEMMA GatheredRows ==
  ASSUME NEW rows, \A p \in WordsOf(rows) : RowOK(p), NEW new, Gathers(new, rows)
  PROVE  /\ List(new) /\ \A q \in WordsOf(new) : RowOK(q)
         /\ \A p \in WordsOf(rows) : \E q \in WordsOf(new) : Preserves(q, p)
         /\ \A s, exempt : (\A p \in WordsOf(rows) : Stands(s, exempt, p)) =>
                               \A q \in WordsOf(new) : Stands(s, exempt, q)
<1>1. ASSUME NEW g, List(g), WordsOf(g) \subseteq WordsOf(rows), NEW q, Unites(q, g)
      PROVE  /\ RowOK(q) /\ \A p \in WordsOf(g) : Preserves(q, p)
             /\ \A s, exempt : (\A p \in WordsOf(g) : Stands(s, exempt, p)) => Stands(s, exempt, q)
  <2>1. PICK name, customer : \E start \in Nat, end \in Nat : q = MergeRows(g, name, customer, start, end)
    BY <1>1 DEF Unites
  <2>2. PICK start \in Nat, end \in Nat : q = MergeRows(g, name, customer, start, end)
    BY <2>1
  <2>3. \A p \in WordsOf(g) : RowShape(p)
    BY <1>1 DEF RowOK
  <2> QED BY <1>1, <2>2, <2>3, RowsUnited DEF RowOK
<1>2. \A q \in WordsOf(new) : RowOK(q)
  BY <1>1 DEF Gathers
<1>3. ASSUME NEW p \in WordsOf(rows) PROVE \E q \in WordsOf(new) : Preserves(q, p)
  BY <1>1, PreservesAll DEF Gathers
<1>4. ASSUME NEW s, NEW exempt, \A p \in WordsOf(rows) : Stands(s, exempt, p), NEW q \in WordsOf(new)
      PROVE  Stands(s, exempt, q)
  <2>1. CASE q \in WordsOf(rows)
    BY <1>4, <2>1
  <2>2. CASE \E g : List(g) /\ WordsOf(g) \subseteq WordsOf(rows) /\ Unites(q, g)
    <3>1. PICK g : List(g) /\ WordsOf(g) \subseteq WordsOf(rows) /\ Unites(q, g)
      BY <2>2
    <3>2. \A p \in WordsOf(g) : Stands(s, exempt, p)
      BY <1>4, <3>1
    <3> QED BY <1>1, <3>1, <3>2
  <2> QED BY <2>1, <2>2 DEF Gathers
<1> QED BY <1>2, <1>3, <1>4 DEF Gathers

-----------------------------------------------------------------------------
(* Projects in their order. *)

\* The keys of a project, and what comes first by them.
Late(m) == IF m = NoMonth THEN 999999 ELSE m

Less(a1, a2, a3, a4, b1, b2, b3, b4) ==
  a1 < b1 \/ (a1 = b1 /\ (a2 < b2 \/ (a2 = b2 /\ (a3 < b3 \/ (a3 = b3 /\ a4 < b4)))))

SoonerByKeys(p, q) ==
  Less(Late(p.start), Late(p.end), RankOf(p.name), RankOf(p.customer),
       Late(q.start), Late(q.end), RankOf(q.name), RankOf(q.customer))

LEMMA LessIsOrder ==
  /\ \A a1, a2, a3, a4 \in Nat : ~Less(a1, a2, a3, a4, a1, a2, a3, a4)
  /\ \A a1, a2, a3, a4, b1, b2, b3, b4, c1, c2, c3, c4 \in Nat :
         /\ Less(a1, a2, a3, a4, b1, b2, b3, b4) /\ Less(b1, b2, b3, b4, c1, c2, c3, c4)
            => Less(a1, a2, a3, a4, c1, c2, c3, c4)
         /\ ~Less(a1, a2, a3, a4, b1, b2, b3, b4) /\ ~Less(b1, b2, b3, b4, c1, c2, c3, c4)
            => ~Less(a1, a2, a3, a4, c1, c2, c3, c4)
BY DEF Less

LEMMA LateIsNat == \A m \in Nat : Late(m) \in Nat
BY SMT DEF Late

LEMMA SoonerIs ==
  ASSUME NEW p, NEW q
  PROVE  Sooner(p, q) <=> SoonerByKeys(p, q)
<1> DEFINE late(m) == IF m = NoMonth THEN 999999 ELSE m
           keys == << <<late(p.start), late(q.start)>>, <<late(p.end), late(q.end)>>,
                      <<RankOf(p.name), RankOf(q.name)>>, <<RankOf(p.customer), RankOf(q.customer)>> >>
<1>1. Sooner(p, q) <=> \E i \in DOMAIN keys : /\ keys[i][1] < keys[i][2]
                                              /\ \A j \in 1 .. i - 1 : keys[j][1] = keys[j][2]
  BY DEF Sooner
<1>2. /\ late(p.start) = Late(p.start) /\ late(q.start) = Late(q.start)
      /\ late(p.end) = Late(p.end) /\ late(q.end) = Late(q.end)
  BY SMT DEF Late
<1> HIDE DEF late
<1>3. /\ DOMAIN keys = 1..4
      /\ keys[1][1] = late(p.start) /\ keys[1][2] = late(q.start)
      /\ keys[2][1] = late(p.end) /\ keys[2][2] = late(q.end)
      /\ keys[3][1] = RankOf(p.name) /\ keys[3][2] = RankOf(q.name)
      /\ keys[4][1] = RankOf(p.customer) /\ keys[4][2] = RankOf(q.customer)
  OBVIOUS
<1> HIDE DEF keys
<1>4. Sooner(p, q) <=> \/ keys[1][1] < keys[1][2]
                       \/ keys[2][1] < keys[2][2] /\ keys[1][1] = keys[1][2]
                       \/ keys[3][1] < keys[3][2] /\ keys[1][1] = keys[1][2] /\ keys[2][1] = keys[2][2]
                       \/ keys[4][1] < keys[4][2] /\ keys[1][1] = keys[1][2] /\ keys[2][1] = keys[2][2]
                                                  /\ keys[3][1] = keys[3][2]
  <2>1. \A i \in 1..4 : i = 1 \/ i = 2 \/ i = 3 \/ i = 4
    OBVIOUS
  <2>2. /\ \A j \in 1 .. 1 - 1 : FALSE
        /\ \A j : j \in 1 .. 2 - 1 <=> j = 1
        /\ \A j : j \in 1 .. 3 - 1 <=> j = 1 \/ j = 2
        /\ \A j : j \in 1 .. 4 - 1 <=> j = 1 \/ j = 2 \/ j = 3
    OBVIOUS
  <2> DEFINE first(i) == keys[i][1] < keys[i][2] /\ \A j \in 1 .. i - 1 : keys[j][1] = keys[j][2]
  <2>3. /\ first(1) <=> keys[1][1] < keys[1][2]
        /\ first(2) <=> keys[2][1] < keys[2][2] /\ keys[1][1] = keys[1][2]
        /\ first(3) <=> keys[3][1] < keys[3][2] /\ keys[1][1] = keys[1][2] /\ keys[2][1] = keys[2][2]
        /\ first(4) <=> keys[4][1] < keys[4][2] /\ keys[1][1] = keys[1][2] /\ keys[2][1] = keys[2][2]
                                                  /\ keys[3][1] = keys[3][2]
    BY <2>2
  <2>4. Sooner(p, q) <=> \E i \in 1..4 : first(i)
    BY <1>1, <1>3
  <2> HIDE DEF first
  <2>5. Sooner(p, q) <=> first(1) \/ first(2) \/ first(3) \/ first(4)
    BY <2>1, <2>4
  <2> QED BY <2>3, <2>5
<1> QED BY <1>2, <1>3, <1>4 DEF SoonerByKeys, Less

LEMMA SoonerIsOrder ==
  ASSUME NEW S, \A p \in S : RowOK(p)
  PROVE  /\ \A p \in S : ~Sooner(p, p)
         /\ \A p, q, u \in S : /\ Sooner(p, q) /\ Sooner(q, u) => Sooner(p, u)
                               /\ ~Sooner(p, q) /\ ~Sooner(q, u) => ~Sooner(p, u)
<1>1. \A p \in S : Late(p.start) \in Nat /\ Late(p.end) \in Nat
  BY LateIsNat DEF RowOK
<1>2. \A text : RankOf(text) \in Nat
  BY CandidateAssumption DEF RankOf
<1>3. /\ \A p \in S : ~SoonerByKeys(p, p)
      /\ \A p, q, u \in S : /\ SoonerByKeys(p, q) /\ SoonerByKeys(q, u) => SoonerByKeys(p, u)
                            /\ ~SoonerByKeys(p, q) /\ ~SoonerByKeys(q, u) => ~SoonerByKeys(p, u)
  <2> DEFINE k1(p) == Late(p.start)
             k2(p) == Late(p.end)
             k3(p) == RankOf(p.name)
             k4(p) == RankOf(p.customer)
  <2>1. \A p \in S : k1(p) \in Nat /\ k2(p) \in Nat /\ k3(p) \in Nat /\ k4(p) \in Nat
    BY <1>1, <1>2
  <2>2. \A p, q : SoonerByKeys(p, q) <=> Less(k1(p), k2(p), k3(p), k4(p), k1(q), k2(q), k3(q), k4(q))
    BY Zenon DEF SoonerByKeys
  <2> HIDE DEF k1, k2, k3, k4
  <2>3. \A p \in S : ~SoonerByKeys(p, p)
    BY <2>1, <2>2, LessIsOrder
  <2>4. ASSUME NEW p \in S, NEW q \in S, NEW u \in S
        PROVE  /\ SoonerByKeys(p, q) /\ SoonerByKeys(q, u) => SoonerByKeys(p, u)
               /\ ~SoonerByKeys(p, q) /\ ~SoonerByKeys(q, u) => ~SoonerByKeys(p, u)
    <3> DEFINE P(x, y) == Less(k1(x), k2(x), k3(x), k4(x), k1(y), k2(y), k3(y), k4(y))
    <3>1. (P(p, q) /\ P(q, u) => P(p, u)) /\ (~P(p, q) /\ ~P(q, u) => ~P(p, u))
      <4>1. k1(p) \in Nat /\ k2(p) \in Nat /\ k3(p) \in Nat /\ k4(p) \in Nat
        BY <2>1
      <4>2. k1(q) \in Nat /\ k2(q) \in Nat /\ k3(q) \in Nat /\ k4(q) \in Nat
        BY <2>1
      <4>3. k1(u) \in Nat /\ k2(u) \in Nat /\ k3(u) \in Nat /\ k4(u) \in Nat
        BY <2>1
      <4> QED BY <4>1, <4>2, <4>3 DEF Less
    <3> HIDE DEF P
    <3>2. \A x, y : SoonerByKeys(x, y) <=> P(x, y)
      BY <2>2 DEF P
    <3> QED BY <3>1, <3>2
  <2> QED BY <2>3, <2>4
<1> QED BY <1>3, SoonerIs

SortsBefore(rows) ==
  {p \in (DOMAIN rows) \X (DOMAIN rows) :
      Sooner(rows[p[1]], rows[p[2]]) \/ (~Sooner(rows[p[2]], rows[p[1]]) /\ p[1] < p[2])}

LEMMA SortHolds ==
  ASSUME NEW rows, List(rows), \A p \in WordsOf(rows) : RowOK(p)
  PROVE  /\ StrictOrder(DOMAIN rows, SortsBefore(rows)) /\ IsFiniteSet(DOMAIN rows)
         /\ Sorted(rows) = RowsAt(rows, Ordered(DOMAIN rows, SortsBefore(rows)))
         /\ List(Ordered(DOMAIN rows, SortsBefore(rows)))
         /\ WordsOf(Ordered(DOMAIN rows, SortsBefore(rows))) = DOMAIN rows
         /\ List(Sorted(rows)) /\ WordsOf(Sorted(rows)) = WordsOf(rows)
<1> DEFINE D0 == DOMAIN rows
           before == SortsBefore(rows)
           places == Ordered(D0, before)
<1>1. Sorted(rows) = RowsAt(rows, places)
  BY DEF Sorted, SortsBefore
<1>2. D0 \subseteq Nat /\ \A i \in D0 : rows[i] \in WordsOf(rows)
  BY ListFacts DEF WordsOf
<1>3. IsFiniteSet(D0)
  <2>1. D0 \in SUBSET DOMAIN rows
    OBVIOUS
  <2> HIDE DEF D0
  <2> QED BY <2>1, PlacesOf
<1>4. \A i, j \in D0 : <<i, j>> \in before <=>
          (Sooner(rows[i], rows[j]) \/ (~Sooner(rows[j], rows[i]) /\ i < j))
  BY DEF SortsBefore
<1>5. /\ \A p \in WordsOf(rows) : ~Sooner(p, p)
      /\ \A p, q, u \in WordsOf(rows) : /\ Sooner(p, q) /\ Sooner(q, u) => Sooner(p, u)
                                        /\ ~Sooner(p, q) /\ ~Sooner(q, u) => ~Sooner(p, u)
  BY SoonerIsOrder
<1> HIDE DEF before, D0
<1>6. StrictOrder(D0, before)
  <2>1. \A i \in D0 : <<i, i>> \notin before
    BY <1>2, <1>4, <1>5
  <2>2. ASSUME NEW i \in D0, NEW j \in D0, NEW k \in D0, <<i, j>> \in before, <<j, k>> \in before
        PROVE  <<i, k>> \in before
    <3> DEFINE a == rows[i]
               b == rows[j]
               c == rows[k]
    <3>1. a \in WordsOf(rows) /\ b \in WordsOf(rows) /\ c \in WordsOf(rows) /\ i \in Nat /\ j \in Nat /\ k \in Nat
      BY <1>2
    <3>2. Sooner(a, b) \/ (~Sooner(b, a) /\ i < j)
      BY <1>4, <2>2
    <3>3. Sooner(b, c) \/ (~Sooner(c, b) /\ j < k)
      BY <1>4, <2>2
    <3>4. (Sooner(a, c) \/ (~Sooner(c, a) /\ i < k)) => <<i, k>> \in before
      BY <1>4
    <3> HIDE DEF a, b, c
    <3>5. /\ Sooner(a, b) /\ Sooner(b, c) => Sooner(a, c)
          /\ ~Sooner(c, b) /\ ~Sooner(b, a) => ~Sooner(c, a)
          /\ Sooner(a, b) /\ ~Sooner(c, b) => Sooner(a, c)
          /\ ~Sooner(b, a) /\ Sooner(b, c) => Sooner(a, c)
      <4>1. ~Sooner(a, c) /\ ~Sooner(c, b) => ~Sooner(a, b)
        BY <1>5, <3>1
      <4>2. ~Sooner(b, a) /\ ~Sooner(a, c) => ~Sooner(b, c)
        BY <1>5, <3>1
      <4> QED BY <1>5, <3>1, <4>1, <4>2
    <3> QED BY <3>1, <3>2, <3>3, <3>4, <3>5
  <2>3. ASSUME NEW i \in D0, NEW j \in D0, i # j PROVE <<i, j>> \in before \/ <<j, i>> \in before
    BY <1>2, <1>4, <2>3
  <2> QED BY <2>1, <2>2, <2>3 DEF StrictOrder
<1>7. List(places) /\ WordsOf(places) = D0
  BY <1>3, <1>6, OrderedHolds, OrderedLists
<1> HIDE DEF places
<1>8. List(Sorted(rows)) /\ WordsOf(Sorted(rows)) = {rows[i] : i \in D0}
  BY <1>1, <1>7, RowsAtHolds
<1>9. WordsOf(Sorted(rows)) = WordsOf(rows)
  BY <1>8 DEF WordsOf, D0
<1> QED BY <1>1, <1>3, <1>6, <1>7, <1>8, <1>9 DEF D0, before, places

LEMMA SortedGathers ==
  ASSUME NEW rows, List(rows), \A p \in WordsOf(rows) : RowOK(p)
  PROVE  Gathers(Sorted(rows), rows)
BY SortHolds DEF Gathers

-----------------------------------------------------------------------------
(* Projects of one identity. *)

IdentityKeys(rows) == [i \in DOMAIN rows |-> IdentityKey(rows[i])]
SameHeads(rows) == [i \in DOMAIN rows |-> MergeSame(Group(rows, IdentityKeys(rows), i))]

LEMMA IdentityGrouped ==
  ASSUME NEW rows, List(rows)
  PROVE  Grouped(rows, IdentityKey, MergeSame) = RowsAt(SameHeads(rows), Places(Heads(rows, IdentityKeys(rows))))
<1> DEFINE key == IdentityKeys(rows)
           heads == {i \in DOMAIN rows :
                        /\ IdentityKey(rows[i]) # NoKey
                        /\ \A j \in DOMAIN rows : j < i => IdentityKey(rows[j]) # IdentityKey(rows[i])}
           alike(i) == {j \in DOMAIN rows : IdentityKey(rows[j]) = IdentityKey(rows[i])}
           P == Places(heads)
<1>1. \A i \in DOMAIN rows : key[i] = IdentityKey(rows[i])
  BY DEF IdentityKeys
<1>2. heads = Heads(rows, key)
  BY <1>1 DEF Heads
<1>3. \A i \in DOMAIN rows : alike(i) = Alike(rows, key, i)
  BY <1>1 DEF Alike
<1>4. Grouped(rows, IdentityKey, MergeSame) = [n \in DOMAIN P |-> MergeSame(RowsAt(rows, Places(alike(P[n]))))]
  BY DEF Grouped, Mapped
<1>6. \A n \in DOMAIN P : P[n] \in DOMAIN rows
  <2>1. heads \in SUBSET DOMAIN rows
    OBVIOUS
  <2> HIDE DEF heads
  <2>2. WordsOf(P) = heads
    BY <2>1, PlacesOf
  <2> QED BY <2>1, <2>2 DEF WordsOf
<1>7. P = Places(Heads(rows, key))
  BY <1>2
<1> HIDE DEF P, heads, alike
<1>8. \A n \in DOMAIN P : SameHeads(rows)[P[n]] = MergeSame(RowsAt(rows, Places(alike(P[n]))))
  BY <1>3, <1>6 DEF SameHeads, Group
<1> HIDE DEF key
<1>9. Grouped(rows, IdentityKey, MergeSame) = RowsAt(SameHeads(rows), P)
  BY <1>4, <1>8 DEF RowsAt
<1> QED BY <1>7, <1>9 DEF key

LEMMA KeylessRows ==
  ASSUME NEW rows, List(rows)
  PROVE  /\ List(Keyless(rows, IdentityKey))
         /\ WordsOf(Keyless(rows, IdentityKey)) = {rows[i] : i \in {i \in DOMAIN rows : IdentityKey(rows[i]) = NoKey}}
<1> DEFINE I == {i \in DOMAIN rows : IdentityKey(rows[i]) = NoKey}
<1>1. Keyless(rows, IdentityKey) = RowsAt(rows, Places(I))
  BY DEF Keyless, Kept
<1>2. I \in SUBSET DOMAIN rows
  OBVIOUS
<1> HIDE DEF I
<1>3. List(RowsAt(rows, Places(I))) /\ WordsOf(RowsAt(rows, Places(I))) = {rows[i] : i \in I}
  BY <1>2, SomeRows
<1> QED BY <1>1, <1>3 DEF I

LEMMA IdentityGathers ==
  ASSUME NEW rows, List(rows), \A p \in WordsOf(rows) : RowOK(p)
  PROVE  Gathers(IdentityMerge(rows), rows)
<1> DEFINE key == IdentityKeys(rows)
           heads == Heads(rows, key)
           same == RowsAt(SameHeads(rows), Places(heads))
           rest == Keyless(rows, IdentityKey)
<1>1. IdentityMerge(rows) = same \o rest
  BY IdentityGrouped DEF IdentityMerge
<1>2. List(same) /\ WordsOf(same) = {SameHeads(rows)[h] : h \in heads}
  BY GroupedRows
<1>3. List(rest) /\ WordsOf(rest) = {rows[i] : i \in {i \in DOMAIN rows : IdentityKey(rows[i]) = NoKey}}
  BY KeylessRows
<1>4. \A i \in DOMAIN rows : key[i] = IdentityKey(rows[i]) /\ rows[i] \in WordsOf(rows)
  BY DEF IdentityKeys, WordsOf
<1>5. List(same \o rest) /\ WordsOf(same \o rest) = WordsOf(same) \cup WordsOf(rest)
  BY <1>2, <1>3, Concat
<1> HIDE DEF same, rest
<1>6. ASSUME NEW h \in heads
      PROVE  LET g == Group(rows, key, h)
                 q == SameHeads(rows)[h]
             IN  /\ List(g) /\ WordsOf(g) = {rows[j] : j \in Alike(rows, key, h)}
                 /\ WordsOf(g) \subseteq WordsOf(rows)
                 /\ Unites(q, g) \/ (q \in WordsOf(rows) /\ \A p \in WordsOf(g) : q = p)
  <2> DEFINE g == Group(rows, key, h)
             q == SameHeads(rows)[h]
  <2>1. /\ h \in DOMAIN rows /\ List(g) /\ g[1] = rows[h] /\ 1 \in DOMAIN g
        /\ WordsOf(g) = {rows[j] : j \in Alike(rows, key, h)} /\ WordsOf(g) \subseteq WordsOf(rows)
    BY GroupsOf
  <2>2. q = MergeSame(g)
    BY <2>1 DEF SameHeads
  <2> HIDE DEF g, q
  <2>3. CASE Len(g) = 1
    <3>1. q = g[1] /\ DOMAIN g = 1..1
      BY <2>1, <2>2, <2>3, ListFacts DEF MergeSame
    <3>2. \A p \in WordsOf(g) : q = p
      BY <3>1 DEF WordsOf
    <3> QED BY <1>4, <2>1, <3>1, <3>2 DEF g, q
  <2>4. CASE Len(g) # 1
    <3>1. g[1] \in WordsOf(rows)
      BY <1>4, <2>1
    <3>2. q = MergeRows(g, g[1].name, g[1].customer, g[1].start, g[1].end)
      BY <2>2, <2>4 DEF MergeSame
    <3>3. Unites(q, g)
      BY <3>1, <3>2 DEF Unites, RowOK
    <3> QED BY <2>1, <3>3 DEF g, q
  <2> QED BY <2>3, <2>4
<1>7. ASSUME NEW q \in WordsOf(same \o rest)
      PROVE  q \in WordsOf(rows) \/ \E g : List(g) /\ WordsOf(g) \subseteq WordsOf(rows) /\ Unites(q, g)
  <2>1. CASE q \in WordsOf(rest)
    BY <1>3, <1>4, <2>1
  <2>2. CASE q \in WordsOf(same)
    BY <1>2, <1>6, <2>2
  <2> QED BY <1>5, <2>1, <2>2
<1>8. ASSUME NEW p \in WordsOf(rows)
      PROVE  \E q \in WordsOf(same \o rest) :
                 q = p \/ \E g : List(g) /\ WordsOf(g) \subseteq WordsOf(rows) /\ p \in WordsOf(g) /\ Unites(q, g)
  <2>1. PICK i \in DOMAIN rows : p = rows[i]
    BY DEF WordsOf
  <2>2. CASE IdentityKey(rows[i]) = NoKey
    <3>1. p \in WordsOf(rest)
      BY <1>3, <2>1, <2>2
    <3> QED BY <1>5, <3>1
  <2>3. CASE IdentityKey(rows[i]) # NoKey
    <3>1. PICK h \in heads : key[h] = key[i]
      BY <1>4, <2>3, GroupsOf
    <3> DEFINE g == Group(rows, key, h)
               q == SameHeads(rows)[h]
    <3>2. /\ List(g) /\ WordsOf(g) = {rows[j] : j \in Alike(rows, key, h)}
          /\ WordsOf(g) \subseteq WordsOf(rows)
          /\ Unites(q, g) \/ (q \in WordsOf(rows) /\ \A x \in WordsOf(g) : q = x)
      BY <1>6
    <3>3. i \in Alike(rows, key, h)
      BY <3>1 DEF Alike
    <3>4. p \in WordsOf(g)
      BY <2>1, <3>2, <3>3
    <3>5. q \in WordsOf(same \o rest)
      BY <1>2, <1>5
    <3> HIDE DEF g, q
    <3> QED BY <3>2, <3>4, <3>5
  <2> QED BY <2>2, <2>3
<1> QED BY <1>1, <1>5, <1>7, <1>8 DEF Gathers

-----------------------------------------------------------------------------
(* Certificates and profiles. *)

LEMMA SegmentsIn ==
  ASSUME NEW line, NEW p, NEW i \in Segments(line, p)
  PROVE  i \in DOMAIN line /\ line[i].end <= p.end + 1
BY DEF Segments

\* A row for each of some places.
LEMMA RowPerPlace ==
  ASSUME NEW line, List(line), NEW I \in SUBSET DOMAIN line, NEW f
  PROVE  /\ List(RowsAt(f, Places(I))) /\ WordsOf(RowsAt(f, Places(I))) = {f[i] : i \in I}
         /\ \A n \in DOMAIN Places(I) : Places(I)[n] \in I
<1>1. List(Places(I)) /\ WordsOf(Places(I)) = I
  BY PlacesOf
<1>2. \A n \in DOMAIN Places(I) : Places(I)[n] \in I
  BY <1>1 DEF WordsOf
<1> QED BY <1>1, <1>2, RowsAtHolds

\* A list of two or of one row and others.
LEMMA PairList ==
  ASSUME NEW a, NEW b
  PROVE  List(<<a, b>>) /\ WordsOf(<<a, b>>) = {a, b}
<1>1. <<a, b>> \in Seq({a, b}) /\ DOMAIN <<a, b>> = 1..2 /\ <<a, b>>[1] = a /\ <<a, b>>[2] = b
  OBVIOUS
<1>2. 1 \in 1..2 /\ 2 \in 1..2
  OBVIOUS
<1>3. List(<<a, b>>) /\ WordsOf(<<a, b>>) \subseteq {a, b}
  BY <1>1, SeqIsList
<1>4. a \in WordsOf(<<a, b>>) /\ b \in WordsOf(<<a, b>>)
  BY <1>1, <1>2 DEF WordsOf
<1> QED BY <1>3, <1>4

LEMMA OneList ==
  ASSUME NEW a
  PROVE  List(<<a>>) /\ WordsOf(<<a>>) = {a}
<1>1. <<a>> \in Seq({a}) /\ DOMAIN <<a>> = 1..1 /\ <<a>>[1] = a
  OBVIOUS
<1>3. List(<<a>>) /\ WordsOf(<<a>>) \subseteq {a}
  BY <1>1, SeqIsList
<1>4. a \in WordsOf(<<a>>)
  BY <1>1 DEF WordsOf
<1> QED BY <1>3, <1>4

LEMMA PairUnites ==
  ASSUME NEW k, RowOK(k), NEW p
  PROVE  Unites(MergePair(k, p), <<k, p>>)
BY DEF Unites, MergePair, RowOK

LEMMA SegmentsUnite ==
  ASSUME NEW p, NEW rows, List(rows), \A x \in WordsOf(rows) : RowOK(x), WordsOf(rows) # {},
         NEW k \in Nat, \A x \in WordsOf(rows) : x.end <= k
  PROVE  Unites(MergeSegments(p, rows), <<p>> \o rows)
<1> DEFINE starts == {rows[i].start : i \in DOMAIN rows}
           ends == {rows[i].end : i \in DOMAIN rows}
           named == {rows[i].customer : i \in DOMAIN rows} \ {NoText}
           customer == IF p.customer # NoText \/ named = {} THEN p.customer ELSE Canonical(named)
<1>1. MergeSegments(p, rows) = MergeRows(<<p>> \o rows, p.name, customer, Min(starts), Max(ends))
  BY DEF MergeSegments
<1>2. \A i \in DOMAIN rows : rows[i].start \in Nat /\ rows[i].end \in 0..k
  BY DEF WordsOf, RowOK
<1>3. DOMAIN rows # {}
  BY DEF WordsOf
<1>4. starts \in SUBSET Nat /\ starts # {}
  BY <1>2, <1>3
<1>5. ends \in SUBSET (0..k) /\ ends # {}
  BY <1>2, <1>3
<1> HIDE DEF starts, ends, customer
<1>6. Min(starts) \in Nat
  BY <1>4, MinIs
<1>7. Max(ends) \in Nat
  <2>1. Max(ends) \in ends
    BY <1>5, MaxIs
  <2>2. Max(ends) \in 0..k
    BY <1>5, <2>1
  <2> DEFINE m == Max(ends)
  <2> HIDE DEF m
  <2>3. m \in 0..k => m \in Nat
    OBVIOUS
  <2> QED BY <2>2, <2>3 DEF m
<1> QED BY <1>1, <1>6, <1>7 DEF Unites

\* Pairs that no other pair touches.
Apart(line, pairs) ==
  /\ pairs \in SUBSET ((DOMAIN line) \X (DOMAIN line))
  /\ \A m, n \in pairs : m # n => m[1] # n[1] /\ m[2] # n[2]

\* Profiles and the rows they sum up.
Sums(line, claim, owners) ==
  /\ owners \in SUBSET DOMAIN line
  /\ \A p \in owners :
         /\ claim[p] \in SUBSET DOMAIN line /\ claim[p] # {}
         /\ \A i \in claim[p] : line[i].end <= line[p].end + 1

LEMMA JoinedGathers ==
  ASSUME NEW line, List(line), \A p \in WordsOf(line) : RowOK(p), NEW pairs, Apart(line, pairs),
         NEW claim, NEW owners, Sums(line, claim, owners)
  PROVE  Gathers(Joined(line, pairs, claim, owners), line)
<1> DEFINE I == DOMAIN line
           taken == owners \cup UNION ({{m[1], m[2]} : m \in pairs} \cup {claim[p] : p \in owners})
           mate(k) == CHOOSE p \in DOMAIN line : <<k, p>> \in pairs
           joined == [k \in I |-> MergePair(line[k], line[mate(k)])]
           summed == [p \in I |-> MergeSegments(line[p], RowsAt(line, Places(claim[p])))]
           A == {m[1] : m \in pairs}
           C == I \ taken
           a == RowsAt(joined, Places(A))
           b == RowsAt(summed, Places(owners))
           c == RowsAt(line, Places(C))
           new == Joined(line, pairs, claim, owners)
<1>1. A \in SUBSET I /\ owners \in SUBSET I /\ C \in SUBSET I
  BY DEF Apart, Sums
<1>2. /\ \A k \in I : joined[k] = MergePair(line[k], line[mate(k)])
      /\ \A p \in I : summed[p] = MergeSegments(line[p], RowsAt(line, Places(claim[p])))
  BY SMTT(40)
<1>3. new = (a \o b) \o c
  <2> DEFINE P == Places(A)
             Q == Places(owners)
  <2>1. (\A n \in DOMAIN P : P[n] \in I) /\ (\A n \in DOMAIN Q : Q[n] \in I)
    <3> HIDE DEF A, I
    <3> QED BY <1>1, RowPerPlace DEF I
  <2>2. new = ([n \in DOMAIN P |-> MergePair(line[P[n]], line[mate(P[n])])]
               \o [n \in DOMAIN Q |-> MergeSegments(line[Q[n]], RowsAt(line, Places(claim[Q[n]])))]) \o c
    BY DEF Joined, Mapped
  <2> HIDE DEF P, Q, joined, summed, c, new, mate, I
  <2>3. RowsAt(joined, P) = [n \in DOMAIN P |-> MergePair(line[P[n]], line[mate(P[n])])]
    BY <1>2, <2>1 DEF RowsAt
  <2>4. RowsAt(summed, Q) = [n \in DOMAIN Q |-> MergeSegments(line[Q[n]], RowsAt(line, Places(claim[Q[n]])))]
    BY <1>2, <2>1 DEF RowsAt
  <2> QED BY <2>2, <2>3, <2>4, Zenon DEF P, Q
<1>4. ASSUME NEW m \in pairs PROVE m[1] \in I /\ m[2] \in I /\ m = <<m[1], m[2]>> /\ mate(m[1]) = m[2]
  <2>1. m[1] \in I /\ m[2] \in I /\ m = <<m[1], m[2]>>
    BY DEF Apart
  <2>2. mate(m[1]) \in I /\ <<m[1], mate(m[1])>> \in pairs
    BY <2>1
  <2> HIDE DEF mate
  <2>3. <<m[1], mate(m[1])>>[1] = m[1] /\ <<m[1], mate(m[1])>>[2] = mate(m[1])
    OBVIOUS
  <2>4. <<m[1], mate(m[1])>> = m
    BY <2>2, <2>3 DEF Apart
  <2> QED BY <2>1, <2>3, <2>4
<1>5. \A i \in I : line[i] \in WordsOf(line) /\ RowOK(line[i])
  BY DEF WordsOf
<1> HIDE DEF joined, summed, mate
<1>6. /\ List(a) /\ WordsOf(a) = {joined[k] : k \in A}
      /\ List(b) /\ WordsOf(b) = {summed[p] : p \in owners}
      /\ List(c) /\ WordsOf(c) = {line[i] : i \in C}
  <2> HIDE DEF A, C
  <2> QED BY <1>1, RowPerPlace
<1> HIDE DEF a, b, c, new
<1>7. List(new) /\ WordsOf(new) = WordsOf(a) \cup WordsOf(b) \cup WordsOf(c)
  <2>1. List(a \o b) /\ WordsOf(a \o b) = WordsOf(a) \cup WordsOf(b)
    BY <1>6, Concat
  <2> DEFINE ab == a \o b
  <2> HIDE DEF ab
  <2>2. List(ab \o c) /\ WordsOf(ab \o c) = WordsOf(ab) \cup WordsOf(c)
    BY <1>6, <2>1, Concat DEF ab
  <2> QED BY <1>3, <2>1, <2>2 DEF ab
<1>8. ASSUME NEW m \in pairs
      PROVE  LET g == <<line[m[1]], line[m[2]]>>
             IN  /\ List(g) /\ WordsOf(g) = {line[m[1]], line[m[2]]}
                 /\ WordsOf(g) \subseteq WordsOf(line) /\ Unites(joined[m[1]], g)
                 /\ joined[m[1]] \in WordsOf(new)
  <2>1. List(<<line[m[1]], line[m[2]]>>) /\ WordsOf(<<line[m[1]], line[m[2]]>>) = {line[m[1]], line[m[2]]}
    BY PairList
  <2>2. joined[m[1]] = MergePair(line[m[1]], line[m[2]])
    BY <1>2, <1>4
  <2>3. Unites(joined[m[1]], <<line[m[1]], line[m[2]]>>)
    BY <1>4, <1>5, <2>2, PairUnites
  <2>4. m[1] \in A
    OBVIOUS
  <2> HIDE DEF A, I
  <2>5. joined[m[1]] \in WordsOf(new)
    BY <1>6, <1>7, <2>4
  <2>6. line[m[1]] \in WordsOf(line) /\ line[m[2]] \in WordsOf(line)
    BY <1>4, <1>5
  <2> QED BY <2>1, <2>3, <2>5, <2>6
<1>9. ASSUME NEW p \in owners
      PROVE  \E g : /\ List(g) /\ WordsOf(g) = {line[p]} \cup {line[i] : i \in claim[p]}
                    /\ WordsOf(g) \subseteq WordsOf(line) /\ Unites(summed[p], g)
                    /\ summed[p] \in WordsOf(new)
  <2> DEFINE rows == RowsAt(line, Places(claim[p]))
             q == line[p]
             k == q.end + 1
  <2>1. /\ p \in I /\ claim[p] \in SUBSET DOMAIN line /\ claim[p] # {}
        /\ \A i \in claim[p] : line[i].end <= k
    BY DEF Sums
  <2>2. List(rows) /\ WordsOf(rows) = {line[i] : i \in claim[p]}
    BY <2>1, SomeRows
  <2>3. RowOK(q) /\ q \in WordsOf(line)
    BY <1>5, <2>1
  <2>4. k \in Nat
    BY <2>3 DEF RowOK
  <2> HIDE DEF rows, q, k
  <2>5. (\A x \in WordsOf(rows) : RowOK(x) /\ x.end <= k) /\ WordsOf(rows) # {} /\ WordsOf(rows) \subseteq WordsOf(line)
    BY <1>5, <2>1, <2>2
  <2>6. Unites(MergeSegments(q, rows), <<q>> \o rows)
    BY <2>2, <2>4, <2>5, SegmentsUnite
  <2>7. List(<<q>> \o rows) /\ WordsOf(<<q>> \o rows) = {q} \cup WordsOf(rows)
    BY <2>2, OneList, Concat
  <2>8. summed[p] = MergeSegments(q, rows)
    BY <1>2, <2>1 DEF q, rows
  <2>9. summed[p] \in WordsOf(new)
    BY <1>6, <1>7
  <2> QED BY <2>2, <2>3, <2>5, <2>6, <2>7, <2>8, <2>9 DEF q
<1>10. ASSUME NEW q \in WordsOf(new)
       PROVE  q \in WordsOf(line) \/ \E g : List(g) /\ WordsOf(g) \subseteq WordsOf(line) /\ Unites(q, g)
  <2>1. CASE q \in WordsOf(a)
    <3>1. PICK m \in pairs : q = joined[m[1]]
      BY <1>6, <2>1
    <3> QED BY <1>8, <3>1
  <2>2. CASE q \in WordsOf(b)
    <3>1. PICK p \in owners : q = summed[p]
      BY <1>6, <2>2
    <3> QED BY <1>9, <3>1
  <2>3. CASE q \in WordsOf(c)
    BY <1>5, <1>6, <2>3
  <2> QED BY <1>7, <2>1, <2>2, <2>3
<1>11. ASSUME NEW x \in WordsOf(line)
       PROVE  \E q \in WordsOf(new) :
                 q = x \/ \E g : List(g) /\ WordsOf(g) \subseteq WordsOf(line) /\ x \in WordsOf(g) /\ Unites(q, g)
  <2>1. PICK i \in I : x = line[i]
    BY DEF WordsOf
  <2>2. CASE \E m \in pairs : i = m[1] \/ i = m[2]
    <3>1. PICK m \in pairs : i = m[1] \/ i = m[2]
      BY <2>2
    <3> DEFINE g == <<line[m[1]], line[m[2]]>>
    <3>2. /\ List(g) /\ WordsOf(g) = {line[m[1]], line[m[2]]}
          /\ WordsOf(g) \subseteq WordsOf(line) /\ Unites(joined[m[1]], g)
          /\ joined[m[1]] \in WordsOf(new)
      BY <1>8
    <3>3. x \in WordsOf(g)
      BY <2>1, <3>1, <3>2
    <3> HIDE DEF g
    <3> QED BY <3>2, <3>3
  <2>3. CASE \E p \in owners : i = p \/ i \in claim[p]
    <3>1. PICK p \in owners : i = p \/ i \in claim[p]
      BY <2>3
    <3>2. PICK g : /\ List(g) /\ WordsOf(g) = {line[p]} \cup {line[n] : n \in claim[p]}
                   /\ WordsOf(g) \subseteq WordsOf(line) /\ Unites(summed[p], g)
                   /\ summed[p] \in WordsOf(new)
      BY <1>9
    <3>3. x \in WordsOf(g)
      BY <2>1, <3>1, <3>2
    <3> QED BY <3>2, <3>3
  <2>4. CASE i \notin taken
    <3>1. x \in WordsOf(c)
      BY <1>6, <2>1, <2>4
    <3> QED BY <1>7, <3>1
  <2>5. i \in taken => (\E m \in pairs : i = m[1] \/ i = m[2]) \/ (\E p \in owners : i = p \/ i \in claim[p])
    OBVIOUS
  <2> HIDE DEF taken
  <2> QED BY <2>2, <2>3, <2>4, <2>5
<1> QED BY <1>7, <1>10, <1>11 DEF Gathers, new

LEMMA JoinGathers ==
  ASSUME NEW rows, List(rows), \A p \in WordsOf(rows) : RowOK(p)
  PROVE  LET line == Sorted(rows)
         IN  List(line) /\ WordsOf(line) = WordsOf(rows) /\ Gathers(JoinProfiles(rows), line)
<1> DEFINE line == Sorted(rows)
           pairs == Pairs(line)
           paired == UNION {{m[1], m[2]} : m \in pairs}
           claim == Claims(line, paired)
           owners == Owners(claim)
<1>1. List(line) /\ WordsOf(line) = WordsOf(rows)
  BY SortHolds
<1>2. JoinProfiles(rows) = Joined(line, pairs, claim, owners)
  BY DEF JoinProfiles, JoinSorted, JoinClaimed
<1> HIDE DEF line
<1>3. Apart(line, pairs)
  BY DEF Pairs, Apart
<1> HIDE DEF pairs
<1>4. /\ DOMAIN claim = (DOMAIN line) \ paired
      /\ \A p \in DOMAIN claim : claim[p] = Segments(line, line[p]) \ paired
  BY DEF Claims
<1>5. owners \in SUBSET DOMAIN claim /\ \A p \in owners : Cardinality(claim[p]) >= 2
  BY DEF Owners
<1> HIDE DEF claim, owners, paired
<1>6. Sums(line, claim, owners)
  <2> SUFFICES ASSUME NEW p \in owners
               PROVE  /\ claim[p] \in SUBSET DOMAIN line /\ claim[p] # {}
                      /\ \A i \in claim[p] : line[i].end <= line[p].end + 1
    BY <1>4, <1>5 DEF Sums
  <2>1. claim[p] # {}
    BY <1>5, FS_EmptySet
  <2> QED BY <1>4, <1>5, <2>1, SegmentsIn
<1> QED BY <1>1, <1>2, <1>3, <1>6, JoinedGathers DEF line

\* What the merge of the project parts keeps.
LEMMA ProjectsMerge ==
  ASSUME NEW parts, List(parts),
         \A rows \in WordsOf(parts) : List(rows) /\ \A p \in WordsOf(rows) : RowOK(p)
  PROVE  /\ List(MergeProjects(parts)) /\ \A q \in WordsOf(MergeProjects(parts)) : RowOK(q)
         /\ \A p \in Rows(parts) : \E q \in WordsOf(MergeProjects(parts)) : Preserves(q, p)
         /\ \A s, exempt : (\A p \in Rows(parts) : Stands(s, exempt, p)) =>
                               \A q \in WordsOf(MergeProjects(parts)) : Stands(s, exempt, q)
<1> DEFINE all == FlattenSeq(parts)
           same == IdentityMerge(all)
           line == Sorted(same)
           join == JoinProfiles(same)
           done == Sorted(join)
<1>1. MergeProjects(parts) = done
  BY DEF MergeProjects
<1>2. \A i \in DOMAIN parts : parts[i] \in WordsOf(parts)
  BY DEF WordsOf
<1>3. List(all) /\ WordsOf(all) = Rows(parts)
  BY <1>2, FlattenList DEF Rows
<1>4. \A p \in WordsOf(all) : RowOK(p)
  BY <1>2, <1>3 DEF Rows
<1> HIDE DEF all
<1>5. Gathers(same, all)
  BY <1>3, <1>4, IdentityGathers
<1> HIDE DEF same
<1>6. /\ List(same) /\ \A q \in WordsOf(same) : RowOK(q)
      /\ \A p \in WordsOf(all) : \E q \in WordsOf(same) : Preserves(q, p)
      /\ \A s, exempt : (\A p \in WordsOf(all) : Stands(s, exempt, p)) =>
                            \A q \in WordsOf(same) : Stands(s, exempt, q)
  BY <1>4, <1>5, GatheredRows
<1>7. List(line) /\ WordsOf(line) = WordsOf(same) /\ Gathers(join, line)
  BY <1>6, JoinGathers
<1> HIDE DEF line, join
<1>8. /\ List(join) /\ \A q \in WordsOf(join) : RowOK(q)
      /\ \A p \in WordsOf(line) : \E q \in WordsOf(join) : Preserves(q, p)
      /\ \A s, exempt : (\A p \in WordsOf(line) : Stands(s, exempt, p)) =>
                            \A q \in WordsOf(join) : Stands(s, exempt, q)
  BY <1>6, <1>7, GatheredRows
<1>9. List(done) /\ WordsOf(done) = WordsOf(join)
  BY <1>8, SortHolds
<1> HIDE DEF done
<1>10. \A p \in Rows(parts) : \E q \in WordsOf(done) : Preserves(q, p)
  <2> SUFFICES ASSUME NEW p \in WordsOf(all) PROVE \E q \in WordsOf(done) : Preserves(q, p)
    BY <1>3
  <2>1. PICK x \in WordsOf(same) : Preserves(x, p)
    BY <1>6
  <2>2. PICK q \in WordsOf(join) : Preserves(q, x)
    BY <1>7, <1>8
  <2> QED BY <1>9, <2>1, <2>2, PreservesAll
<1>11. ASSUME NEW s, NEW exempt, \A p \in Rows(parts) : Stands(s, exempt, p)
       PROVE  \A q \in WordsOf(done) : Stands(s, exempt, q)
  BY <1>3, <1>6, <1>7, <1>8, <1>9, <1>11
<1> QED BY <1>1, <1>8, <1>9, <1>10, <1>11

-----------------------------------------------------------------------------
(* Rows of tables and of a second pass. *)

Claimed(s, exempt, p) ==
  \A kind \in {"job", "exp"} : \A x \in WordsOf(p.rels[kind]) :
      RelClaim(s, kind, x) \/ <<kind, x.code>> \in exempt

\* new has what old has, and claims no more without right.
Continues(s, exempt, new, old) ==
  /\ List(new) /\ \A q \in WordsOf(new) : RowShape(q)
  /\ \A p \in WordsOf(old) : \E q \in WordsOf(new) : Preserves(q, p)
  /\ (\A p \in WordsOf(old) : Claimed(s, exempt, p)) => \A q \in WordsOf(new) : Claimed(s, exempt, q)

LEMMA ContinuesAll ==
  ASSUME NEW s, NEW exempt, NEW a
  PROVE  /\ List(a) /\ (\A p \in WordsOf(a) : RowShape(p)) => Continues(s, exempt, a, a)
         /\ \A b, c : Continues(s, exempt, b, a) /\ Continues(s, exempt, c, b) => Continues(s, exempt, c, a)
<1>1. ASSUME List(a), \A p \in WordsOf(a) : RowShape(p) PROVE Continues(s, exempt, a, a)
  BY <1>1, PreservesAll DEF Continues
<1>2. ASSUME NEW b, NEW c, Continues(s, exempt, b, a), Continues(s, exempt, c, b) PROVE Continues(s, exempt, c, a)
  <2>1. ASSUME NEW p \in WordsOf(a) PROVE \E q \in WordsOf(c) : Preserves(q, p)
    <3>1. PICK x \in WordsOf(b) : Preserves(x, p)
      BY <1>2 DEF Continues
    <3>2. PICK q \in WordsOf(c) : Preserves(q, x)
      BY <1>2 DEF Continues
    <3> QED BY <3>1, <3>2, PreservesAll
  <2> QED BY <1>2, <2>1 DEF Continues
<1> QED BY <1>1, <1>2

\* Rows that take the place of others, one for one.
LEMMA RowForRow ==
  ASSUME NEW s, NEW exempt, NEW old, List(old), NEW f, f = [i \in DOMAIN old |-> f[i]],
         \A i \in DOMAIN old : /\ RowShape(f[i]) /\ Preserves(f[i], old[i])
                               /\ Claimed(s, exempt, old[i]) => Claimed(s, exempt, f[i])
  PROVE  Continues(s, exempt, f, old)
<1>1. List(f) /\ DOMAIN f = DOMAIN old
  BY ListLike
<1> QED BY <1>1 DEF Continues, WordsOf

LEMMA OneRowMore ==
  ASSUME NEW s, NEW exempt, NEW old, List(old), \A p \in WordsOf(old) : RowShape(p),
         NEW x, RowShape(x), Claimed(s, exempt, x)
  PROVE  Continues(s, exempt, Append(old, x), old)
<1>1. List(Append(old, x)) /\ WordsOf(Append(old, x)) = WordsOf(old) \cup {x}
  BY AppendList
<1> QED BY <1>1, PreservesAll DEF Continues

LEMMA AddedRow ==
  ASSUME NEW s, NEW exempt, NEW old, List(old), \A p \in WordsOf(old) : RowShape(p), NEW at, NEW row
  PROVE  Continues(s, exempt, AddRow(old, at, row), old)
<1> DEFINE ref == RefAt(at, WordsOf(row))
           same == {i \in DOMAIN old :
                    /\ KeyOf(old[i].name) = KeyOf(row[1]) /\ old[i].customer = row[3]
                    /\ old[i].start = Periods[row[2]].start
                    /\ old[i].end = Periods[row[2]].end}
           x == [name |-> row[1], customer |-> row[3],
                 start |-> Periods[row[2]].start, end |-> Periods[row[2]].end,
                 refs |-> {ref}, rels |-> [kind \in Kinds |-> <<>>]]
           f == AddRow(old, at, row)
<1>1. f = IF same # {} THEN [old EXCEPT ![Min(same)].refs = @ \cup {ref}] ELSE Append(old, x)
  BY DEF AddRow
<1>2. CASE same = {}
  <2>1. RowShape(x)
    <3>1. \A kind \in Kinds : x.rels[kind] = <<>>
      OBVIOUS
    <3>2. DOMAIN x = ProjectFields /\ DOMAIN x.rels = Kinds
      BY DEF ProjectFields
    <3> HIDE DEF x
    <3> QED BY <3>1, <3>2, EmptyList DEF RowShape
  <2>2. Claimed(s, exempt, x)
    <3>1. \A kind \in {"job", "exp"} : x.rels[kind] = <<>>
      BY SMTT(40) DEF Kinds
    <3> HIDE DEF x
    <3> QED BY <3>1, EmptyList DEF Claimed
  <2>3. f = Append(old, x)
    BY <1>1, <1>2
  <2> HIDE DEF x, f
  <2> QED BY <2>1, <2>2, <2>3, OneRowMore DEF f
<1>3. CASE same # {}
  <2> DEFINE m == Min(same)
             more(p) == [p EXCEPT !.refs = p.refs \cup {ref}]
  <2>1. f = [old EXCEPT ![m] = more(old[m])]
    BY <1>1, <1>3, Zenon
  <2> HIDE DEF f, m, more, same
  <2>2. f = [i \in DOMAIN old |-> f[i]] /\ \A i \in DOMAIN old : f[i] = IF i = m THEN more(old[i]) ELSE old[i]
    BY <2>1
  <2>3. ASSUME NEW p, RowShape(p)
        PROVE  /\ RowShape(more(p)) /\ Preserves(more(p), p)
               /\ Claimed(s, exempt, p) => Claimed(s, exempt, more(p))
    <3>1. /\ DOMAIN more(p) = ProjectFields /\ more(p).rels = p.rels /\ p.refs \subseteq more(p).refs
      BY <2>3 DEF RowShape, ProjectFields, more
    <3>2. RowShape(more(p)) /\ (Claimed(s, exempt, p) => Claimed(s, exempt, more(p)))
      BY <2>3, <3>1 DEF RowShape, Claimed
    <3>3. Preserves(p, p)
      BY PreservesAll
    <3>4. Preserves(more(p), p)
      BY <3>1, <3>3 DEF Preserves
    <3> QED BY <3>2, <3>4
  <2>4. ASSUME NEW i \in DOMAIN old
        PROVE  /\ RowShape(f[i]) /\ Preserves(f[i], old[i])
               /\ Claimed(s, exempt, old[i]) => Claimed(s, exempt, f[i])
    <3>1. RowShape(old[i])
      BY DEF WordsOf
    <3> QED BY <2>2, <2>3, <3>1, PreservesAll
  <2> QED BY <2>2, <2>4, RowForRow, SMTT(40) DEF f
<1> QED BY <1>2, <1>3

\* The rows of the tables are added one after the other.
LEMMA TableRowsList ==
  ASSUME NEW s, TextOK(s)
  PROVE  List(TableRows(s))
<1> DEFINE tables == {at \in DOMAIN s : at \in Tables /\ DocType[at[1]] = Kosa}
           before == {p \in tables \X tables : Earlier(p[1], p[2])}
           pages == Ordered(tables, before)
           ss == [n \in DOMAIN pages |-> [i \in DOMAIN s[pages[n]] |-> [at |-> pages[n], row |-> s[pages[n]][i]]]]
<1>1. TableRows(s) = FlattenSeq(ss)
  BY DEF TableRows, Mapped
<1>2. IsFiniteSet(tables) /\ tables \subseteq DOMAIN s
  <2>1. IsFiniteSet(DOMAIN s) /\ tables \in SUBSET DOMAIN s
    BY DEF TextOK
  <2> HIDE DEF tables
  <2> QED BY <2>1, FS_Subset
<1>3. \A a, b \in tables : <<a, b>> \in before <=> Earlier(a, b)
  OBVIOUS
<1>4. \A a \in tables : a = <<a[1], a[2]>> /\ a[1] \in Nat /\ a[2] \in Nat
  BY <1>2, CandidateAssumption DEF TextOK
<1> HIDE DEF tables, before
<1>5. StrictOrder(tables, before)
  <2>1. \A a \in tables : <<a, a>> \notin before
    BY <1>3, <1>4 DEF Earlier
  <2>2. ASSUME NEW a \in tables, NEW b \in tables, NEW c \in tables, <<a, b>> \in before, <<b, c>> \in before
        PROVE  <<a, c>> \in before
    BY <1>3, <1>4, <2>2 DEF Earlier
  <2>3. ASSUME NEW a \in tables, NEW b \in tables, a # b PROVE <<a, b>> \in before \/ <<b, a>> \in before
    BY <1>3, <1>4, <2>3 DEF Earlier
  <2> QED BY <2>1, <2>2, <2>3 DEF StrictOrder
<1>6. List(pages) /\ WordsOf(pages) = tables
  BY <1>2, <1>5, OrderedHolds, OrderedLists
<1> HIDE DEF pages
<1>7. \A n \in DOMAIN pages : pages[n] \in DOMAIN s
  BY <1>2, <1>6 DEF WordsOf
<1>8. ss = [n \in DOMAIN pages |-> ss[n]]
  OBVIOUS
<1>9. ASSUME NEW n \in DOMAIN pages PROVE List(ss[n])
  <2> DEFINE lines == s[pages[n]]
             f == ss[n]
  <2>1. f = [i \in DOMAIN lines |-> f[i]]
    OBVIOUS
  <2>2. List(lines)
    BY <1>7, PageLines
  <2> HIDE DEF lines, f
  <2>3. List(f)
    BY <2>1, <2>2, ListLike
  <2> QED BY <2>3 DEF f
<1> HIDE DEF ss
<1>10. List(ss) /\ DOMAIN ss = DOMAIN pages
  BY <1>6, <1>8, ListLike
<1> QED BY <1>1, <1>9, <1>10, FlattenList

LEMMA RecallSteps ==
  ASSUME NEW s, TextOK(s), NEW ps
  PROVE  LET rows == TableRows(s)
         IN  \E f : /\ RecallTables(s, ps) = f[Len(rows)] /\ f[0] = ps
                    /\ \A i \in 1..Len(rows) : f[i] = AddRow(f[i - 1], rows[i].at, rows[i].row)
<1> DEFINE rows == TableRows(s)
           n == Len(rows)
           Recalls(f) == f = [i \in 0..n |-> IF i = 0 THEN ps ELSE AddRow(f[i - 1], rows[i].at, rows[i].row)]
           recall == CHOOSE f : Recalls(f)
           S == {m \in Nat : \E f : \A i \in 0..m : f[i] = IF i = 0 THEN ps ELSE AddRow(f[i - 1], rows[i].at, rows[i].row)}
<1>1. RecallTables(s, ps) = recall[n]
  BY Zenon DEF RecallTables
<1>2. n \in Nat
  BY TableRowsList, ListFacts
<1> HIDE DEF rows, n
<1>3. 0 \in S
  <2> DEFINE f == [i \in {0} |-> ps]
  <2>1. \A i \in 0..0 : f[i] = IF i = 0 THEN ps ELSE AddRow(f[i - 1], rows[i].at, rows[i].row)
    OBVIOUS
  <2> HIDE DEF f
  <2> QED BY <2>1
<1>4. ASSUME NEW m \in 1..n, m - 1 \in S PROVE m \in S
  <2>1. PICK f : \A i \in 0..(m - 1) : f[i] = IF i = 0 THEN ps ELSE AddRow(f[i - 1], rows[i].at, rows[i].row)
    BY <1>4
  <2> DEFINE h == [i \in 0..m |-> IF i # m THEN f[i] ELSE AddRow(f[m - 1], rows[m].at, rows[m].row)]
  <2>2. m \in Nat /\ m # 0
    BY <1>2
  <2>3. ASSUME NEW i \in 0..m PROVE h[i] = IF i = 0 THEN ps ELSE AddRow(h[i - 1], rows[i].at, rows[i].row)
    <3>1. i \in Nat /\ (i # 0 => i - 1 \in 0..m) /\ (i # 0 => i - 1 # m) /\ (i # m => i \in 0..(m - 1))
      BY <2>2
    <3>2. i # 0 => h[i - 1] = f[i - 1]
      BY <3>1
    <3>3. CASE i = m
      BY <2>2, <3>2, <3>3
    <3>4. CASE i # m
      <4>1. h[i] = f[i] /\ f[i] = IF i = 0 THEN ps ELSE AddRow(f[i - 1], rows[i].at, rows[i].row)
        BY <2>1, <3>1, <3>4
      <4> QED BY <3>2, <4>1
    <3> QED BY <3>3, <3>4
  <2> HIDE DEF h
  <2> QED BY <2>2, <2>3
<1>5. n \in S
  <2> HIDE DEF S
  <2>1. 0..n \subseteq S
    BY <1>2, <1>3, <1>4, UpTo
  <2> QED BY <1>2, <2>1
<1>6. PICK f : \A i \in 0..n : f[i] = IF i = 0 THEN ps ELSE AddRow(f[i - 1], rows[i].at, rows[i].row)
  BY <1>5
<1> DEFINE h == [i \in 0..n |-> f[i]]
<1>7. \A i \in 0..n : h[i] = IF i = 0 THEN ps ELSE AddRow(h[i - 1], rows[i].at, rows[i].row)
  <2> SUFFICES ASSUME NEW i \in 0..n PROVE h[i] = IF i = 0 THEN ps ELSE AddRow(h[i - 1], rows[i].at, rows[i].row)
    OBVIOUS
  <2>1. i # 0 => i - 1 \in 0..n
    BY <1>2
  <2> QED BY <1>6, <2>1
<1>8. h = [i \in 0..n |-> h[i]]
  OBVIOUS
<1> HIDE DEF h
<1>9. Recalls(h)
  BY <1>7, <1>8
<1>10. Recalls(recall)
  BY <1>9
<1> HIDE DEF recall
<1>11. recall[0] = ps /\ \A i \in 1..n : recall[i] = AddRow(recall[i - 1], rows[i].at, rows[i].row)
  <2>1. 0 \in 0..n /\ \A i \in 1..n : i \in 0..n /\ i # 0
    BY <1>2
  <2> QED BY <1>10, <2>1
<1> QED BY <1>1, <1>11 DEF n, rows

LEMMA TablesContinue ==
  ASSUME NEW s, TextOK(s), NEW ps, List(ps), \A p \in WordsOf(ps) : RowShape(p), NEW t, NEW exempt
  PROVE  Continues(t, exempt, RecallTables(s, ps), ps)
<1> DEFINE rows == TableRows(s)
           n == Len(rows)
<1>1. PICK f : /\ RecallTables(s, ps) = f[n] /\ f[0] = ps
               /\ \A i \in 1..n : f[i] = AddRow(f[i - 1], rows[i].at, rows[i].row)
  BY RecallSteps
<1>2. n \in Nat
  BY TableRowsList, ListFacts
<1> HIDE DEF rows, n
<1> DEFINE S == {i \in 0..n : Continues(t, exempt, f[i], ps)}
<1>3. 0 \in S
  BY <1>1, <1>2, ContinuesAll
<1>4. ASSUME NEW i \in 1..n, i - 1 \in S PROVE i \in S
  <2>1. Continues(t, exempt, f[i - 1], ps)
    BY <1>4
  <2>2. f[i] = AddRow(f[i - 1], rows[i].at, rows[i].row)
    BY <1>1
  <2>3. List(f[i - 1]) /\ \A p \in WordsOf(f[i - 1]) : RowShape(p)
    BY <2>1 DEF Continues
  <2>4. Continues(t, exempt, f[i], f[i - 1])
    BY <2>2, <2>3, AddedRow
  <2>5. Continues(t, exempt, f[i], ps)
    BY <2>1, <2>4, ContinuesAll
  <2> QED BY <1>2, <2>5
<1> HIDE DEF S
<1>5. 0..n \subseteq S
  BY <1>2, <1>3, <1>4, UpTo
<1>6. n \in S
  BY <1>2, <1>5
<1> QED BY <1>1, <1>6 DEF S

\* Relations added to those of a kind.
LEMMA RelsAdded ==
  ASSUME NEW s, NEW exempt, NEW p, RowShape(p), NEW q, RowShape(q),
         NEW I, I \in SUBSET DOMAIN q.rels["job"], NEW J, J \in SUBSET DOMAIN q.rels["exp"],
         NEW d, d = [p EXCEPT !.rels = [p.rels EXCEPT !["job"] = @ \o RowsAt(q.rels["job"], Places(I)),
                                                     !["exp"] = @ \o RowsAt(q.rels["exp"], Places(J))]]
  PROVE  /\ RowShape(d) /\ Preserves(d, p)
         /\ Claimed(s, exempt, p) /\ Claimed(s, exempt, q) => Claimed(s, exempt, d)
<1> DEFINE jobs == RowsAt(q.rels["job"], Places(I))
           exps == RowsAt(q.rels["exp"], Places(J))
           more(kind) == IF kind = "job" THEN jobs ELSE IF kind = "exp" THEN exps ELSE <<>>
           rels == [p.rels EXCEPT !["job"] = @ \o jobs, !["exp"] = @ \o exps]
<1>1. "job" \in Kinds /\ "exp" \in Kinds
  BY DEF Kinds
<1>2. DOMAIN p = ProjectFields /\ DOMAIN p.rels = Kinds
  BY DEF RowShape
<1>3. List(jobs) /\ WordsOf(jobs) \subseteq WordsOf(q.rels["job"])
      /\ List(exps) /\ WordsOf(exps) \subseteq WordsOf(q.rels["exp"])
  BY <1>1, SomeRows DEF RowShape
<1> HIDE DEF jobs, exps
<1>4. DOMAIN rels = Kinds /\ \A kind \in Kinds :
          rels[kind] = IF kind \in {"job", "exp"} THEN p.rels[kind] \o more(kind) ELSE p.rels[kind]
  BY <1>1, <1>2
<1>5. d = [p EXCEPT !.rels = rels]
  BY DEF jobs, exps
<1> HIDE DEF rels
<1>6. DOMAIN d = ProjectFields /\ d.refs = p.refs /\ d.rels = rels
  BY <1>2, <1>5 DEF ProjectFields
<1>7. ASSUME NEW kind \in {"job", "exp"}
      PROVE  /\ List(more(kind)) /\ WordsOf(more(kind)) \subseteq WordsOf(q.rels[kind])
             /\ List(d.rels[kind]) /\ WordsOf(d.rels[kind]) = WordsOf(p.rels[kind]) \cup WordsOf(more(kind))
  <2>1. List(more(kind)) /\ WordsOf(more(kind)) \subseteq WordsOf(q.rels[kind])
    BY <1>3
  <2>2. kind \in Kinds /\ List(p.rels[kind])
    BY <1>1 DEF RowShape
  <2> HIDE DEF more
  <2>3. d.rels[kind] = p.rels[kind] \o more(kind)
    BY <1>4, <1>6, <2>2
  <2> DEFINE a == p.rels[kind]
             b == more(kind)
  <2>4. d.rels[kind] = a \o b /\ List(a) /\ List(b)
    BY <2>1, <2>2, <2>3
  <2> HIDE DEF a, b
  <2>5. List(a \o b) /\ WordsOf(a \o b) = WordsOf(a) \cup WordsOf(b)
    BY <2>4, Concat
  <2> QED BY <2>1, <2>4, <2>5 DEF a, b
<1> HIDE DEF more
<1>8. ASSUME NEW kind \in Kinds, kind \notin {"job", "exp"} PROVE d.rels[kind] = p.rels[kind]
  BY <1>4, <1>6, <1>8
<1>9. RowShape(d)
  <2> SUFFICES ASSUME NEW kind \in Kinds
               PROVE  /\ List(d.rels[kind])
                      /\ \A x \in WordsOf(d.rels[kind]) :
                             RelFields \subseteq DOMAIN x /\ (x.code = NoText \/ x.code \in WordsOf(CodeOrder))
    BY <1>4, <1>6 DEF RowShape
  <2>1. CASE kind \in {"job", "exp"}
    BY <1>7, <2>1 DEF RowShape
  <2>2. CASE kind \notin {"job", "exp"}
    BY <1>8, <2>2 DEF RowShape
  <2> QED BY <2>1, <2>2
<1>10. \A kind \in Kinds : WordsOf(p.rels[kind]) \subseteq WordsOf(d.rels[kind])
  BY <1>7, <1>8
<1>11. Preserves(d, p)
  <2>1. Preserves(p, p)
    BY PreservesAll
  <2> QED BY <1>6, <1>10, <2>1 DEF Preserves
<1>12. ASSUME Claimed(s, exempt, p), Claimed(s, exempt, q) PROVE Claimed(s, exempt, d)
  BY <1>7, <1>12 DEF Claimed
<1> QED BY <1>9, <1>11, <1>12

LEMMA MissingAdded ==
  ASSUME NEW s, NEW exempt, NEW p, RowShape(p), NEW q, RowShape(q)
  PROVE  /\ RowShape(WithMissing(p, q)) /\ Preserves(WithMissing(p, q), p)
         /\ Claimed(s, exempt, p) /\ Claimed(s, exempt, q) => Claimed(s, exempt, WithMissing(p, q))
<1> DEFINE new(kind) == {i \in DOMAIN q.rels[kind] :
                         /\ q.rels[kind][i].code \notin Codes(p.rels[kind])
                         /\ Mergeable(kind, q.rels[kind][i])}
           lead(kind) == {i \in new(kind) : \A j \in new(kind) :
                           j < i => q.rels[kind][j].code # q.rels[kind][i].code}
           jobs == RowsAt(q.rels["job"], Places(lead("job")))
           exps == RowsAt(q.rels["exp"], Places(lead("exp")))
           d == WithMissing(p, q)
<1>1. lead("job") \in SUBSET DOMAIN q.rels["job"] /\ lead("exp") \in SUBSET DOMAIN q.rels["exp"]
  BY SMTT(40)
<1>2. d = p \/ d = [p EXCEPT !.rels.job = @ \o jobs, !.rels.exp = @ \o exps]
  BY DEF WithMissing
<1> HIDE DEF lead, d
<1>3. [p EXCEPT !.rels.job = @ \o jobs, !.rels.exp = @ \o exps] =
      [p EXCEPT !.rels = [p.rels EXCEPT !["job"] = @ \o jobs, !["exp"] = @ \o exps]]
  <2> HIDE DEF jobs, exps
  <2>1. "job" \in DOMAIN p.rels /\ "exp" \in DOMAIN p.rels /\ "rels" \in DOMAIN p
    BY DEF RowShape, ProjectFields, Kinds
  <2> QED BY <2>1
<1>4. CASE d = p
  BY <1>4, PreservesAll DEF d
<1>5. CASE d = [p EXCEPT !.rels = [p.rels EXCEPT !["job"] = @ \o jobs, !["exp"] = @ \o exps]]
  BY <1>1, <1>5, RelsAdded DEF d
<1> QED BY <1>2, <1>3, <1>4, <1>5

LEMMA SecondTaken ==
  ASSUME NEW s, NEW exempt, NEW old, List(old), \A p \in WordsOf(old) : RowShape(p),
         NEW q, RowShape(q), Claimed(s, exempt, q)
  PROVE  Continues(s, exempt, TakeSecond(old, q), old)
<1> DEFINE same == {i \in DOMAIN old : SameProject(old[i], q)}
           into == IF same # {} THEN {Min(same)} ELSE Contained(old, q)
           f == [i \in DOMAIN old |-> IF i \in into THEN WithMissing(old[i], q) ELSE old[i]]
           new == TakeSecond(old, q)
<1>1. new \in {f, old, Append(old, q)}
  BY DEF TakeSecond
<1> HIDE DEF into, new
<1>2. f = [i \in DOMAIN old |-> f[i]] /\ \A i \in DOMAIN old : f[i] \in {old[i], WithMissing(old[i], q)}
  OBVIOUS
<1> HIDE DEF f
<1>3. ASSUME NEW i \in DOMAIN old
      PROVE  /\ RowShape(f[i]) /\ Preserves(f[i], old[i])
             /\ Claimed(s, exempt, old[i]) => Claimed(s, exempt, f[i])
  <2>1. RowShape(old[i])
    BY DEF WordsOf
  <2>2. CASE f[i] = old[i]
    BY <2>1, <2>2, PreservesAll
  <2>3. CASE f[i] = WithMissing(old[i], q)
    BY <2>1, <2>3, MissingAdded
  <2> QED BY <1>2, <2>2, <2>3
<1>4. Continues(s, exempt, f, old)
  BY <1>2, <1>3, RowForRow
<1>5. Continues(s, exempt, Append(old, q), old)
  BY OneRowMore
<1>6. Continues(s, exempt, old, old)
  BY ContinuesAll
<1> QED BY <1>1, <1>4, <1>5, <1>6 DEF new

\* The projects of the second pass are taken one after the other.
Takes(f, ps, more) ==
  f[0] = ps /\ \A i \in 1..Len(more) : f[i] = TakeSecond(f[i - 1], more[i])

LEMMA SecondSteps ==
  ASSUME NEW ps, NEW more, List(more)
  PROVE  \E f : SecondPass(ps, more) = f[Len(more)] /\ Takes(f, ps, more)
<1> DEFINE n == Len(more)
           Pools(f) == f = [i \in 0..n |-> IF i = 0 THEN ps ELSE TakeSecond(f[i - 1], more[i])]
           pool == CHOOSE f : Pools(f)
           S == {m \in Nat : \E f : \A i \in 0..m : f[i] = IF i = 0 THEN ps ELSE TakeSecond(f[i - 1], more[i])}
<1>1. SecondPass(ps, more) = pool[n]
  BY Zenon DEF SecondPass
<1>2. n \in Nat
  BY ListFacts
<1> HIDE DEF n
<1>3. 0 \in S
  <2> DEFINE f == [i \in {0} |-> ps]
  <2>1. \A i \in 0..0 : f[i] = IF i = 0 THEN ps ELSE TakeSecond(f[i - 1], more[i])
    OBVIOUS
  <2> HIDE DEF f
  <2> QED BY <2>1
<1>4. ASSUME NEW m \in 1..n, m - 1 \in S PROVE m \in S
  <2>1. PICK f : \A i \in 0..(m - 1) : f[i] = IF i = 0 THEN ps ELSE TakeSecond(f[i - 1], more[i])
    BY <1>4
  <2> DEFINE h == [i \in 0..m |-> IF i # m THEN f[i] ELSE TakeSecond(f[m - 1], more[m])]
  <2>2. m \in Nat /\ m # 0
    BY <1>2
  <2>3. ASSUME NEW i \in 0..m PROVE h[i] = IF i = 0 THEN ps ELSE TakeSecond(h[i - 1], more[i])
    <3>1. i \in Nat /\ (i # 0 => i - 1 \in 0..m) /\ (i # 0 => i - 1 # m) /\ (i # m => i \in 0..(m - 1))
      BY <2>2
    <3>2. i # 0 => h[i - 1] = f[i - 1]
      BY <3>1
    <3>3. CASE i = m
      BY <2>2, <3>2, <3>3
    <3>4. CASE i # m
      <4>1. h[i] = f[i] /\ f[i] = IF i = 0 THEN ps ELSE TakeSecond(f[i - 1], more[i])
        BY <2>1, <3>1, <3>4
      <4> QED BY <3>2, <4>1
    <3> QED BY <3>3, <3>4
  <2> HIDE DEF h
  <2> QED BY <2>2, <2>3
<1>5. n \in S
  <2> HIDE DEF S
  <2>1. 0..n \subseteq S
    BY <1>2, <1>3, <1>4, UpTo
  <2> QED BY <1>2, <2>1
<1>6. PICK f : \A i \in 0..n : f[i] = IF i = 0 THEN ps ELSE TakeSecond(f[i - 1], more[i])
  BY <1>5
<1> DEFINE h == [i \in 0..n |-> f[i]]
<1>7. \A i \in 0..n : h[i] = IF i = 0 THEN ps ELSE TakeSecond(h[i - 1], more[i])
  <2> SUFFICES ASSUME NEW i \in 0..n PROVE h[i] = IF i = 0 THEN ps ELSE TakeSecond(h[i - 1], more[i])
    OBVIOUS
  <2>1. i # 0 => i - 1 \in 0..n
    BY <1>2
  <2> QED BY <1>6, <2>1
<1>8. h = [i \in 0..n |-> h[i]]
  OBVIOUS
<1> HIDE DEF h
<1>9. Pools(h)
  BY <1>7, <1>8
<1>10. Pools(pool)
  BY <1>9
<1> HIDE DEF pool
<1>11. pool[0] = ps /\ \A i \in 1..n : pool[i] = TakeSecond(pool[i - 1], more[i])
  <2>1. 0 \in 0..n /\ \A i \in 1..n : i \in 0..n /\ i # 0
    BY <1>2
  <2> QED BY <1>10, <2>1
<1>12. SecondPass(ps, more) = pool[Len(more)] /\ Takes(pool, ps, more)
  BY <1>1, <1>11 DEF n, Takes
<1> QED BY <1>12

LEMMA SecondContinues ==
  ASSUME NEW s, NEW exempt, NEW ps, List(ps), \A p \in WordsOf(ps) : RowShape(p),
         NEW more, List(more), \A q \in WordsOf(more) : RowShape(q) /\ Claimed(s, exempt, q)
  PROVE  Continues(s, exempt, SecondPass(ps, more), ps)
<1> DEFINE n == Len(more)
<1>0. PICK f : SecondPass(ps, more) = f[Len(more)] /\ Takes(f, ps, more)
  BY SecondSteps
<1>1. /\ SecondPass(ps, more) = f[n] /\ f[0] = ps
      /\ \A i \in 1..n : f[i] = TakeSecond(f[i - 1], more[i])
  BY <1>0 DEF Takes
<1>2. n \in Nat /\ DOMAIN more = 1..n
  BY ListFacts
<1> HIDE DEF n
<1> DEFINE S == {i \in 0..n : Continues(s, exempt, f[i], ps)}
<1>3. 0 \in S
  BY <1>1, <1>2, ContinuesAll
<1>4. ASSUME NEW i \in 1..n, i - 1 \in S PROVE i \in S
  <2>1. Continues(s, exempt, f[i - 1], ps)
    BY <1>4
  <2>2. f[i] = TakeSecond(f[i - 1], more[i])
    BY <1>1
  <2>3. List(f[i - 1]) /\ \A p \in WordsOf(f[i - 1]) : RowShape(p)
    BY <2>1 DEF Continues
  <2>4. more[i] \in WordsOf(more)
    BY <1>2 DEF WordsOf
  <2>5. Continues(s, exempt, f[i], f[i - 1])
    BY <2>2, <2>3, <2>4, SecondTaken
  <2>6. Continues(s, exempt, f[i], ps)
    BY <2>1, <2>5, ContinuesAll
  <2> QED BY <1>2, <2>6
<1> HIDE DEF S
<1>5. 0..n \subseteq S
  BY <1>2, <1>3, <1>4, UpTo
<1>6. n \in S
  BY <1>2, <1>5
<1> QED BY <1>1, <1>6 DEF S

-----------------------------------------------------------------------------
(* The candidate. *)

\* The relations that a part quotes without a page.
ExemptRels == {m \in {"job", "exp"} \X GuardedCodes : Pageless(m[1], m[2])}

PartsRead ==
  /\ src \in Texts /\ stage \in Stages
  /\ List(coreParts) /\ \A c \in WordsOf(coreParts) : CoreShape(c) /\ JobClaims(src, c.jobs)
  /\ List(projectParts)
  /\ \A rows \in WordsOf(projectParts) : ProjectsAre(src, rows) /\ \A p \in WordsOf(rows) : PartClaim(src, p)

CoreTold == stage # "core" => CoreItems(core) /\ JobClaims(src, core.jobs)

ProjectsTold ==
  stage \notin {"core", "projects"} =>
      /\ List(projects) /\ \A q \in WordsOf(projects) : RowShape(q) /\ Claimed(src, ExemptRels, q)
      /\ \A p \in Rows(projectParts) : \E q \in WordsOf(projects) : Preserves(q, p)

CandidateInv == PartsRead /\ CoreTold /\ ProjectsTold

LEMMA ProjectIsRow ==
  ASSUME NEW s, NEW p, ProjectOK(s, p)
  PROVE  RowOK(p)
<1>1. ASSUME NEW kind \in Kinds, NEW x \in WordsOf(p.rels[kind])
      PROVE  RelFields \subseteq DOMAIN x /\ (x.code = NoText \/ x.code \in WordsOf(CodeOrder))
  BY DEF ProjectOK, RelsOK, TypedRel
<1>2. \A kind \in Kinds : List(p.rels[kind])
  BY DEF ProjectOK, RelsOK
<1> QED BY <1>1, <1>2 DEF ProjectOK, RowOK, RowShape

LEMMA RowsOfParts ==
  ASSUME NEW parts
  PROVE  Rows(parts) = UNION {WordsOf(rows) : rows \in WordsOf(parts)}
BY DEF Rows, WordsOf

\* A part stands but for what it quotes without a page.
LEMMA PartsStand ==
  ASSUME PartsRead, NEW p \in Rows(projectParts)
  PROVE  RowOK(p) /\ Claimed(src, ExemptRels, p) /\ Stands(src, ExemptRels, p)
<1>1. PICK rows \in WordsOf(projectParts) : p \in WordsOf(rows)
  BY RowsOfParts
<1>2. ProjectOK(src, p) /\ PartClaim(src, p)
  BY <1>1 DEF PartsRead, ProjectsAre
<1>3. ASSUME NEW kind \in {"job", "exp"}, NEW x \in WordsOf(p.rels[kind])
      PROVE  RelStands(src, ExemptRels, kind, x)
  <2> SUFFICES ASSUME x.code \in GuardedCodes PROVE RelStands(src, ExemptRels, kind, x)
    BY DEF RelStands
  <2>1. PICK r \in x.refs : r.quote # {} /\ QuoteInSource(src, r) /\ Says(kind, x.code, r.quote)
    BY <1>2 DEF PartClaim, RelClaim
  <2>2. CASE r.page = NoPage
    <3>1. Pageless(kind, x.code)
      BY <2>1, <2>2 DEF Pageless
    <3>2. <<kind, x.code>> \in ExemptRels
      BY <3>1 DEF ExemptRels
    <3> QED BY <3>2 DEF RelStands
  <2>3. CASE r.page # NoPage
    BY <2>1, <2>3 DEF RelStands
  <2> QED BY <2>2, <2>3
<1>4. Claimed(src, ExemptRels, p)
  BY <1>2 DEF Claimed, PartClaim
<1> QED BY <1>2, <1>3, <1>4, ProjectIsRow DEF Stands

LEMMA StandsIsClaimed ==
  ASSUME NEW s, NEW exempt, NEW p, Stands(s, exempt, p)
  PROVE  Claimed(s, exempt, p)
<1> SUFFICES ASSUME NEW kind \in {"job", "exp"}, NEW x \in WordsOf(p.rels[kind]), x.code \in GuardedCodes,
                    <<kind, x.code>> \notin exempt
             PROVE  RelClaim(s, kind, x)
  BY DEF Claimed, RelClaim
<1>1. RelStands(s, exempt, kind, x)
  BY DEF Stands
<1> QED BY <1>1 DEF RelStands, RelClaim

LEMMA CandidateBegins == CandidateInit => CandidateInv
<1> SUFFICES ASSUME CandidateInit PROVE CandidateInv
  OBVIOUS
<1>1. PartsRead
  BY EmptyList DEF CandidateInit, PartsRead, Stages
<1>2. CoreTold /\ ProjectsTold
  BY DEF CandidateInit, CoreTold, ProjectsTold
<1> QED BY <1>1, <1>2 DEF CandidateInv

LEMMA ReadCoreStep ==
  ASSUME CandidateInv, ReadCore
  PROVE  CandidateInv'
<1>1. PICK taken \in CoresRead : taken[1] = src /\ coreParts' = Append(coreParts, taken[2])
  BY DEF ReadCore
<1>2. PICK s \in Texts, answer \in CoreAnswers : taken = <<s, NormalizeCore(s, answer)>>
  BY <1>1 DEF CoresRead
<1>3. s = src /\ TextOK(s) /\ CoreOK(answer)
  BY <1>1, <1>2, CandidateAssumption
<1>4. CoreShape(taken[2]) /\ JobClaims(src, taken[2].jobs)
  BY <1>2, <1>3, CoreIsQuoted
<1>5. /\ src' = src /\ stage' = stage /\ stage = "core" /\ projectParts' = projectParts
      /\ List(coreParts)
  BY DEF ReadCore, CandidateInv, PartsRead
<1>6. List(coreParts') /\ WordsOf(coreParts') = WordsOf(coreParts) \cup {taken[2]}
  BY <1>1, <1>5, AppendList
<1>7. PartsRead'
  BY <1>4, <1>5, <1>6 DEF CandidateInv, PartsRead
<1> QED BY <1>5, <1>7 DEF CandidateInv, CoreTold, ProjectsTold

LEMMA ReadProjectsStep ==
  ASSUME CandidateInv, ReadProjects
  PROVE  CandidateInv'
<1>1. PICK taken \in ProjectsRead : taken[1] = src /\ projectParts' = Append(projectParts, taken[2])
  BY DEF ReadProjects
<1>2. PICK s \in Texts, answer \in ProjectAnswers : taken = <<s, NormalizeProjects(s, answer)>>
  BY <1>1 DEF ProjectsRead
<1>3. s = src /\ TextOK(s) /\ ProjectsOK(answer)
  BY <1>1, <1>2, CandidateAssumption
<1>4. ProjectsAre(src, taken[2]) /\ \A p \in WordsOf(taken[2]) : PartClaim(src, p)
  BY <1>2, <1>3, AnswerIsQuoted
<1>5. /\ src' = src /\ stage' = stage /\ stage = "projects" /\ coreParts' = coreParts /\ core' = core
      /\ List(projectParts)
  BY DEF ReadProjects, CandidateInv, PartsRead
<1>6. List(projectParts') /\ WordsOf(projectParts') = WordsOf(projectParts) \cup {taken[2]}
  BY <1>1, <1>5, AppendList
<1>7. PartsRead'
  BY <1>4, <1>5, <1>6 DEF CandidateInv, PartsRead
<1>8. CoreTold'
  BY <1>5 DEF CandidateInv, CoreTold
<1> QED BY <1>5, <1>7, <1>8 DEF CandidateInv, ProjectsTold

LEMMA PartIsItems ==
  ASSUME NEW c, CoreShape(c)
  PROVE  CoreItems(c)
BY DEF CoreShape, CoreItems

LEMMA CoreStep ==
  ASSUME CandidateInv, TakeCore \/ MergeCore
  PROVE  CandidateInv'
<1>1. /\ src' = src /\ coreParts' = coreParts /\ stage' = "projects" /\ projectParts' = projectParts
  BY DEF TakeCore, MergeCore
<1>2. List(coreParts) /\ \A c \in WordsOf(coreParts) : CoreItems(c) /\ JobClaims(src, c.jobs)
  BY PartIsItems DEF CandidateInv, PartsRead
<1>3. CoreItems(core') /\ JobClaims(src, core'.jobs)
  <2>1. CASE TakeCore
    <3>1. Len(coreParts) = 1 /\ core' = coreParts[1]
      BY <2>1 DEF TakeCore
    <3>2. coreParts[1] \in WordsOf(coreParts)
      BY <1>2, <3>1, ListFacts DEF WordsOf
    <3> QED BY <1>2, <3>1, <3>2
  <2>2. CASE MergeCore
    <3>1. core' = MergeCores(coreParts)
      BY <2>2 DEF MergeCore
    <3> QED BY <1>2, <3>1, CoresMerge, MergedClaims
  <2> QED BY <2>1, <2>2
<1>4. PartsRead'
  BY <1>1 DEF CandidateInv, PartsRead, Stages
<1>5. CoreTold'
  BY <1>1, <1>3 DEF CoreTold
<1> QED BY <1>1, <1>4, <1>5 DEF CandidateInv, ProjectsTold

\* What continues the rows of the parts, whether taken or merged.
LEMMA PartsContinue ==
  ASSUME CandidateInv, TakeProjects \/ MergeProjectParts
  PROVE  \E ps : /\ List(ps) /\ \A q \in WordsOf(ps) : RowShape(q) /\ Claimed(src, ExemptRels, q)
                 /\ \A p \in Rows(projectParts) : \E q \in WordsOf(ps) : Preserves(q, p)
                 /\ projects' = RecallTables(src, ps)
<1>1. PartsRead
  BY DEF CandidateInv
<1>2. List(projectParts) /\ \A rows \in WordsOf(projectParts) : List(rows)
  BY <1>1 DEF PartsRead, ProjectsAre
<1>3. \A p \in Rows(projectParts) : RowOK(p) /\ Claimed(src, ExemptRels, p) /\ Stands(src, ExemptRels, p)
  BY <1>1, PartsStand
<1>4. CASE TakeProjects
  <2>1. Len(projectParts) = 1 /\ projects' = RecallTables(src, projectParts[1])
    BY <1>4 DEF TakeProjects
  <2>2. DOMAIN projectParts = 1..1
    BY <1>2, <2>1, ListFacts
  <2>3. WordsOf(projectParts) = {projectParts[1]} /\ Rows(projectParts) = WordsOf(projectParts[1])
    BY <2>2 DEF WordsOf, Rows
  <2>4. \A p \in WordsOf(projectParts[1]) : RowShape(p) /\ Claimed(src, ExemptRels, p)
    BY <1>3, <2>3 DEF RowOK
  <2> QED BY <1>2, <2>1, <2>3, <2>4, PreservesAll
<1>5. CASE MergeProjectParts
  <2> DEFINE ps == MergeProjects(projectParts)
  <2>1. projects' = RecallTables(src, ps)
    BY <1>5 DEF MergeProjectParts
  <2>2. \A rows \in WordsOf(projectParts) : List(rows) /\ \A p \in WordsOf(rows) : RowOK(p)
    BY <1>2, <1>3, RowsOfParts
  <2>3. /\ List(ps) /\ \A q \in WordsOf(ps) : RowOK(q) /\ Stands(src, ExemptRels, q)
        /\ \A p \in Rows(projectParts) : \E q \in WordsOf(ps) : Preserves(q, p)
    BY <1>2, <1>3, <2>2, ProjectsMerge
  <2> HIDE DEF ps
  <2>4. \A q \in WordsOf(ps) : RowShape(q) /\ Claimed(src, ExemptRels, q)
    BY <2>3, StandsIsClaimed DEF RowOK
  <2> QED BY <2>1, <2>3, <2>4
<1> QED BY <1>4, <1>5

LEMMA ContinuedRows ==
  ASSUME NEW s, NEW exempt, NEW old, \A p \in WordsOf(old) : Claimed(s, exempt, p),
         NEW rows, \A p \in rows : \E q \in WordsOf(old) : Preserves(q, p),
         NEW new, Continues(s, exempt, new, old)
  PROVE  /\ List(new) /\ \A q \in WordsOf(new) : RowShape(q) /\ Claimed(s, exempt, q)
         /\ \A p \in rows : \E q \in WordsOf(new) : Preserves(q, p)
<1>1. ASSUME NEW p \in rows PROVE \E q \in WordsOf(new) : Preserves(q, p)
  <2>1. PICK x \in WordsOf(old) : Preserves(x, p)
    OBVIOUS
  <2>2. PICK q \in WordsOf(new) : Preserves(q, x)
    BY DEF Continues
  <2> QED BY <2>1, <2>2, PreservesAll
<1> QED BY <1>1 DEF Continues

LEMMA SameExempt ==
  ASSUME projectParts' = projectParts
  PROVE  ExemptRels' = ExemptRels
BY DEF ExemptRels, Pageless, Rows

LEMMA ProjectsStep ==
  ASSUME CandidateInv, TakeProjects \/ MergeProjectParts
  PROVE  CandidateInv'
<1>1. /\ src' = src /\ coreParts' = coreParts /\ core' = core /\ projectParts' = projectParts
      /\ stage = "projects" /\ stage' \in {"second", "lend"}
  BY DEF TakeProjects, MergeProjectParts
<1>2. PICK ps : /\ List(ps) /\ \A q \in WordsOf(ps) : RowShape(q) /\ Claimed(src, ExemptRels, q)
                /\ \A p \in Rows(projectParts) : \E q \in WordsOf(ps) : Preserves(q, p)
                /\ projects' = RecallTables(src, ps)
  BY PartsContinue
<1>3. TextOK(src)
  BY CandidateAssumption DEF CandidateInv, PartsRead
<1>4. Continues(src, ExemptRels, projects', ps)
  BY <1>2, <1>3, TablesContinue
<1>5. /\ List(projects') /\ \A q \in WordsOf(projects') : RowShape(q) /\ Claimed(src, ExemptRels, q)
      /\ \A p \in Rows(projectParts) : \E q \in WordsOf(projects') : Preserves(q, p)
  BY <1>2, <1>4, ContinuedRows
<1>6. PartsRead' /\ CoreTold'
  BY <1>1 DEF CandidateInv, PartsRead, CoreTold, Stages
<1>7. ProjectsTold'
  BY <1>1, <1>5, SameExempt DEF ProjectsTold
<1> QED BY <1>6, <1>7 DEF CandidateInv

LEMMA ReadAgainStep ==
  ASSUME CandidateInv, ReadAgain
  PROVE  CandidateInv'
<1>1. /\ src' = src /\ coreParts' = coreParts /\ core' = core /\ projectParts' = projectParts
      /\ stage = "second" /\ stage' = "lend"
  BY DEF ReadAgain
<1>2. /\ List(projects) /\ \A q \in WordsOf(projects) : RowShape(q) /\ Claimed(src, ExemptRels, q)
      /\ \A p \in Rows(projectParts) : \E q \in WordsOf(projects) : Preserves(q, p)
  BY <1>1 DEF CandidateInv, ProjectsTold
<1>3. Continues(src, ExemptRels, projects', projects)
  <2>1. CASE UNCHANGED projects
    BY <1>2, <2>1, ContinuesAll
  <2>2. CASE \E taken \in ProjectsRead : taken[1] = src /\ projects' = SecondPass(projects, taken[2])
    <3>1. PICK taken \in ProjectsRead : taken[1] = src /\ projects' = SecondPass(projects, taken[2])
      BY <2>2
    <3>2. PICK s \in Texts, answer \in ProjectAnswers : taken = <<s, NormalizeProjects(s, answer)>>
      BY <3>1 DEF ProjectsRead
    <3> DEFINE more == taken[2]
    <3>3. s = src /\ TextOK(s) /\ ProjectsOK(answer) /\ more = NormalizeProjects(s, answer)
      BY <3>1, <3>2, CandidateAssumption
    <3>4. ProjectsAre(src, more) /\ \A p \in WordsOf(more) : PartClaim(src, p)
      BY <3>3, AnswerIsQuoted
    <3> HIDE DEF more
    <3>5. List(more) /\ \A q \in WordsOf(more) : RowShape(q) /\ Claimed(src, ExemptRels, q)
      BY <3>4, ProjectIsRow DEF ProjectsAre, RowOK, PartClaim, Claimed
    <3>6. projects' = SecondPass(projects, more)
      BY <3>1 DEF more
    <3> QED BY <1>2, <3>5, <3>6, SecondContinues
  <2> QED BY <2>1, <2>2 DEF ReadAgain
<1>4. /\ List(projects') /\ \A q \in WordsOf(projects') : RowShape(q) /\ Claimed(src, ExemptRels, q)
      /\ \A p \in Rows(projectParts) : \E q \in WordsOf(projects') : Preserves(q, p)
  BY <1>2, <1>3, ContinuedRows
<1>5. PartsRead' /\ CoreTold'
  BY <1>1 DEF CandidateInv, PartsRead, CoreTold, Stages
<1>6. ProjectsTold'
  BY <1>1, <1>4, SameExempt DEF ProjectsTold
<1> QED BY <1>5, <1>6 DEF CandidateInv

LEMMA LendStep ==
  ASSUME CandidateInv, LendEvidence
  PROVE  CandidateInv'
<1>1. /\ src' = src /\ coreParts' = coreParts /\ projectParts' = projectParts /\ projects' = projects
      /\ stage = "lend" /\ stage' = "done" /\ core' = SupplementRoot(src, core, projects)
  BY DEF LendEvidence
<1>2. CoreItems(core) /\ JobClaims(src, core.jobs)
  BY <1>1 DEF CandidateInv, CoreTold
<1>3. CoreItems(core') /\ JobClaims(src, core'.jobs)
  BY <1>1, <1>2, RootLent, LentClaims
<1>4. PartsRead' /\ CoreTold'
  BY <1>1, <1>3 DEF CandidateInv, PartsRead, CoreTold, Stages
<1>5. ProjectsTold'
  BY <1>1, SameExempt DEF CandidateInv, ProjectsTold
<1> QED BY <1>4, <1>5 DEF CandidateInv

LEMMA CandidateKept == CandidateInv /\ [CandidateNext]_candidateVars => CandidateInv'
<1> SUFFICES ASSUME CandidateInv, [CandidateNext]_candidateVars PROVE CandidateInv'
  OBVIOUS
<1>1. CASE UNCHANGED candidateVars
  <2>1. /\ src' = src /\ stage' = stage /\ coreParts' = coreParts /\ core' = core
        /\ projectParts' = projectParts /\ projects' = projects
    BY <1>1 DEF candidateVars
  <2> QED BY <2>1, SameExempt DEF CandidateInv, PartsRead, CoreTold, ProjectsTold
<1>2. CASE CandidateNext
  BY <1>2, ReadCoreStep, CoreStep, ReadProjectsStep, ProjectsStep, ReadAgainStep, LendStep DEF CandidateNext
<1> QED BY <1>1, <1>2

LEMMA ClaimsFollow == CandidateInv => ClaimsAreQuoted
<1> SUFFICES ASSUME CandidateInv, stage = "done" PROVE RootClaims /\ ProjectClaims
  BY DEF ClaimsAreQuoted
<1>1. RootClaims
  BY DEF CandidateInv, CoreTold, JobClaims, JobClaim, RootClaims, Proofs
<1>2. ASSUME NEW p \in WordsOf(projects), NEW kind \in {"job", "exp"}, NEW x \in WordsOf(p.rels[kind]),
             x.code \in GuardedCodes
      PROVE  (\E r \in Proofs(x) : Says(kind, x.code, r.quote)) \/ Pageless(kind, x.code)
  <2>1. RelClaim(src, kind, x) \/ <<kind, x.code>> \in ExemptRels
    BY DEF CandidateInv, ProjectsTold, Claimed
  <2>2. CASE RelClaim(src, kind, x)
    BY <1>2, <2>2 DEF RelClaim, Proofs
  <2>3. CASE <<kind, x.code>> \in ExemptRels
    BY <2>3 DEF ExemptRels
  <2> QED BY <2>1, <2>2, <2>3
<1>3. ProjectClaims
  BY <1>2 DEF ProjectClaims, GuardedCodes
<1> QED BY <1>1, <1>3

\* In every execution, no guarded job code of the finished candidate, of the profile
\* or of a project, rests on the model's word: each has a quotation on its page that
\* says the code, but for those quoted without a page
\* (drop_root_jobs_without_semantic_evidence, drop_project_jobs_without_semantic_evidence,
\* supplement_root_job_exp_evidence_from_project_relations).
THEOREM EveryClaimIsQuoted == CandidateSpec => []ClaimsAreQuoted
<1>1. CandidateInit => CandidateInv
  BY CandidateBegins
<1>2. CandidateInv /\ [CandidateNext]_candidateVars => CandidateInv'
  BY CandidateKept
<1>3. CandidateInv => ClaimsAreQuoted
  BY ClaimsFollow
<1> QED BY <1>1, <1>2, <1>3, PTL DEF CandidateSpec

-----------------------------------------------------------------------------
(* Ends of employments that are merged. *)

DatesIn(a) == IsFiniteSet(a) /\ \A d \in a : DateOK(d)

Precise(b, a) == \A d \in a : \E e \in b : AsPrecise(e, d)

LEMMA PrefixIs ==
  ASSUME NEW s \in Seq(Nat), NEW t \in Seq(Nat)
  PROVE  IsPrefix(s, t) <=> Len(s) <= Len(t) /\ \A i \in 1..Len(s) : s[i] = t[i]
<1>1. ASSUME IsPrefix(s, t) PROVE Len(s) <= Len(t) /\ \A i \in 1..Len(s) : s[i] = t[i]
  <2>1. Len(s) <= Len(t) /\ SubSeq(s, 1, Len(s)) = SubSeq(t, 1, Len(s))
    BY <1>1 DEF IsPrefix
  <2>2. ASSUME NEW i \in 1..Len(s) PROVE s[i] = t[i]
    <3>1. SubSeq(s, 1, Len(s))[i] = s[i] /\ SubSeq(t, 1, Len(s))[i] = t[i]
      BY <2>1
    <3> QED BY <2>1, <3>1
  <2> QED BY <2>1, <2>2
<1>2. ASSUME Len(s) <= Len(t), \A i \in 1..Len(s) : s[i] = t[i] PROVE IsPrefix(s, t)
  <2>1. SubSeq(s, 1, Len(s)) = SubSeq(t, 1, Len(s))
    BY <1>2
  <2> QED BY <1>2, <2>1 DEF IsPrefix
<1> QED BY <1>1, <1>2

LEMMA AsPreciseAll ==
  /\ \A d : AsPrecise(d, d)
  /\ \A c, d, e : DateOK(c) /\ DateOK(d) /\ DateOK(e) /\ AsPrecise(d, c) /\ AsPrecise(e, d) => AsPrecise(e, c)
<1>1. \A d : AsPrecise(d, d)
  BY DEF AsPrecise
<1>2. ASSUME NEW c, NEW d, NEW e, DateOK(c), DateOK(d), DateOK(e), AsPrecise(d, c), AsPrecise(e, d)
      PROVE  AsPrecise(e, c)
  <2>1. CASE d = c \/ e = d
    BY <1>2, <2>1
  <2>2. CASE D!IsOngoingEnd(c) /\ D!IsOngoingEnd(d) /\ D!IsOngoingEnd(e)
    BY <2>2 DEF AsPrecise
  <2>3. CASE D!HasParts(c) /\ D!HasParts(d) /\ D!HasParts(e) /\ IsPrefix(c.p, d.p) /\ IsPrefix(d.p, e.p)
    <3>1. c.p \in Seq(Nat) /\ d.p \in Seq(Nat) /\ e.p \in Seq(Nat)
      BY <1>2 DEF DateOK
    <3>2. Len(c.p) <= Len(d.p) /\ \A i \in 1..Len(c.p) : c.p[i] = d.p[i]
      BY <2>3, <3>1, PrefixIs
    <3>3. Len(d.p) <= Len(e.p) /\ \A i \in 1..Len(d.p) : d.p[i] = e.p[i]
      BY <2>3, <3>1, PrefixIs
    <3>4. Len(c.p) \in Nat /\ Len(d.p) \in Nat /\ Len(e.p) \in Nat
      BY <3>1
    <3>5. Len(c.p) <= Len(e.p) /\ \A i \in 1..Len(c.p) : c.p[i] = e.p[i]
      BY <3>2, <3>3, <3>4
    <3>6. IsPrefix(c.p, e.p)
      BY <3>1, <3>5, PrefixIs
    <3> QED BY <2>3, <3>6 DEF AsPrecise
  <2>4. \A x : ~(D!IsOngoingEnd(x) /\ D!HasParts(x))
    BY DEF D!IsOngoingEnd, D!HasParts
  <2> QED BY <1>2, <2>1, <2>2, <2>3, <2>4 DEF AsPrecise
<1> QED BY <1>1, <1>2

LEMMA PreciseIs ==
  ASSUME NEW a, NEW b, NEW c, DatesIn(a), DatesIn(b), DatesIn(c)
  PROVE  Precise(a, a) /\ (Precise(b, a) /\ Precise(c, b) => Precise(c, a))
<1>1. Precise(a, a)
  BY AsPreciseAll DEF Precise
<1>2. ASSUME Precise(b, a), Precise(c, b), NEW d \in a PROVE \E e \in c : AsPrecise(e, d)
  <2>1. PICK x \in b : AsPrecise(x, d)
    BY <1>2 DEF Precise
  <2>2. PICK e \in c : AsPrecise(e, x)
    BY <1>2 DEF Precise
  <2> QED BY <2>1, <2>2, AsPreciseAll DEF DatesIn
<1> QED BY <1>1, <1>2 DEF Precise

\* Of two dates that agree the longer says what the other says.
LEMMA LongerSaysAll ==
  ASSUME NEW x, NEW y, DateOK(x), DateOK(y), ~D!IsOngoingEnd(x), ~D!IsOngoingEnd(y), D!DatesCompatible(x, y)
  PROVE  IF Len(y.p) > Len(x.p) THEN AsPrecise(y, x) ELSE AsPrecise(x, y)
<1>1. x.p \in Seq(Nat) /\ y.p \in Seq(Nat) /\ Len(x.p) \in Nat /\ Len(y.p) \in Nat
  BY DEF DateOK
<1>2. CASE x = y
  BY <1>2, AsPreciseAll
<1>3. CASE D!HasParts(x) /\ D!HasParts(y) /\ (IsPrefix(x.p, y.p) \/ IsPrefix(y.p, x.p))
  <2>1. CASE Len(y.p) > Len(x.p)
    <3>1. ~IsPrefix(y.p, x.p)
      BY <1>1, <2>1 DEF IsPrefix
    <3> QED BY <1>3, <2>1, <3>1 DEF AsPrecise
  <2>2. CASE ~(Len(y.p) > Len(x.p))
    <3>1. IsPrefix(x.p, y.p) => IsPrefix(y.p, x.p)
      <4> SUFFICES ASSUME IsPrefix(x.p, y.p) PROVE IsPrefix(y.p, x.p)
        OBVIOUS
      <4>1. Len(x.p) <= Len(y.p) /\ \A i \in 1..Len(x.p) : x.p[i] = y.p[i]
        BY <1>1, PrefixIs
      <4>2. Len(x.p) = Len(y.p)
        BY <1>1, <2>2, <4>1
      <4>3. Len(y.p) <= Len(x.p) /\ \A i \in 1..Len(y.p) : y.p[i] = x.p[i]
        BY <1>1, <4>1, <4>2
      <4> QED BY <1>1, <4>3, PrefixIs
    <3> QED BY <1>3, <2>2, <3>1 DEF AsPrecise
  <2> QED BY <2>1, <2>2
<1>4. x = y \/ (D!HasParts(x) /\ D!HasParts(y) /\ (IsPrefix(x.p, y.p) \/ IsPrefix(y.p, x.p)))
  BY DEF DateOK, D!DatesCompatible, D!PartsAgree, D!IsPrefix, IsPrefix
<1> QED BY <1>2, <1>3, <1>4

LEMMA ResolvedIs ==
  ASSUME NEW a, NEW b, DatesIn(a), DatesIn(b)
  PROVE  /\ DatesIn(ResolvedEnd(a, b))
         /\ Precise(ResolvedEnd(a, b), a) /\ Precise(ResolvedEnd(a, b), b)
<1> DEFINE x == CHOOSE d \in a : TRUE
           y == CHOOSE d \in b : TRUE
           e == ResolvedEnd(a, b)
<1>1. DatesIn(a \cup b) /\ Precise(a \cup b, a) /\ Precise(a \cup b, b)
  BY AsPreciseAll, FS_Union DEF DatesIn, Precise
<1>2. e = IF a = {} \/ b = {} THEN a \cup b
          ELSE IF Cardinality(a) > 1 \/ Cardinality(b) > 1 THEN a \cup b
          ELSE IF D!IsOngoingEnd(x) /\ D!IsOngoingEnd(y) THEN a
          ELSE IF D!IsOngoingEnd(x) \/ D!IsOngoingEnd(y) \/ ~D!DatesCompatible(x, y) THEN a \cup b
          ELSE IF Len(y.p) > Len(x.p) THEN b ELSE a
  BY DEF ResolvedEnd
<1>3. CASE a = {} \/ b = {} \/ Cardinality(a) > 1 \/ Cardinality(b) > 1
  <2>1. e = a \cup b
    BY <1>2, <1>3
  <2> QED BY <1>1, <2>1
<1>4. CASE a # {} /\ b # {} /\ ~(Cardinality(a) > 1) /\ ~(Cardinality(b) > 1)
  <2>1. ASSUME NEW s, DatesIn(s), s # {}, ~(Cardinality(s) > 1) PROVE s = {CHOOSE d \in s : TRUE}
    <3>1. IsFiniteSet(s) /\ Cardinality(s) \in Nat /\ Cardinality(s) # 0
      BY <2>1, FS_EmptySet, FS_CardinalityType DEF DatesIn
    <3>2. Cardinality(s) = 1
      BY <2>1, <3>1
    <3>3. \E z : s = {z}
      BY <3>1, <3>2, FS_Singleton
    <3> QED BY <3>3
  <2>2. a = {x} /\ b = {y}
    BY <1>4, <2>1
  <2>3. DateOK(x) /\ DateOK(y)
    BY <2>2 DEF DatesIn
  <2> HIDE DEF x, y
  <2>4. CASE D!IsOngoingEnd(x) /\ D!IsOngoingEnd(y)
    <3>1. e = a
      BY <1>2, <1>4, <2>4
    <3>2. AsPrecise(x, y)
      BY <2>4 DEF AsPrecise
    <3>3. Precise(a, b)
      BY <2>2, <3>2 DEF Precise
    <3> QED BY <3>1, <3>3, PreciseIs
  <2>5. CASE ~(D!IsOngoingEnd(x) /\ D!IsOngoingEnd(y))
             /\ (D!IsOngoingEnd(x) \/ D!IsOngoingEnd(y) \/ ~D!DatesCompatible(x, y))
    <3>1. e = a \cup b
      BY <1>2, <1>4, <2>5
    <3> QED BY <1>1, <3>1
  <2>6. CASE ~D!IsOngoingEnd(x) /\ ~D!IsOngoingEnd(y) /\ D!DatesCompatible(x, y)
    <3>1. IF Len(y.p) > Len(x.p) THEN AsPrecise(y, x) ELSE AsPrecise(x, y)
      BY <2>3, <2>6, LongerSaysAll
    <3>2. e = IF Len(y.p) > Len(x.p) THEN b ELSE a
      BY <1>2, <1>4, <2>6
    <3>3. CASE Len(y.p) > Len(x.p)
      <4>1. e = b /\ Precise(b, a)
        BY <2>2, <3>1, <3>2, <3>3 DEF Precise
      <4> QED BY <4>1, PreciseIs
    <3>4. CASE ~(Len(y.p) > Len(x.p))
      <4>1. e = a /\ Precise(a, b)
        BY <2>2, <3>1, <3>2, <3>4 DEF Precise
      <4> QED BY <4>1, PreciseIs
    <3> QED BY <3>3, <3>4
  <2> QED BY <2>4, <2>5, <2>6
<1> QED BY <1>3, <1>4

\* The ends of the rows are resolved one after the other.
Resolves(f, rows) ==
  f[1] = rows[1].end /\ \A i \in 2..Len(rows) : f[i] = ResolvedEnd(f[i - 1], rows[i].end)

LEMMA EndSteps ==
  ASSUME NEW rows, List(rows), Len(rows) # 0
  PROVE  \E f : EndOf(rows) = f[Len(rows)] /\ Resolves(f, rows)
<1> DEFINE n == Len(rows)
           Ends(f) == f = [i \in 1..n |-> IF i = 1 THEN rows[i].end ELSE ResolvedEnd(f[i - 1], rows[i].end)]
           end == CHOOSE f : Ends(f)
           S == {m \in Nat : \E f : \A i \in 1..m : f[i] = IF i = 1 THEN rows[i].end
                                                          ELSE ResolvedEnd(f[i - 1], rows[i].end)}
<1>1. EndOf(rows) = end[n]
  BY Zenon DEF EndOf
<1>2. n \in Nat /\ n # 0
  BY ListFacts
<1> HIDE DEF n
<1>3. 0 \in S
  OBVIOUS
<1>4. ASSUME NEW m \in 1..n, m - 1 \in S PROVE m \in S
  <2>1. PICK f : \A i \in 1..(m - 1) : f[i] = IF i = 1 THEN rows[i].end ELSE ResolvedEnd(f[i - 1], rows[i].end)
    BY <1>4
  <2> DEFINE last == IF m = 1 THEN rows[m].end ELSE ResolvedEnd(f[m - 1], rows[m].end)
             h == [i \in 1..m |-> IF i # m THEN f[i] ELSE last]
  <2>2. m \in Nat /\ m # 0
    BY <1>2
  <2>3. ASSUME NEW i \in 1..m PROVE h[i] = IF i = 1 THEN rows[i].end ELSE ResolvedEnd(h[i - 1], rows[i].end)
    <3>1. i \in Nat /\ (i # 1 => i - 1 \in 1..m) /\ (i # 1 => i - 1 # m) /\ (i # m => i \in 1..(m - 1))
      BY <2>2
    <3>2. i # 1 => h[i - 1] = f[i - 1]
      BY <3>1
    <3>3. CASE i = m
      <4>1. h[i] = last
        BY <3>3
      <4> QED BY <3>2, <3>3, <4>1
    <3>4. CASE i # m
      <4>1. h[i] = f[i] /\ f[i] = IF i = 1 THEN rows[i].end ELSE ResolvedEnd(f[i - 1], rows[i].end)
        BY <2>1, <3>1, <3>4
      <4> QED BY <3>2, <4>1
    <3> QED BY <3>3, <3>4
  <2> HIDE DEF h
  <2> QED BY <2>2, <2>3
<1>5. n \in S
  <2> HIDE DEF S
  <2>1. 0..n \subseteq S
    BY <1>2, <1>3, <1>4, UpTo
  <2> QED BY <1>2, <2>1
<1>6. PICK f : \A i \in 1..n : f[i] = IF i = 1 THEN rows[i].end ELSE ResolvedEnd(f[i - 1], rows[i].end)
  BY <1>5
<1> DEFINE h == [i \in 1..n |-> f[i]]
<1>7. \A i \in 1..n : h[i] = IF i = 1 THEN rows[i].end ELSE ResolvedEnd(h[i - 1], rows[i].end)
  <2> SUFFICES ASSUME NEW i \in 1..n
               PROVE  h[i] = IF i = 1 THEN rows[i].end ELSE ResolvedEnd(h[i - 1], rows[i].end)
    OBVIOUS
  <2>1. i # 1 => i - 1 \in 1..n
    BY <1>2
  <2> QED BY <1>6, <2>1
<1>8. h = [i \in 1..n |-> h[i]]
  OBVIOUS
<1> HIDE DEF h
<1>9. Ends(h)
  BY <1>7, <1>8
<1>10. Ends(end)
  BY <1>9
<1> HIDE DEF end
<1>11. end[1] = rows[1].end /\ \A i \in 2..n : end[i] = ResolvedEnd(end[i - 1], rows[i].end)
  <2>1. 1 \in 1..n /\ \A i \in 2..n : i \in 1..n /\ i # 1
    BY <1>2
  <2> QED BY <1>10, <2>1
<1>12. EndOf(rows) = end[Len(rows)] /\ Resolves(end, rows)
  BY <1>1, <1>11 DEF n, Resolves
<1> QED BY <1>12

\* The end that results says what every row says.
LEMMA EndsHold ==
  ASSUME NEW rows, List(rows), Len(rows) # 0, \A i \in DOMAIN rows : DatesIn(rows[i].end)
  PROVE  DatesIn(EndOf(rows)) /\ \A i \in DOMAIN rows : Precise(EndOf(rows), rows[i].end)
<1> DEFINE n == Len(rows)
<1>1. PICK f : EndOf(rows) = f[Len(rows)] /\ Resolves(f, rows)
  BY EndSteps
<1>2. n \in Nat /\ n # 0 /\ DOMAIN rows = 1..n
  BY ListFacts
<1>3. EndOf(rows) = f[n] /\ f[1] = rows[1].end /\ \A i \in 2..n : f[i] = ResolvedEnd(f[i - 1], rows[i].end)
  BY <1>1 DEF Resolves
<1> HIDE DEF n
<1> DEFINE Reached(i) == DatesIn(f[i]) /\ \A k \in 1..i : Precise(f[i], rows[k].end)
           S == {i \in 0..n : i # 0 => Reached(i)}
<1>4. 0 \in S
  BY <1>2
<1>5. ASSUME NEW i \in 1..n, i - 1 \in S PROVE i \in S
  <2>1. CASE i = 1
    <3>1. DatesIn(rows[1].end)
      BY <1>2
    <3>2. Precise(rows[1].end, rows[1].end)
      BY <3>1, PreciseIs
    <3>3. \A k \in 1..1 : k = 1
      OBVIOUS
    <3> QED BY <1>3, <2>1, <3>1, <3>2, <3>3
  <2>2. CASE i # 1
    <3>1. i \in 2..n /\ i - 1 # 0 /\ i - 1 \in Nat /\ i \in Nat
      BY <1>2, <2>2
    <3>2. Reached(i - 1) /\ f[i] = ResolvedEnd(f[i - 1], rows[i].end)
      BY <1>3, <1>5, <3>1
    <3>3. DatesIn(rows[i].end)
      BY <1>2
    <3>4. DatesIn(f[i]) /\ Precise(f[i], f[i - 1]) /\ Precise(f[i], rows[i].end)
      BY <3>2, <3>3, ResolvedIs
    <3>5. ASSUME NEW k \in 1..i PROVE Precise(f[i], rows[k].end)
      <4>1. CASE k = i
        BY <3>4, <4>1
      <4>2. CASE k # i
        <5>1. k \in 1..(i - 1) /\ k \in 1..n
          BY <1>2, <3>1, <4>2
        <5>2. DatesIn(rows[k].end) /\ Precise(f[i - 1], rows[k].end)
          BY <1>2, <3>2, <5>1
        <5> QED BY <3>2, <3>4, <5>2, PreciseIs
      <4> QED BY <4>1, <4>2
    <3> QED BY <3>1, <3>4, <3>5
  <2> QED BY <2>1, <2>2
<1> HIDE DEF S
<1>6. n \in S
  <2>1. 0..n \subseteq S
    BY <1>2, <1>4, <1>5, UpTo
  <2> QED BY <1>2, <2>1
<1> QED BY <1>2, <1>3, <1>6 DEF S

WorkKeys(rows) == [i \in DOMAIN rows |-> WorkKey(rows[i])]
WorkHeads(rows) == [i \in DOMAIN rows |-> MergeWork(Group(rows, WorkKeys(rows), i))]

LEMMA WorkGrouped ==
  ASSUME NEW rows, List(rows)
  PROVE  Grouped(rows, WorkKey, MergeWork) = RowsAt(WorkHeads(rows), Places(Heads(rows, WorkKeys(rows))))
<1> DEFINE key == WorkKeys(rows)
           heads == {i \in DOMAIN rows :
                        /\ WorkKey(rows[i]) # NoKey
                        /\ \A j \in DOMAIN rows : j < i => WorkKey(rows[j]) # WorkKey(rows[i])}
           alike(i) == {j \in DOMAIN rows : WorkKey(rows[j]) = WorkKey(rows[i])}
           P == Places(heads)
<1>1. \A i \in DOMAIN rows : key[i] = WorkKey(rows[i])
  BY DEF WorkKeys
<1>2. heads = Heads(rows, key)
  BY <1>1 DEF Heads
<1>3. \A i \in DOMAIN rows : alike(i) = Alike(rows, key, i)
  BY <1>1 DEF Alike
<1>4. Grouped(rows, WorkKey, MergeWork) = [n \in DOMAIN P |-> MergeWork(RowsAt(rows, Places(alike(P[n]))))]
  BY DEF Grouped, Mapped
<1>6. \A n \in DOMAIN P : P[n] \in DOMAIN rows
  <2>1. heads \in SUBSET DOMAIN rows
    OBVIOUS
  <2> HIDE DEF heads
  <2>2. WordsOf(P) = heads
    BY <2>1, PlacesOf
  <2> QED BY <2>1, <2>2 DEF WordsOf
<1>7. P = Places(Heads(rows, key))
  BY <1>2
<1> HIDE DEF P, heads, alike
<1>8. \A n \in DOMAIN P : WorkHeads(rows)[P[n]] = MergeWork(RowsAt(rows, Places(alike(P[n]))))
  BY <1>3, <1>6 DEF WorkHeads, Group
<1> HIDE DEF key
<1>9. Grouped(rows, WorkKey, MergeWork) = RowsAt(WorkHeads(rows), P)
  BY <1>4, <1>8 DEF RowsAt
<1> QED BY <1>7, <1>9 DEF key

\* A merged employment has its company, its start and the ends of its rows.
LEMMA WorkHeadIs ==
  ASSUME NEW rows, WorkRows(rows), NEW h \in Heads(rows, WorkKeys(rows))
  PROVE  /\ WorkKey(WorkHeads(rows)[h]) = WorkKey(rows[h])
         /\ \A j \in Alike(rows, WorkKeys(rows), h) : Precise(WorkHeads(rows)[h].end, rows[j].end)
<1> DEFINE key == WorkKeys(rows)
           g == Group(rows, key, h)
           refs == AllRefs(g)
           end == EndOf(g)
<1>1. /\ List(rows) /\ h \in DOMAIN rows /\ List(g) /\ 1 \in DOMAIN g /\ g[1] = rows[h]
      /\ WordsOf(g) = {rows[j] : j \in Alike(rows, key, h)} /\ WordsOf(g) \subseteq WordsOf(rows)
  BY GroupsOf DEF WorkRows
<1>2. WorkHeads(rows)[h] = [g[1] EXCEPT !.refs = refs, !.end = end]
  BY <1>1 DEF WorkHeads, MergeWork
<1> HIDE DEF g, key, refs
<1>3. Len(g) # 0
  BY <1>1, ListFacts
<1>4. \A i \in DOMAIN g : DatesIn(g[i].end)
  BY <1>1 DEF WorkRows, WordsOf, DatesIn
<1>5. \A i \in DOMAIN g : Precise(end, g[i].end)
  BY <1>1, <1>3, <1>4, EndsHold
<1> HIDE DEF end
<1>6. {"raw", "start", "end", "refs"} \subseteq DOMAIN rows[h]
  BY <1>1 DEF WorkRows, WordsOf
<1> DEFINE y == [rows[h] EXCEPT !.refs = refs, !.end = end]
<1>7. y.raw = rows[h].raw /\ y.start = rows[h].start /\ y.end = end
  BY <1>6
<1>8. WorkHeads(rows)[h] = y
  BY <1>1, <1>2
<1> HIDE DEF y
<1>9. WorkKey(y) = WorkKey(rows[h])
  BY <1>7 DEF WorkKey
<1>10. ASSUME NEW j \in Alike(rows, key, h) PROVE Precise(end, rows[j].end)
  <2>1. PICK i \in DOMAIN g : g[i] = rows[j]
    BY <1>1 DEF WordsOf
  <2> QED BY <1>5, <2>1
<1> QED BY <1>7, <1>8, <1>9, <1>10 DEF key

LEMMA WorkMerges ==
  ASSUME NEW rows, WorkRows(rows), NEW x \in WordsOf(rows), WorkKey(x) # NoKey
  PROVE  \E y \in WordsOf(Grouped(rows, WorkKey, MergeWork) \o Keyless(rows, WorkKey)) :
             WorkKey(y) = WorkKey(x) /\ Precise(y.end, x.end)
<1> DEFINE key == WorkKeys(rows)
           heads == Heads(rows, key)
           some == RowsAt(WorkHeads(rows), Places(heads))
           none == {i \in DOMAIN rows : WorkKey(rows[i]) = NoKey}
           rest == RowsAt(rows, Places(none))
<1>1. Grouped(rows, WorkKey, MergeWork) = some /\ Keyless(rows, WorkKey) = rest /\ List(rows)
  BY WorkGrouped DEF WorkRows, Keyless, Kept
<1>2. List(some) /\ WordsOf(some) = {WorkHeads(rows)[h] : h \in heads}
  BY <1>1, GroupedRows
<1>3. List(rest)
  <2>1. none \in SUBSET DOMAIN rows
    OBVIOUS
  <2> HIDE DEF none
  <2> QED BY <1>1, <2>1, SomeRows
<1> HIDE DEF some, rest
<1>4. WordsOf(some \o rest) = WordsOf(some) \cup WordsOf(rest)
  BY <1>2, <1>3, Concat
<1>5. PICK i \in DOMAIN rows : x = rows[i]
  BY DEF WordsOf
<1>6. \A j \in DOMAIN rows : key[j] = WorkKey(rows[j])
  BY DEF WorkKeys
<1>7. PICK h \in heads : key[h] = key[i]
  BY <1>1, <1>5, <1>6, GroupsOf
<1>8. h \in DOMAIN rows /\ i \in Alike(rows, key, h)
  BY <1>7 DEF Heads, Alike
<1>9. WorkKey(WorkHeads(rows)[h]) = WorkKey(rows[h]) /\ Precise(WorkHeads(rows)[h].end, rows[i].end)
  BY <1>8, WorkHeadIs
<1> HIDE DEF key, heads
<1>10. WorkKey(rows[h]) = WorkKey(x)
  BY <1>5, <1>6, <1>7, <1>8
<1> QED BY <1>1, <1>2, <1>4, <1>5, <1>7, <1>9, <1>10

LEMMA WorkFlatten ==
  ASSUME NEW parts, List(parts), \A c \in WordsOf(parts) : WorkRows(c["work"]),
         NEW rows, rows = FlattenSeq([i \in DOMAIN parts |-> parts[i]["work"]])
  PROVE  WorkRows(rows) /\ WordsOf(rows) = UNION {WordsOf(c["work"]) : c \in WordsOf(parts)}
<1> DEFINE ss == [i \in DOMAIN parts |-> parts[i]["work"]]
<1>1. ss = [i \in DOMAIN parts |-> ss[i]] /\ \A i \in DOMAIN parts : ss[i] = parts[i]["work"]
  OBVIOUS
<1>2. rows = FlattenSeq(ss)
  OBVIOUS
<1> HIDE DEF ss
<1>3. List(ss) /\ DOMAIN ss = DOMAIN parts
  BY <1>1, ListLike
<1>4. \A i \in DOMAIN parts : parts[i] \in WordsOf(parts)
  BY DEF WordsOf
<1>5. \A i \in DOMAIN ss : List(ss[i])
  BY <1>1, <1>3, <1>4 DEF WorkRows
<1>6. List(rows) /\ WordsOf(rows) = UNION {WordsOf(ss[i]) : i \in DOMAIN ss}
  BY <1>2, <1>3, <1>5, FlattenList
<1>7. UNION {WordsOf(ss[i]) : i \in DOMAIN ss} = UNION {WordsOf(c["work"]) : c \in WordsOf(parts)}
  BY <1>1, <1>3, <1>4 DEF WordsOf
<1> HIDE DEF ss
<1>8. \A x \in WordsOf(rows) : \E c \in WordsOf(parts) : x \in WordsOf(c["work"])
  BY <1>6, <1>7
<1>9. WorkRows(rows)
  BY <1>6, <1>8 DEF WorkRows
<1> QED BY <1>6, <1>7, <1>9

LEMMA EndsMerge ==
  ASSUME NEW parts, List(parts), \A c \in WordsOf(parts) : WorkRows(c.work),
         NEW c \in WordsOf(parts), NEW x \in WordsOf(c.work), WorkKey(x) # NoKey
  PROVE  \E y \in WordsOf(MergeCores(parts).work) : WorkKey(y) = WorkKey(x) /\ Precise(y.end, x.end)
<1> DEFINE rows == FlattenSeq([i \in DOMAIN parts |-> parts[i]["work"]])
<1>1. MergeCores(parts).work = Grouped(rows, WorkKey, MergeWork) \o Keyless(rows, WorkKey)
  BY DEF MergeCores
<1>2. WorkRows(rows) /\ WordsOf(rows) = UNION {WordsOf(d["work"]) : d \in WordsOf(parts)}
  BY WorkFlatten
<1> HIDE DEF rows
<1>3. x \in WordsOf(rows)
  BY <1>2
<1> QED BY <1>1, <1>2, <1>3, WorkMerges

\* What the candidate keeps of the parts on the person.
CoreKeeps == stage # "core" => ItemsSurvive /\ EndsSurvive

LEMMA CoreKept ==
  ASSUME CandidateInv, CoreKeeps, TakeCore \/ MergeCore
  PROVE  CoreKeeps'
<1>1. coreParts' = coreParts /\ stage' = "projects"
  BY DEF TakeCore, MergeCore
<1>2. List(coreParts) /\ \A c \in WordsOf(coreParts) : CoreItems(c) /\ WorkRows(c.work)
  BY PartIsItems DEF CandidateInv, PartsRead, CoreShape
<1>3. CASE TakeCore
  <2>1. Len(coreParts) = 1 /\ core' = coreParts[1]
    BY <1>3 DEF TakeCore
  <2>2. \A c \in WordsOf(coreParts) : c = core'
    BY <1>2, <2>1, ListFacts DEF WordsOf
  <2>3. ItemsSurvive'
    BY <1>1, <2>2 DEF ItemsSurvive, Solid
  <2>4. EndsSurvive'
    BY <1>1, <2>2, AsPreciseAll DEF EndsSurvive
  <2> QED BY <2>3, <2>4 DEF CoreKeeps
<1>4. CASE MergeCore
  <2>1. core' = MergeCores(coreParts)
    BY <1>4 DEF MergeCore
  <2>2. ASSUME NEW c \in WordsOf(coreParts), NEW list \in {"jobs", "skills", "exps"},
               NEW x \in WordsOf(c[list]), x.code # NoText
        PROVE  \E y \in WordsOf(core'[list]) : x.code = y.code /\ Solid(x) \subseteq y.refs
    <3>1. HoldItems(core'[list], c[list])
      BY <1>2, <2>1, CoresMerge
    <3> QED BY <2>2, <3>1 DEF HoldItems, Solid
  <2>3. ASSUME NEW c \in WordsOf(coreParts), NEW x \in WordsOf(c.work), WorkKey(x) # NoKey
        PROVE  \E y \in WordsOf(core'.work) : WorkKey(y) = WorkKey(x) /\ Precise(y.end, x.end)
    BY <1>2, <2>1, <2>3, EndsMerge
  <2>4. ItemsSurvive'
    BY <1>1, <2>2 DEF ItemsSurvive
  <2>5. EndsSurvive'
    BY <1>1, <2>3 DEF EndsSurvive, Precise
  <2> QED BY <2>4, <2>5 DEF CoreKeeps
<1> QED BY <1>3, <1>4

LEMMA LoanKeeps ==
  ASSUME CandidateInv, CoreKeeps, LendEvidence
  PROVE  CoreKeeps'
<1>1. coreParts' = coreParts /\ stage = "lend" /\ core' = SupplementRoot(src, core, projects)
  BY DEF LendEvidence
<1>2. CoreItems(core) /\ ItemsSurvive /\ EndsSurvive
  BY <1>1 DEF CandidateInv, CoreTold, CoreKeeps
<1>3. /\ core'.skills = core.skills /\ core'.work = core.work
      /\ \A list \in {"jobs", "exps"} :
             /\ DOMAIN core'[list] = DOMAIN core[list]
             /\ \A i \in DOMAIN core[list] :
                    /\ core'[list][i].code = core[list][i].code
                    /\ Quoted(core[list][i].refs) => core'[list][i] = core[list][i]
  <2> DEFINE d == SupplementRoot(src, core, projects)
  <2>1. /\ d.skills = core.skills /\ d.work = core.work
        /\ \A list \in {"jobs", "exps"} :
               /\ DOMAIN d[list] = DOMAIN core[list]
               /\ \A i \in DOMAIN core[list] :
                      /\ d[list][i].code = core[list][i].code
                      /\ Quoted(core[list][i].refs) => d[list][i] = core[list][i]
    BY <1>2, RootLent
  <2>2. core' = d
    BY <1>1
  <2> HIDE DEF d
  <2> QED BY <2>1, <2>2
<1>4. ASSUME NEW c \in WordsOf(coreParts), NEW list \in {"jobs", "skills", "exps"},
             NEW x \in WordsOf(c[list]), x.code # NoText
      PROVE  \E y \in WordsOf(core'[list]) : x.code = y.code /\ Solid(x) \subseteq y.refs
  <2>1. PICK y \in WordsOf(core[list]) : x.code = y.code /\ Solid(x) \subseteq y.refs
    BY <1>2, <1>4 DEF ItemsSurvive
  <2>2. CASE list = "skills"
    BY <1>3, <2>1, <2>2
  <2>3. CASE list \in {"jobs", "exps"}
    <3>1. PICK i \in DOMAIN core[list] : y = core[list][i]
      BY <2>1 DEF WordsOf
    <3>2. core'[list][i].code = y.code /\ (Quoted(y.refs) => core'[list][i] = y)
      BY <1>3, <2>3, <3>1
    <3>3. core'[list][i] \in WordsOf(core'[list])
      BY <1>3, <2>3, <3>1 DEF WordsOf
    <3>4. CASE Quoted(y.refs)
      BY <2>1, <3>2, <3>3, <3>4
    <3>5. CASE ~Quoted(y.refs)
      <4>1. Solid(x) = {}
        BY <2>1, <3>5 DEF Solid, Quoted
      <4> QED BY <2>1, <3>2, <3>3, <4>1
    <3> QED BY <3>4, <3>5
  <2> QED BY <2>2, <2>3
<1>5. ItemsSurvive'
  BY <1>1, <1>4 DEF ItemsSurvive
<1>6. EndsSurvive'
  BY <1>1, <1>2, <1>3 DEF EndsSurvive
<1> QED BY <1>5, <1>6 DEF CoreKeeps

LEMMA KeepingStep ==
  CandidateInv /\ CoreKeeps /\ [CandidateNext]_candidateVars => CoreKeeps'
<1> SUFFICES ASSUME CandidateInv, CoreKeeps, [CandidateNext]_candidateVars PROVE CoreKeeps'
  OBVIOUS
<1>1. CASE ReadCore
  BY <1>1 DEF ReadCore, CoreKeeps
<1>2. CASE TakeCore \/ MergeCore
  BY <1>2, CoreKept
<1>3. CASE LendEvidence
  BY <1>3, LoanKeeps
<1>4. CASE ReadProjects \/ TakeProjects \/ MergeProjectParts \/ ReadAgain \/ UNCHANGED candidateVars
  <2>1. coreParts' = coreParts /\ core' = core /\ (stage' # "core" => stage # "core")
    BY <1>4 DEF ReadProjects, TakeProjects, MergeProjectParts, ReadAgain, candidateVars
  <2> QED BY <2>1 DEF CoreKeeps, ItemsSurvive, EndsSurvive
<1> QED BY <1>1, <1>2, <1>3, <1>4 DEF CandidateNext

LEMMA NothingLostFollows == CandidateInv /\ CoreKeeps => NothingIsLost
<1> SUFFICES ASSUME CandidateInv, CoreKeeps PROVE NothingIsLost
  OBVIOUS
<1>1. ASSUME stage \notin {"core", "projects"} PROVE ProjectsSurvive
  BY <1>1 DEF CandidateInv, ProjectsTold, ProjectsSurvive, Preserves
<1> QED BY <1>1 DEF CoreKeeps, NothingIsLost

\* In every execution, the candidate keeps what each chunk found: the codes with their
\* quotations, every project with its relations, and both ends where two chunks
\* disagree on the end of an employment (_merge_core_*, merge_project_chunk_candidates,
\* supplement_projects_from_second_pass, _resolve_employment_end).
THEOREM NothingGetsLost == CandidateSpec => []NothingIsLost
<1>1. CandidateInit => CandidateInv /\ CoreKeeps
  BY CandidateBegins DEF CandidateInit, CoreKeeps
<1>2. CandidateInv /\ [CandidateNext]_candidateVars => CandidateInv'
  BY CandidateKept
<1>3. CandidateInv /\ CoreKeeps /\ [CandidateNext]_candidateVars => CoreKeeps'
  BY KeepingStep
<1>4. CandidateInv /\ CoreKeeps => NothingIsLost
  BY NothingLostFollows
<1> QED BY <1>1, <1>2, <1>3, <1>4, PTL DEF CandidateSpec

-----------------------------------------------------------------------------
(* The same rows in another order. *)

\* f pairs the members of S with those of T.
Matching(f, S, T) ==
  /\ \A x \in S : f[x] \in T
  /\ \A x, y \in S : f[x] = f[y] => x = y
  /\ \A t \in T : \E x \in S : f[x] = t

Permuted(a, b) ==
  /\ List(a) /\ List(b)
  /\ \E f : Matching(f, DOMAIN a, DOMAIN b) /\ \A i \in DOMAIN a : a[i] = b[f[i]]

LEMMA MatchingCounts ==
  ASSUME NEW S, IsFiniteSet(S), NEW T, NEW f, Matching(f, S, T)
  PROVE  IsFiniteSet(T) /\ Cardinality(T) = Cardinality(S)
<1> DEFINE g == [x \in S |-> f[x]]
<1>1. g \in [S -> T]
  BY DEF Matching
<1>2. \A x \in S : g[x] = f[x]
  OBVIOUS
<1> HIDE DEF g
<1>3. \A x, y \in S : g[x] = g[y] => x = y
  BY <1>2 DEF Matching
<1>4. \A t \in T : \E x \in S : g[x] = t
  BY <1>2 DEF Matching
<1>5. g \in Bijection(S, T)
  BY <1>1, <1>3, <1>4 DEF Bijection, Injection, Surjection, IsInjective
<1>6. ExistsBijection(S, T)
  BY <1>5 DEF ExistsBijection
<1> QED BY <1>6, FS_Bijection

LEMMA MatchingBack ==
  ASSUME NEW S, NEW T, NEW f, Matching(f, S, T)
  PROVE  \E g : /\ Matching(g, T, S)
                /\ \A x \in S : g[f[x]] = x
                /\ \A t \in T : f[g[t]] = t
<1> DEFINE g == [t \in T |-> CHOOSE x \in S : f[x] = t]
<1>1. \A t \in T : g[t] \in S /\ f[g[t]] = t
  BY DEF Matching
<1> HIDE DEF g
<1>2. \A x \in S : g[f[x]] = x
  BY <1>1 DEF Matching
<1>3. Matching(g, T, S)
  BY <1>1, <1>2 DEF Matching
<1> QED BY <1>1, <1>2, <1>3

LEMMA MatchingThrough ==
  ASSUME NEW S, NEW T, NEW U, NEW f, Matching(f, S, T), NEW g, Matching(g, T, U)
  PROVE  Matching([x \in S |-> g[f[x]]], S, U)
BY DEF Matching

LEMMA MatchingOf ==
  ASSUME NEW S, NEW T, NEW f, Matching(f, S, T), NEW I \in SUBSET S
  PROVE  Matching(f, I, {f[x] : x \in I})
BY DEF Matching

\* The same rows as often as each other.
LEMMA PermutedRows ==
  ASSUME NEW a, NEW b, Permuted(a, b)
  PROVE  SameRows(a, b) /\ WordsOf(a) = WordsOf(b) /\ Len(a) = Len(b)
<1>1. PICK f : Matching(f, DOMAIN a, DOMAIN b) /\ \A i \in DOMAIN a : a[i] = b[f[i]]
  BY DEF Permuted
<1>2. List(a) /\ List(b) /\ DOMAIN a = 1..Len(a) /\ DOMAIN b = 1..Len(b) /\ Len(a) \in Nat /\ Len(b) \in Nat
  BY ListFacts DEF Permuted
<1>3. IsFiniteSet(1..Len(a)) /\ Cardinality(1..Len(a)) = Len(a) /\ Cardinality(1..Len(b)) = Len(b)
  BY <1>2, UpToFinite, SMTT(40)
<1>4. Len(a) = Len(b)
  BY <1>1, <1>2, <1>3, MatchingCounts, Zenon
<1>5. WordsOf(a) = WordsOf(b)
  BY <1>1 DEF WordsOf, Matching
<1>6. ASSUME NEW x PROVE Times(a, x) = Times(b, x)
  <2> DEFINE I == {i \in DOMAIN a : a[i] = x}
             J == {i \in DOMAIN b : b[i] = x}
  <2>1. Matching(f, I, J)
    BY <1>1 DEF Matching
  <2>2. I \in SUBSET (1..Len(a))
    BY <1>2
  <2> HIDE DEF I, J
  <2>3. IsFiniteSet(I)
    BY <1>3, <2>2, FS_Subset
  <2>4. Cardinality(I) = Cardinality(J)
    BY <2>1, <2>3, MatchingCounts
  <2> QED BY <2>4 DEF Times, I, J
<1> QED BY <1>4, <1>5, <1>6 DEF SameRows

LEMMA PermutedAll ==
  /\ \A a : List(a) => Permuted(a, a)
  /\ \A a, b : Permuted(a, b) => Permuted(b, a)
  /\ \A a, b, c : Permuted(a, b) /\ Permuted(b, c) => Permuted(a, c)
<1>1. ASSUME NEW a, List(a) PROVE Permuted(a, a)
  <2> DEFINE f == [i \in DOMAIN a |-> i]
  <2>1. Matching(f, DOMAIN a, DOMAIN a) /\ \A i \in DOMAIN a : a[i] = a[f[i]]
    BY DEF Matching
  <2> HIDE DEF f
  <2> QED BY <1>1, <2>1 DEF Permuted
<1>2. ASSUME NEW a, NEW b, Permuted(a, b) PROVE Permuted(b, a)
  <2>1. PICK f : Matching(f, DOMAIN a, DOMAIN b) /\ \A i \in DOMAIN a : a[i] = b[f[i]]
    BY <1>2 DEF Permuted
  <2>2. PICK g : /\ Matching(g, DOMAIN b, DOMAIN a)
                 /\ \A i \in DOMAIN b : f[g[i]] = i
    BY <2>1, MatchingBack
  <2>3. \A i \in DOMAIN b : b[i] = a[g[i]]
    BY <2>1, <2>2 DEF Matching
  <2> QED BY <1>2, <2>2, <2>3 DEF Permuted
<1>3. ASSUME NEW a, NEW b, NEW c, Permuted(a, b), Permuted(b, c) PROVE Permuted(a, c)
  <2>1. PICK f : Matching(f, DOMAIN a, DOMAIN b) /\ \A i \in DOMAIN a : a[i] = b[f[i]]
    BY <1>3 DEF Permuted
  <2>2. PICK g : Matching(g, DOMAIN b, DOMAIN c) /\ \A i \in DOMAIN b : b[i] = c[g[i]]
    BY <1>3 DEF Permuted
  <2> DEFINE h == [i \in DOMAIN a |-> g[f[i]]]
  <2>3. Matching(h, DOMAIN a, DOMAIN c)
    BY <2>1, <2>2, MatchingThrough
  <2>4. \A i \in DOMAIN a : a[i] = c[h[i]]
    BY <2>1, <2>2 DEF Matching
  <2> HIDE DEF h
  <2> QED BY <1>3, <2>3, <2>4 DEF Permuted
<1> QED BY <1>1, <1>2, <1>3

\* Rows at places that match.
LEMMA ChosenPermuted ==
  ASSUME NEW s, List(s), NEW I \in SUBSET DOMAIN s, NEW t, List(t), NEW J \in SUBSET DOMAIN t,
         NEW f, Matching(f, I, J), NEW m, NEW k, \A i \in I : m[i] = k[f[i]]
  PROVE  Permuted(RowsAt(m, Places(I)), RowsAt(k, Places(J)))
<1> DEFINE P == Places(I)
           Q == Places(J)
<1>1. /\ List(P) /\ WordsOf(P) = I
      /\ \A i, j \in DOMAIN P : P[i] = P[j] => i = j
  BY PlacesOf
<1>2. /\ List(Q) /\ WordsOf(Q) = J
      /\ \A i, j \in DOMAIN Q : Q[i] = Q[j] => i = j
  BY PlacesOf
<1> HIDE DEF P, Q
<1>3. Matching(P, DOMAIN P, I) /\ Matching(Q, DOMAIN Q, J)
  BY <1>1, <1>2 DEF Matching, WordsOf
<1>4. PICK g : Matching(g, J, DOMAIN Q) /\ \A j \in J : Q[g[j]] = j
  BY <1>3, MatchingBack
<1> DEFINE e == [n \in DOMAIN P |-> f[P[n]]]
           h == [n \in DOMAIN P |-> g[e[n]]]
<1>5. Matching(e, DOMAIN P, J)
  BY <1>3, MatchingThrough
<1>6. \A n \in DOMAIN P : P[n] \in I /\ e[n] = f[P[n]] /\ e[n] \in J /\ h[n] = g[e[n]]
  BY <1>3, <1>5 DEF Matching
<1> HIDE DEF e
<1>7. Matching(h, DOMAIN P, DOMAIN Q)
  BY <1>4, <1>5, MatchingThrough
<1> HIDE DEF h
<1>8. /\ List(RowsAt(m, P)) /\ DOMAIN RowsAt(m, P) = DOMAIN P
      /\ \A n \in DOMAIN P : RowsAt(m, P)[n] = m[P[n]]
  BY <1>1, RowsAtHolds
<1>9. /\ List(RowsAt(k, Q)) /\ DOMAIN RowsAt(k, Q) = DOMAIN Q
      /\ \A n \in DOMAIN Q : RowsAt(k, Q)[n] = k[Q[n]]
  BY <1>2, RowsAtHolds
<1>10. \A n \in DOMAIN P : RowsAt(m, P)[n] = RowsAt(k, Q)[h[n]]
  <2> SUFFICES ASSUME NEW n \in DOMAIN P PROVE RowsAt(m, P)[n] = RowsAt(k, Q)[h[n]]
    OBVIOUS
  <2>1. h[n] \in DOMAIN Q /\ Q[h[n]] = e[n]
    BY <1>4, <1>6, <1>7 DEF Matching
  <2> QED BY <1>6, <1>8, <1>9, <2>1
<1>11. Permuted(RowsAt(m, P), RowsAt(k, Q))
  BY <1>7, <1>8, <1>9, <1>10 DEF Permuted
<1> QED BY <1>11 DEF P, Q

LEMMA ConcatPermuted ==
  ASSUME NEW a, NEW b, NEW c, NEW d, Permuted(a, c), Permuted(b, d)
  PROVE  Permuted(a \o b, c \o d)
<1>1. PICK f : Matching(f, DOMAIN a, DOMAIN c) /\ \A i \in DOMAIN a : a[i] = c[f[i]]
  BY DEF Permuted
<1>2. PICK g : Matching(g, DOMAIN b, DOMAIN d) /\ \A i \in DOMAIN b : b[i] = d[g[i]]
  BY DEF Permuted
<1> DEFINE ab == a \o b
           cd == c \o d
           la == Len(a)
           lb == Len(b)
           lc == Len(c)
           ld == Len(d)
<1>3. /\ List(a) /\ List(b) /\ List(c) /\ List(d)
      /\ la \in Nat /\ lb \in Nat /\ lc \in Nat /\ ld \in Nat
      /\ DOMAIN a = 1..la /\ DOMAIN b = 1..lb /\ DOMAIN c = 1..lc /\ DOMAIN d = 1..ld
  BY ListFacts DEF Permuted
<1>4. List(ab) /\ Len(ab) = la + lb /\ (\A i \in 1..la : ab[i] = a[i]) /\ (\A i \in 1..lb : ab[la + i] = b[i])
  BY <1>3, Concat
<1>5. List(cd) /\ Len(cd) = lc + ld /\ (\A i \in 1..lc : cd[i] = c[i]) /\ (\A i \in 1..ld : cd[lc + i] = d[i])
  BY <1>3, Concat
<1> HIDE DEF ab, cd, la, lb, lc, ld
<1>6. DOMAIN ab = 1..(la + lb) /\ DOMAIN cd = 1..(lc + ld)
  BY <1>4, <1>5, ListFacts
<1> DEFINE h == [i \in 1..(la + lb) |-> IF i <= la THEN f[i] ELSE lc + g[i - la]]
<1>7. \A i \in 1..la : h[i] = f[i] /\ f[i] \in 1..lc /\ i \in 1..(la + lb)
  BY <1>1, <1>3 DEF Matching
<1>8. \A i \in 1..lb : h[la + i] = lc + g[i] /\ g[i] \in 1..ld /\ la + i \in 1..(la + lb)
  <2> SUFFICES ASSUME NEW i \in 1..lb
               PROVE  h[la + i] = lc + g[i] /\ g[i] \in 1..ld /\ la + i \in 1..(la + lb)
    OBVIOUS
  <2>1. la + i \in 1..(la + lb) /\ ~(la + i <= la) /\ (la + i) - la = i
    BY <1>3
  <2> QED BY <1>2, <1>3, <2>1 DEF Matching
<1> HIDE DEF h
<1>9. \A i \in 1..(la + lb) : i \in 1..la \/ \E j \in 1..lb : i = la + j
  <2> SUFFICES ASSUME NEW i \in 1..(la + lb), ~(i <= la) PROVE \E j \in 1..lb : i = la + j
    BY <1>3
  <2>1. i - la \in 1..lb /\ i = la + (i - la)
    BY <1>3
  <2> QED BY <2>1
<1>10. \A i \in 1..(la + lb) : h[i] \in 1..(lc + ld) /\ ab[i] = cd[h[i]]
  <2> SUFFICES ASSUME NEW i \in 1..(la + lb) PROVE h[i] \in 1..(lc + ld) /\ ab[i] = cd[h[i]]
    OBVIOUS
  <2>1. CASE i \in 1..la
    <3>1. h[i] \in 1..lc /\ ab[i] = a[i] /\ a[i] = c[f[i]] /\ cd[h[i]] = c[h[i]]
      BY <1>1, <1>3, <1>4, <1>5, <1>7, <2>1
    <3> QED BY <1>3, <1>7, <2>1, <3>1
  <2>2. CASE \E j \in 1..lb : i = la + j
    <3>1. PICK j \in 1..lb : i = la + j
      BY <2>2
    <3>2. h[i] = lc + g[j] /\ g[j] \in 1..ld /\ ab[i] = b[j]
      BY <1>4, <1>8, <3>1
    <3>3. b[j] = d[g[j]] /\ cd[lc + g[j]] = d[g[j]]
      BY <1>2, <1>3, <1>5, <3>2
    <3> QED BY <1>3, <3>2, <3>3
  <2> QED BY <1>9, <2>1, <2>2
<1>11. \A i, j \in 1..(la + lb) : h[i] = h[j] => i = j
  <2> SUFFICES ASSUME NEW i \in 1..(la + lb), NEW j \in 1..(la + lb), h[i] = h[j] PROVE i = j
    OBVIOUS
  <2>1. CASE i \in 1..la /\ j \in 1..la
    BY <1>1, <1>3, <1>7, <2>1 DEF Matching
  <2>2. CASE (\E x \in 1..lb : i = la + x) /\ \E y \in 1..lb : j = la + y
    <3>1. PICK x \in 1..lb : i = la + x
      BY <2>2
    <3>2. PICK y \in 1..lb : j = la + y
      BY <2>2
    <3>3. lc + g[x] = lc + g[y] /\ g[x] \in 1..ld /\ g[y] \in 1..ld
      BY <1>8, <3>1, <3>2
    <3>4. g[x] = g[y]
      BY <1>3, <3>3
    <3>5. x = y
      BY <1>2, <1>3, <3>4 DEF Matching
    <3> QED BY <3>1, <3>2, <3>5
  <2>3. ASSUME NEW x \in 1..la, NEW y \in 1..lb PROVE h[x] # h[la + y]
    <3>1. h[x] \in 1..lc /\ h[la + y] = lc + g[y] /\ g[y] \in 1..ld
      BY <1>7, <1>8
    <3> QED BY <1>3, <3>1
  <2> QED BY <1>9, <2>1, <2>2, <2>3
<1>12. ASSUME NEW t \in 1..(lc + ld) PROVE \E i \in 1..(la + lb) : h[i] = t
  <2>1. CASE t <= lc
    <3>1. t \in 1..lc
      BY <1>3, <2>1
    <3>2. PICK i \in 1..la : f[i] = t
      BY <1>1, <1>3, <3>1 DEF Matching
    <3> QED BY <1>7, <3>2
  <2>2. CASE ~(t <= lc)
    <3>1. t - lc \in 1..ld /\ t = lc + (t - lc)
      BY <1>3, <2>2
    <3>2. PICK i \in 1..lb : g[i] = t - lc
      BY <1>2, <1>3, <3>1 DEF Matching
    <3> QED BY <1>8, <3>1, <3>2
  <2> QED BY <2>1, <2>2
<1>13. Matching(h, DOMAIN ab, DOMAIN cd)
  BY <1>6, <1>10, <1>11, <1>12 DEF Matching
<1>14. Permuted(ab, cd)
  BY <1>4, <1>5, <1>6, <1>10, <1>13 DEF Permuted
<1> QED BY <1>14 DEF ab, cd

LEMMA SortedPermuted ==
  ASSUME NEW rows, List(rows), \A p \in WordsOf(rows) : RowOK(p)
  PROVE  Permuted(Sorted(rows), rows) /\ \A p \in WordsOf(Sorted(rows)) : RowOK(p)
<1> DEFINE P == Ordered(DOMAIN rows, SortsBefore(rows))
           s == Sorted(rows)
<1>1. /\ StrictOrder(DOMAIN rows, SortsBefore(rows)) /\ IsFiniteSet(DOMAIN rows)
      /\ s = RowsAt(rows, P) /\ List(P) /\ WordsOf(P) = DOMAIN rows
      /\ List(s) /\ WordsOf(s) = WordsOf(rows)
  BY SortHolds
<1>2. /\ \A i, j \in 1..Cardinality(DOMAIN rows) : P[i] = P[j] => i = j
      /\ DOMAIN P = 1..Cardinality(DOMAIN rows)
  BY <1>1, OrderedLists, OrderedHolds
<1> HIDE DEF P, s
<1>3. Matching(P, DOMAIN P, DOMAIN rows)
  BY <1>1, <1>2 DEF Matching, WordsOf
<1>4. DOMAIN s = DOMAIN P /\ \A i \in DOMAIN s : s[i] = rows[P[i]]
  BY <1>1 DEF RowsAt
<1>5. Permuted(s, rows)
  BY <1>1, <1>3, <1>4 DEF Permuted
<1> QED BY <1>1, <1>5 DEF s

LEMMA ReversePermuted ==
  ASSUME NEW s, List(s)
  PROVE  /\ Permuted(s, Reverse(s))
         /\ \E f : Matching(f, DOMAIN s, DOMAIN Reverse(s)) /\ \A i \in DOMAIN s : s[i] = Reverse(s)[f[i]]
<1> DEFINE n == Len(s)
           r == Reverse(s)
           f == [i \in 1..n |-> n - i + 1]
<1>1. n \in Nat /\ DOMAIN s = 1..n
  BY ListFacts
<1>2. r = [i \in 1..n |-> s[(n - i) + 1]]
  BY DEF Reverse
<1> HIDE DEF n, r
<1>3. \A i \in 1..n : f[i] = n - i + 1 /\ f[i] \in 1..n /\ f[f[i]] = i
  BY <1>1
<1> HIDE DEF f
<1>4. Matching(f, 1..n, 1..n)
  BY <1>3 DEF Matching
<1>5. \A i \in 1..n : s[i] = r[f[i]]
  <2> SUFFICES ASSUME NEW i \in 1..n PROVE s[i] = r[f[i]]
    OBVIOUS
  <2>1. r[f[i]] = s[(n - f[i]) + 1] /\ (n - f[i]) + 1 = i
    BY <1>1, <1>2, <1>3
  <2> QED BY <2>1
<1>6. Listed(r, n) /\ DOMAIN r = 1..n
  BY <1>2 DEF Listed
<1>7. List(r)
  BY <1>1, <1>6, ListIs
<1>8. Permuted(s, r)
  BY <1>1, <1>4, <1>5, <1>6, <1>7 DEF Permuted
<1> QED BY <1>1, <1>4, <1>5, <1>6, <1>8 DEF r

-----------------------------------------------------------------------------
(* Lists that are flattened. *)

Spots(ss, n) == {p \in (1..n) \X Nat : p[2] \in DOMAIN ss[p[1]]}

\* a has the rows of the first n of ss.
Spreads(a, ss, n) ==
  /\ List(a)
  /\ \E h : Matching(h, DOMAIN a, Spots(ss, n)) /\ \A k \in DOMAIN a : a[k] = ss[h[k][1]][h[k][2]]

LEMMA SpreadFirst ==
  ASSUME NEW ss, List(ss[1])
  PROVE  Spreads(ss[1], ss, 1)
<1> DEFINE a == ss[1]
           h == [k \in DOMAIN a |-> <<1, k>>]
<1>1. DOMAIN a \subseteq Nat
  BY ListFacts
<1>2. \A k \in DOMAIN a : h[k] = <<1, k>> /\ h[k] \in Spots(ss, 1)
  BY <1>1 DEF Spots
<1>3. \A p \in Spots(ss, 1) : p[2] \in DOMAIN a /\ p = <<1, p[2]>>
  BY DEF Spots
<1> HIDE DEF h
<1>4. \A t \in Spots(ss, 1) : h[t[2]] = t
  BY <1>2, <1>3
<1>5. Matching(h, DOMAIN a, Spots(ss, 1))
  BY <1>2, <1>3, <1>4 DEF Matching
<1>6. \A k \in DOMAIN a : a[k] = ss[h[k][1]][h[k][2]]
  BY <1>2
<1> QED BY <1>5, <1>6 DEF Spreads

LEMMA SpreadMore ==
  ASSUME NEW ss, NEW n \in Nat, n > 1, NEW a, Spreads(a, ss, n - 1), List(ss[n])
  PROVE  Spreads(a \o ss[n], ss, n)
<1> DEFINE b == ss[n]
           ab == a \o b
           la == Len(a)
           lb == Len(b)
<1>1. PICK h : Matching(h, DOMAIN a, Spots(ss, n - 1)) /\ \A k \in DOMAIN a : a[k] = ss[h[k][1]][h[k][2]]
  BY DEF Spreads
<1>2. List(a) /\ List(b) /\ la \in Nat /\ lb \in Nat /\ DOMAIN a = 1..la /\ DOMAIN b = 1..lb
  BY ListFacts DEF Spreads
<1>3. List(ab) /\ Len(ab) = la + lb /\ (\A i \in 1..la : ab[i] = a[i]) /\ (\A i \in 1..lb : ab[la + i] = b[i])
  BY <1>2, Concat
<1>4. \A p : p \in Spots(ss, n) <=> p \in Spots(ss, n - 1) \/ \E j \in DOMAIN b : p = <<n, j>>
  <2>1. \A p \in Spots(ss, n - 1) : p \in Spots(ss, n)
    BY DEF Spots
  <2>2. \A j \in DOMAIN b : <<n, j>> \in Spots(ss, n)
    BY <1>2 DEF Spots
  <2>3. ASSUME NEW p \in Spots(ss, n) PROVE p \in Spots(ss, n - 1) \/ \E j \in DOMAIN b : p = <<n, j>>
    <3>1. p \in (1..n) \X Nat /\ p[2] \in DOMAIN ss[p[1]]
      BY DEF Spots
    <3>2. CASE p[1] = n
      <4>1. p = <<n, p[2]>> /\ p[2] \in DOMAIN b
        BY <3>1, <3>2
      <4> QED BY <4>1
    <3>3. CASE p[1] # n
      BY <3>1, <3>3 DEF Spots
    <3> QED BY <3>2, <3>3
  <2> QED BY <2>1, <2>2, <2>3
<1>5. \A p \in Spots(ss, n - 1) : \A j : p # <<n, j>>
  BY DEF Spots
<1>6. \A i \in 1..la : h[i] \in Spots(ss, n - 1)
  BY <1>1, <1>2 DEF Matching
<1> HIDE DEF ab, la, lb, b
<1>7. DOMAIN ab = 1..(la + lb)
  BY <1>3, ListFacts
<1> DEFINE e == [i \in 1..(la + lb) |-> IF i <= la THEN h[i] ELSE <<n, i - la>>]
<1>8. \A i \in 1..la : e[i] = h[i] /\ i \in 1..(la + lb)
  BY <1>2
<1>9. \A j \in 1..lb : e[la + j] = <<n, j>> /\ la + j \in 1..(la + lb)
  <2> SUFFICES ASSUME NEW j \in 1..lb PROVE e[la + j] = <<n, j>> /\ la + j \in 1..(la + lb)
    OBVIOUS
  <2>1. la + j \in 1..(la + lb) /\ ~(la + j <= la) /\ (la + j) - la = j
    BY <1>2
  <2> QED BY <2>1
<1> HIDE DEF e
<1>10. \A i \in 1..(la + lb) : i \in 1..la \/ \E j \in 1..lb : i = la + j
  <2> SUFFICES ASSUME NEW i \in 1..(la + lb), ~(i <= la) PROVE \E j \in 1..lb : i = la + j
    BY <1>2
  <2>1. i - la \in 1..lb /\ i = la + (i - la)
    BY <1>2
  <2> QED BY <2>1
<1>11. \A i \in 1..(la + lb) : e[i] \in Spots(ss, n) /\ ab[i] = ss[e[i][1]][e[i][2]]
  <2> SUFFICES ASSUME NEW i \in 1..(la + lb) PROVE e[i] \in Spots(ss, n) /\ ab[i] = ss[e[i][1]][e[i][2]]
    OBVIOUS
  <2>1. CASE i \in 1..la
    BY <1>1, <1>2, <1>3, <1>4, <1>6, <1>8, <2>1
  <2>2. CASE \E j \in 1..lb : i = la + j
    <3>1. PICK j \in 1..lb : i = la + j
      BY <2>2
    <3>2. e[i] = <<n, j>> /\ ab[i] = b[j] /\ j \in DOMAIN b
      BY <1>2, <1>3, <1>9, <3>1
    <3>3. <<n, j>>[1] = n /\ <<n, j>>[2] = j
      OBVIOUS
    <3> QED BY <1>4, <3>2, <3>3 DEF b
  <2> QED BY <1>10, <2>1, <2>2
<1>12. \A i, j \in 1..(la + lb) : e[i] = e[j] => i = j
  <2> SUFFICES ASSUME NEW i \in 1..(la + lb), NEW j \in 1..(la + lb), e[i] = e[j] PROVE i = j
    OBVIOUS
  <2>1. CASE i \in 1..la /\ j \in 1..la
    BY <1>1, <1>2, <1>8, <2>1 DEF Matching
  <2>2. CASE (\E x \in 1..lb : i = la + x) /\ \E y \in 1..lb : j = la + y
    <3>1. PICK x \in 1..lb : i = la + x
      BY <2>2
    <3>2. PICK y \in 1..lb : j = la + y
      BY <2>2
    <3>3. <<n, x>> = <<n, y>>
      BY <1>9, <3>1, <3>2
    <3>4. <<n, x>>[2] = x /\ <<n, y>>[2] = y
      OBVIOUS
    <3> QED BY <3>1, <3>2, <3>3, <3>4
  <2>3. ASSUME NEW x \in 1..la, NEW y \in 1..lb PROVE e[x] # e[la + y]
    BY <1>5, <1>6, <1>8, <1>9
  <2> QED BY <1>10, <2>1, <2>2, <2>3
<1>13. ASSUME NEW t \in Spots(ss, n) PROVE \E i \in 1..(la + lb) : e[i] = t
  <2>1. CASE t \in Spots(ss, n - 1)
    <3>1. PICK i \in 1..la : h[i] = t
      BY <1>1, <1>2, <2>1 DEF Matching
    <3> QED BY <1>8, <3>1
  <2>2. CASE \E j \in DOMAIN b : t = <<n, j>>
    BY <1>2, <1>9, <2>2
  <2> QED BY <1>4, <2>1, <2>2
<1>14. Matching(e, DOMAIN ab, Spots(ss, n))
  BY <1>7, <1>11, <1>12, <1>13 DEF Matching
<1>15. Spreads(ab, ss, n)
  BY <1>3, <1>7, <1>11, <1>14 DEF Spreads
<1> QED BY <1>15 DEF ab, b

LEMMA FlattenSpreads ==
  ASSUME NEW ss, List(ss), Len(ss) # 0, \A i \in DOMAIN ss : List(ss[i])
  PROVE  Spreads(FlattenSeq(ss), ss, Len(ss))
<1> DEFINE n == Len(ss)
<1>1. n \in Nat /\ n # 0 /\ DOMAIN ss = 1..n
  BY ListFacts
<1>2. PICK f : /\ FlattenSeq(ss) = f[n]
               /\ \A i \in 1..n : f[i] = IF i = 1 THEN ss[i] ELSE f[i - 1] \o ss[i]
  BY <1>1, FlattenSteps
<1> HIDE DEF n
<1> DEFINE S == {i \in 0..n : i # 0 => Spreads(f[i], ss, i)}
<1>3. 0 \in S
  BY <1>1
<1>4. ASSUME NEW i \in 1..n, i - 1 \in S PROVE i \in S
  <2>1. CASE i = 1
    <3>1. f[1] = ss[1] /\ List(ss[1])
      BY <1>1, <1>2, <2>1
    <3> QED BY <1>1, <2>1, <3>1, SpreadFirst
  <2>2. CASE i # 1
    <3>1. i \in Nat /\ i > 1 /\ i - 1 # 0
      BY <1>1, <2>2
    <3>2. Spreads(f[i - 1], ss, i - 1)
      BY <1>4, <3>1
    <3>3. f[i] = f[i - 1] \o ss[i] /\ List(ss[i])
      BY <1>1, <1>2, <2>2
    <3>4. Spreads(f[i], ss, i)
      BY <3>1, <3>2, <3>3, SpreadMore
    <3> QED BY <1>1, <3>4
  <2> QED BY <2>1, <2>2
<1> HIDE DEF S
<1>5. n \in S
  <2>1. 0..n \subseteq S
    BY <1>1, <1>3, <1>4, UpTo
  <2> QED BY <1>1, <2>1
<1>6. Spreads(f[n], ss, n)
  BY <1>1, <1>5 DEF S
<1> QED BY <1>2, <1>6 DEF n

\* Lists that match, each the same in some order, are flattened to the same.
LEMMA FlattenPermuted ==
  ASSUME NEW ss, List(ss), Len(ss) # 0, NEW tt, List(tt),
         NEW f, Matching(f, DOMAIN ss, DOMAIN tt), \A i \in DOMAIN ss : Permuted(ss[i], tt[f[i]])
  PROVE  Permuted(FlattenSeq(ss), FlattenSeq(tt))
<1> DEFINE n == Len(ss)
           a == FlattenSeq(ss)
           b == FlattenSeq(tt)
<1>1. n \in Nat /\ n # 0 /\ DOMAIN ss = 1..n /\ Len(tt) \in Nat /\ DOMAIN tt = 1..Len(tt)
  BY ListFacts, SMTT(40)
<1>2. Len(tt) = n
  BY <1>1, UpToFinite, MatchingCounts, Zenon
<1>3. \A i \in DOMAIN ss : List(ss[i]) /\ List(tt[f[i]])
  BY DEF Permuted
<1>4. \A i \in DOMAIN tt : List(tt[i])
  BY <1>3 DEF Matching
<1>5. Spreads(a, ss, n)
  BY <1>3, FlattenSpreads
<1>6. Spreads(b, tt, n)
  BY <1>1, <1>2, <1>4, FlattenSpreads
<1> HIDE DEF n, a, b
<1>7. PICK g : Matching(g, DOMAIN a, Spots(ss, n)) /\ \A k \in DOMAIN a : a[k] = ss[g[k][1]][g[k][2]]
  BY <1>5 DEF Spreads
<1>8. PICK h : Matching(h, DOMAIN b, Spots(tt, n)) /\ \A k \in DOMAIN b : b[k] = tt[h[k][1]][h[k][2]]
  BY <1>6 DEF Spreads
<1> DEFINE Turns(i, x) == Matching(x, DOMAIN ss[i], DOMAIN tt[f[i]]) /\ \A j \in DOMAIN ss[i] : ss[i][j] = tt[f[i]][x[j]]
           at == [i \in 1..n |-> CHOOSE x : Turns(i, x)]
<1>9. ASSUME NEW i \in 1..n PROVE Turns(i, at[i])
  <2>1. \E x : Turns(i, x)
    BY <1>1 DEF Permuted
  <2> QED BY <2>1
<1> HIDE DEF at
<1>10. \A i \in 1..n : /\ Matching(at[i], DOMAIN ss[i], DOMAIN tt[f[i]])
                       /\ \A j \in DOMAIN ss[i] : ss[i][j] = tt[f[i]][at[i][j]]
  BY <1>9
<1> HIDE DEF Turns
<1>11. Matching(f, 1..n, 1..n)
  BY <1>1, <1>2
<1> DEFINE e == [p \in Spots(ss, n) |-> <<f[p[1]], at[p[1]][p[2]]>>]
<1>12. \A p \in Spots(ss, n) : p[1] \in 1..n /\ p[2] \in DOMAIN ss[p[1]] /\ p = <<p[1], p[2]>>
  BY DEF Spots
<1>13. \A p \in Spots(tt, n) : p[1] \in 1..n /\ p[2] \in DOMAIN tt[p[1]] /\ p = <<p[1], p[2]>>
  BY DEF Spots
<1>14. \A i \in 1..n : (DOMAIN ss[i]) \subseteq Nat /\ (DOMAIN tt[i]) \subseteq Nat
  BY <1>1, <1>2, <1>3, <1>4, ListFacts
<1>15. ASSUME NEW p \in Spots(ss, n)
       PROVE  /\ e[p] \in Spots(tt, n) /\ e[p][1] = f[p[1]] /\ e[p][2] = at[p[1]][p[2]]
              /\ ss[p[1]][p[2]] = tt[e[p][1]][e[p][2]]
  <2>1. e[p] = <<f[p[1]], at[p[1]][p[2]]>>
    OBVIOUS
  <2> HIDE DEF e
  <2>2. f[p[1]] \in 1..n /\ at[p[1]][p[2]] \in DOMAIN tt[f[p[1]]]
    BY <1>10, <1>11, <1>12, SMTT(40) DEF Matching
  <2>3. at[p[1]][p[2]] \in Nat
    BY <1>14, <2>2
  <2>4. e[p][1] = f[p[1]] /\ e[p][2] = at[p[1]][p[2]]
    BY <2>1
  <2>5. e[p] \in Spots(tt, n)
    BY <2>1, <2>2, <2>3 DEF Spots
  <2> QED BY <1>10, <1>12, <2>4, <2>5
<1> HIDE DEF e
<1>16. ASSUME NEW p \in Spots(ss, n), NEW q \in Spots(ss, n), e[p] = e[q] PROVE p = q
  <2>1. f[p[1]] = f[q[1]] /\ at[p[1]][p[2]] = at[q[1]][q[2]]
    BY <1>15, <1>16
  <2>2. p[1] = q[1]
    <3>1. \A x, y \in 1..n : f[x] = f[y] => x = y
      BY <1>11 DEF Matching
    <3>2. p[1] \in 1..n /\ q[1] \in 1..n
      BY <1>12
    <3> QED BY <2>1, <3>1, <3>2
  <2>3. p[2] = q[2]
    BY <1>10, <1>12, <2>1, <2>2 DEF Matching
  <2> QED BY <1>12, <2>2, <2>3
<1>17. ASSUME NEW t \in Spots(tt, n) PROVE \E p \in Spots(ss, n) : e[p] = t
  <2>1. t[1] \in 1..n /\ t[2] \in DOMAIN tt[t[1]] /\ t = <<t[1], t[2]>>
    BY <1>13
  <2>2. PICK i \in 1..n : f[i] = t[1]
    BY <1>11, <2>1 DEF Matching
  <2>3. PICK j \in DOMAIN ss[i] : at[i][j] = t[2]
    BY <1>10, <2>1, <2>2, SMTT(40) DEF Matching
  <2> DEFINE p == <<i, j>>
  <2>4. p[1] = i /\ p[2] = j /\ j \in Nat
    BY <1>14
  <2>5. p \in Spots(ss, n)
    BY <2>4 DEF Spots
  <2> HIDE DEF p
  <2>6. e[p] \in Spots(tt, n) /\ e[p][1] = t[1] /\ e[p][2] = t[2]
    BY <1>15, <2>2, <2>3, <2>4, <2>5
  <2>7. e[p] = <<e[p][1], e[p][2]>>
    BY <1>13, <2>6
  <2> QED BY <2>1, <2>5, <2>6, <2>7
<1>18. Matching(e, Spots(ss, n), Spots(tt, n))
  BY <1>15, <1>16, <1>17 DEF Matching
<1>19. PICK back : Matching(back, Spots(tt, n), DOMAIN b) /\ \A t \in Spots(tt, n) : h[back[t]] = t
  BY <1>8, MatchingBack
<1> DEFINE u == [k \in DOMAIN a |-> e[g[k]]]
           w == [k \in DOMAIN a |-> back[u[k]]]
<1>20. Matching(u, DOMAIN a, Spots(tt, n))
  BY <1>7, <1>18, MatchingThrough
<1>21. \A k \in DOMAIN a : u[k] = e[g[k]] /\ w[k] = back[u[k]]
  OBVIOUS
<1> HIDE DEF u
<1>22. Matching(w, DOMAIN a, DOMAIN b)
  BY <1>19, <1>20, MatchingThrough
<1> HIDE DEF w
<1>23. ASSUME NEW k \in DOMAIN a PROVE a[k] = b[w[k]]
  <2>1. g[k] \in Spots(ss, n) /\ u[k] \in Spots(tt, n) /\ w[k] \in DOMAIN b
    BY <1>7, <1>20, <1>22 DEF Matching
  <2>2. h[w[k]] = u[k] /\ u[k] = e[g[k]]
    BY <1>19, <1>21, <2>1
  <2>3. b[w[k]] = tt[u[k][1]][u[k][2]]
    BY <1>8, <2>1, <2>2
  <2>4. a[k] = ss[g[k][1]][g[k][2]]
    BY <1>7
  <2> QED BY <1>15, <2>1, <2>2, <2>3, <2>4
<1>24. Permuted(a, b)
  BY <1>5, <1>6, <1>22, <1>23 DEF Permuted, Spreads
<1> QED BY <1>24 DEF a, b

-----------------------------------------------------------------------------
(* What is merged does not depend on the order. *)

LEMMA UnionOfSame ==
  ASSUME NEW ss, List(ss), \A i \in DOMAIN ss : List(ss[i]),
         NEW tt, List(tt), \A i \in DOMAIN tt : List(tt[i]),
         UNION {WordsOf(ss[i]) : i \in DOMAIN ss} = UNION {WordsOf(tt[i]) : i \in DOMAIN tt}
  PROVE  UnionRels(ss) = UnionRels(tt)
<1> DEFINE a == FlattenSeq(ss)
           b == FlattenSeq(tt)
           refs(all, c) == UnionRefs(UNION {all[i].refs : i \in {i \in DOMAIN all : all[i].code = c}})
           of(all, c) == UnionRefs(UNION {x.refs : x \in {x \in WordsOf(all) : x.code = c}})
           list(all) == InOrder(CodeOrder, Codes(all))
<1>1. /\ UnionRels(ss) = [n \in DOMAIN list(a) |-> [code |-> list(a)[n], refs |-> refs(a, list(a)[n])]]
      /\ UnionRels(tt) = [n \in DOMAIN list(b) |-> [code |-> list(b)[n], refs |-> refs(b, list(b)[n])]]
  BY DEF UnionRels, Mapped
<1>2. WordsOf(a) = UNION {WordsOf(ss[i]) : i \in DOMAIN ss} /\ WordsOf(b) = UNION {WordsOf(tt[i]) : i \in DOMAIN tt}
  BY FlattenList
<1> HIDE DEF a, b
<1>3. WordsOf(a) = WordsOf(b)
  BY <1>2
<1>4. ASSUME NEW all, NEW c PROVE refs(all, c) = of(all, c)
  <2>1. UNION {all[i].refs : i \in {i \in DOMAIN all : all[i].code = c}}
        = UNION {x.refs : x \in {x \in WordsOf(all) : x.code = c}}
    BY DEF WordsOf
  <2> QED BY <2>1
<1>5. \A c : of(a, c) = of(b, c)
  BY <1>3
<1>6. Codes(a) = Codes(b)
  <2>1. \A all : Codes(all) = {x.code : x \in WordsOf(all)} \ {NoText}
    BY DEF Codes, WordsOf
  <2> QED BY <1>3, <2>1
<1>7. list(a) = list(b)
  BY <1>6
<1> HIDE DEF refs, of, list
<1>8. \A c : refs(a, c) = refs(b, c)
  BY <1>4, <1>5
<1> QED BY <1>1, <1>7, <1>8

LEMMA MergeOfSame ==
  ASSUME NEW g, List(g), NEW h, List(h), WordsOf(g) = WordsOf(h), \A p \in WordsOf(g) : RowShape(p),
         NEW name, NEW customer, NEW start, NEW end
  PROVE  MergeRows(g, name, customer, start, end) = MergeRows(h, name, customer, start, end)
<1> DEFINE rels(rows, kind) == [i \in DOMAIN rows |-> rows[i].rels[kind]]
<1>1. AllRefs(g) = AllRefs(h)
  <2>1. \A rows : AllRefs(rows) = UNION {x.refs : x \in WordsOf(rows)}
    BY DEF AllRefs, WordsOf
  <2> QED BY <2>1
<1>2. ASSUME NEW kind \in Kinds PROVE UnionRels(rels(g, kind)) = UnionRels(rels(h, kind))
  <2>1. ASSUME NEW rows, List(rows), WordsOf(rows) = WordsOf(g)
        PROVE  /\ List(rels(rows, kind)) /\ \A i \in DOMAIN rels(rows, kind) : List(rels(rows, kind)[i])
               /\ UNION {WordsOf(rels(rows, kind)[i]) : i \in DOMAIN rels(rows, kind)}
                  = UNION {WordsOf(x.rels[kind]) : x \in WordsOf(g)}
    <3> DEFINE r == rels(rows, kind)
    <3>1. r = [i \in DOMAIN rows |-> r[i]] /\ \A i \in DOMAIN rows : r[i] = rows[i].rels[kind]
      OBVIOUS
    <3> HIDE DEF r
    <3>2. List(r) /\ DOMAIN r = DOMAIN rows
      BY <2>1, <3>1, ListLike
    <3>3. \A i \in DOMAIN rows : rows[i] \in WordsOf(g)
      BY <2>1 DEF WordsOf
    <3>4. \A i \in DOMAIN r : List(r[i])
      BY <3>1, <3>2, <3>3 DEF RowShape
    <3>5. \A x \in WordsOf(g) : \E i \in DOMAIN r : r[i] = x.rels[kind]
      <4> SUFFICES ASSUME NEW x \in WordsOf(g) PROVE \E i \in DOMAIN r : r[i] = x.rels[kind]
        OBVIOUS
      <4>1. PICK i \in DOMAIN rows : rows[i] = x
        BY <2>1 DEF WordsOf
      <4> QED BY <3>1, <3>2, <4>1
    <3>6. UNION {WordsOf(r[i]) : i \in DOMAIN r} = UNION {WordsOf(x.rels[kind]) : x \in WordsOf(g)}
      <4> DEFINE A == UNION {WordsOf(r[i]) : i \in DOMAIN r}
                 B == UNION {WordsOf(x.rels[kind]) : x \in WordsOf(g)}
      <4>1. ASSUME NEW y \in A PROVE y \in B
        <5>1. PICK i \in DOMAIN r : y \in WordsOf(r[i])
          OBVIOUS
        <5> QED BY <3>1, <3>2, <3>3, <5>1
      <4>2. ASSUME NEW y \in B PROVE y \in A
        <5>1. PICK x \in WordsOf(g) : y \in WordsOf(x.rels[kind])
          OBVIOUS
        <5> QED BY <3>5, <5>1
      <4> HIDE DEF A, B
      <4>3. A = B
        BY <4>1, <4>2
      <4> QED BY <4>3 DEF A, B
    <3> QED BY <3>2, <3>4, <3>6 DEF r
  <2> DEFINE rg == rels(g, kind)
             rh == rels(h, kind)
  <2>4. /\ List(rg) /\ (\A i \in DOMAIN rg : List(rg[i]))
        /\ UNION {WordsOf(rg[i]) : i \in DOMAIN rg} = UNION {WordsOf(x.rels[kind]) : x \in WordsOf(g)}
    BY <2>1
  <2>5. /\ List(rh) /\ (\A i \in DOMAIN rh : List(rh[i]))
        /\ UNION {WordsOf(rh[i]) : i \in DOMAIN rh} = UNION {WordsOf(x.rels[kind]) : x \in WordsOf(g)}
    BY <2>1
  <2> HIDE DEF rg, rh
  <2>3. UnionRels(rg) = UnionRels(rh)
    BY <2>4, <2>5, UnionOfSame
  <2> QED BY <2>3 DEF rg, rh
<1>3. /\ MergeRows(g, name, customer, start, end)
         = [name |-> name, customer |-> customer, start |-> start, end |-> end,
            refs |-> UnionRefs(AllRefs(g)), rels |-> [kind \in Kinds |-> UnionRels(rels(g, kind))]]
      /\ MergeRows(h, name, customer, start, end)
         = [name |-> name, customer |-> customer, start |-> start, end |-> end,
            refs |-> UnionRefs(AllRefs(h)), rels |-> [kind \in Kinds |-> UnionRels(rels(h, kind))]]
  BY DEF MergeRows
<1> HIDE DEF rels
<1>4. [kind \in Kinds |-> UnionRels(rels(g, kind))] = [kind \in Kinds |-> UnionRels(rels(h, kind))]
  BY <1>2
<1> QED BY <1>1, <1>3, <1>4

LEMMA IdentityIs ==
  ASSUME NEW p, NEW q, IdentityKey(p) # NoKey, IdentityKey(p) = IdentityKey(q)
  PROVE  p.name = q.name /\ p.customer = q.customer /\ p.start = q.start /\ p.end = q.end
<1>1. \A x : IdentityKey(x) = <<>> \/ IdentityKey(x) = <<x.name, x.customer, x.start, x.end>>
  BY DEF IdentityKey, NoKey
<1>2. IdentityKey(p) = <<p.name, p.customer, p.start, p.end>>
      /\ IdentityKey(q) = <<q.name, q.customer, q.start, q.end>>
  BY <1>1 DEF NoKey
<1> DEFINE a == <<p.name, p.customer, p.start, p.end>>
           b == <<q.name, q.customer, q.start, q.end>>
<1>3. a[1] = p.name /\ a[2] = p.customer /\ a[3] = p.start /\ a[4] = p.end
  OBVIOUS
<1>4. b[1] = q.name /\ b[2] = q.customer /\ b[3] = q.start /\ b[4] = q.end
  OBVIOUS
<1>5. a = b
  BY <1>2
<1> HIDE DEF a, b
<1> QED BY <1>3, <1>4, <1>5

LEMMA SameOfSame ==
  ASSUME NEW g, List(g), NEW h, List(h), WordsOf(g) = WordsOf(h), Len(g) = Len(h), 1 \in DOMAIN g,
         \A p \in WordsOf(g) : RowShape(p),
         \A p, q \in WordsOf(g) : IdentityKey(p) # NoKey /\ IdentityKey(p) = IdentityKey(q)
  PROVE  MergeSame(g) = MergeSame(h)
<1>1. DOMAIN g = 1..Len(g) /\ DOMAIN h = 1..Len(g) /\ Len(g) \in Nat
  BY ListFacts
<1>2. g[1] \in WordsOf(g) /\ h[1] \in WordsOf(g)
  BY <1>1 DEF WordsOf
<1>3. CASE Len(g) = 1
  <2>1. \A x \in WordsOf(g) : x = g[1]
    BY <1>1, <1>3 DEF WordsOf
  <2>2. g[1] = h[1]
    BY <1>2, <2>1
  <2> QED BY <1>3, <2>2 DEF MergeSame
<1>4. CASE Len(g) # 1
  <2> DEFINE p == g[1]
             q == h[1]
  <2>1. p.name = q.name /\ p.customer = q.customer /\ p.start = q.start /\ p.end = q.end
    BY <1>2, IdentityIs
  <2>2. MergeSame(g) = MergeRows(g, p.name, p.customer, p.start, p.end)
    BY <1>4 DEF MergeSame
  <2>3. MergeSame(h) = MergeRows(h, q.name, q.customer, q.start, q.end)
    BY <1>4 DEF MergeSame
  <2> HIDE DEF p, q
  <2>4. MergeRows(g, p.name, p.customer, p.start, p.end) = MergeRows(h, p.name, p.customer, p.start, p.end)
    BY MergeOfSame
  <2> QED BY <2>1, <2>2, <2>3, <2>4
<1> QED BY <1>3, <1>4

\* The heads of the groups match, and so do the rows of a group.
LEMMA HeadsMatch ==
  ASSUME NEW rows, List(rows), NEW others, List(others), NEW f, Matching(f, DOMAIN rows, DOMAIN others),
         NEW key, NEW keys, \A i \in DOMAIN rows : key[i] = keys[f[i]]
  PROVE  \E g : /\ Matching(g, Heads(rows, key), Heads(others, keys))
                /\ \A h \in Heads(rows, key) : keys[g[h]] = key[h]
<1> DEFINE H == Heads(rows, key)
           K == Heads(others, keys)
<1>1. ASSUME NEW s, List(s), NEW k, NEW a \in Heads(s, k), NEW b \in Heads(s, k), k[a] = k[b] PROVE a = b
  <2>1. a \in DOMAIN s /\ b \in DOMAIN s /\ ~(a < b) /\ ~(b < a)
    BY <1>1 DEF Heads
  <2>2. a \in Nat /\ b \in Nat
    BY <1>1, <2>1, ListFacts
  <2> QED BY <2>1, <2>2
<1>2. ASSUME NEW h \in H PROVE \E k \in K : keys[k] = key[h]
  <2>1. h \in DOMAIN rows /\ key[h] # NoKey
    BY DEF Heads
  <2>2. f[h] \in DOMAIN others /\ keys[f[h]] = key[h]
    BY <2>1 DEF Matching
  <2> QED BY <2>1, <2>2, GroupsOf
<1>3. ASSUME NEW k \in K PROVE \E h \in H : key[h] = keys[k]
  <2>1. k \in DOMAIN others /\ keys[k] # NoKey
    BY DEF Heads
  <2>2. PICK i \in DOMAIN rows : f[i] = k
    BY <2>1 DEF Matching
  <2>3. key[i] = keys[k] /\ key[i] # NoKey
    BY <2>1, <2>2
  <2>4. PICK h \in H : key[h] = key[i]
    BY <2>3, GroupsOf
  <2> QED BY <2>3, <2>4
<1>4. \A a, b \in H : key[a] = key[b] => a = b
  BY <1>1
<1>5. \A a, b \in K : keys[a] = keys[b] => a = b
  BY <1>1
<1> HIDE DEF H, K
<1> DEFINE g == [h \in H |-> CHOOSE k \in K : keys[k] = key[h]]
<1>6. \A h \in H : g[h] \in K /\ keys[g[h]] = key[h]
  BY <1>2
<1> HIDE DEF g
<1>7. \A k \in K : \E h \in H : g[h] = k
  <2> SUFFICES ASSUME NEW k \in K PROVE \E h \in H : g[h] = k
    OBVIOUS
  <2>1. PICK h \in H : key[h] = keys[k]
    BY <1>3
  <2> QED BY <1>5, <1>6, <2>1
<1>8. \A a, b \in H : g[a] = g[b] => a = b
  BY <1>4, <1>6
<1>9. Matching(g, H, K)
  BY <1>6, <1>7, <1>8 DEF Matching
<1> QED BY <1>6, <1>9 DEF H, K

LEMMA GroupsMatch ==
  ASSUME NEW rows, List(rows), NEW others, List(others), NEW f, Matching(f, DOMAIN rows, DOMAIN others),
         \A i \in DOMAIN rows : rows[i] = others[f[i]],
         NEW key, NEW keys, \A i \in DOMAIN rows : key[i] = keys[f[i]],
         NEW h \in Heads(rows, key), NEW k \in Heads(others, keys), keys[k] = key[h]
  PROVE  LET a == Group(rows, key, h)
             b == Group(others, keys, k)
         IN  List(a) /\ List(b) /\ WordsOf(a) = WordsOf(b) /\ Len(a) = Len(b) /\ 1 \in DOMAIN a
<1> DEFINE I == Alike(rows, key, h)
           J == Alike(others, keys, k)
           a == Group(rows, key, h)
           b == Group(others, keys, k)
<1>1. List(a) /\ 1 \in DOMAIN a /\ WordsOf(a) = {rows[j] : j \in I}
  BY GroupsOf
<1>2. List(b) /\ WordsOf(b) = {others[j] : j \in J}
  BY GroupsOf
<1>3. Matching(f, I, J)
  <2>1. \A i \in DOMAIN rows : i \in I <=> f[i] \in J
    BY DEF Alike, Matching
  <2>2. I \subseteq DOMAIN rows /\ J \subseteq DOMAIN others
    BY DEF Alike
  <2> HIDE DEF I, J
  <2> QED BY <2>1, <2>2 DEF Matching
<1>4. I \in SUBSET DOMAIN rows /\ J \in SUBSET DOMAIN others
  BY DEF Alike
<1>5. a = RowsAt(rows, Places(I)) /\ b = RowsAt(others, Places(J))
  BY DEF Group
<1> HIDE DEF I, J, a, b
<1>6. IsFiniteSet(I) /\ DOMAIN Places(I) = 1..Cardinality(I) /\ Cardinality(I) \in Nat /\ List(Places(I))
  BY <1>4, PlacesOf
<1>7. DOMAIN Places(J) = 1..Cardinality(J) /\ List(Places(J))
  BY <1>4, PlacesOf
<1>8. Cardinality(J) = Cardinality(I)
  BY <1>3, <1>6, MatchingCounts
<1>9. DOMAIN a = DOMAIN b
  BY <1>5, <1>6, <1>7, <1>8, RowsAtHolds
<1>10. Len(a) = Len(b)
  BY <1>1, <1>2, <1>9, ListFacts
<1>11. WordsOf(a) = WordsOf(b)
  <2>1. \A i \in I : rows[i] = others[f[i]] /\ f[i] \in J
    BY <1>3, <1>4 DEF Matching
  <2>2. \A j \in J : \E i \in I : rows[i] = others[j]
    BY <1>3, <2>1 DEF Matching
  <2> QED BY <1>1, <1>2, <2>1, <2>2
<1> QED BY <1>1, <1>2, <1>10, <1>11 DEF a, b

LEMMA IdentityPermuted ==
  ASSUME NEW rows, NEW others, Permuted(rows, others), \A p \in WordsOf(rows) : RowOK(p)
  PROVE  Permuted(IdentityMerge(rows), IdentityMerge(others))
<1> DEFINE key == IdentityKeys(rows)
           keys == IdentityKeys(others)
           H == Heads(rows, key)
           K == Heads(others, keys)
           I == {i \in DOMAIN rows : IdentityKey(rows[i]) = NoKey}
           J == {i \in DOMAIN others : IdentityKey(others[i]) = NoKey}
           m == SameHeads(rows)
           k == SameHeads(others)
<1>1. PICK f : Matching(f, DOMAIN rows, DOMAIN others) /\ \A i \in DOMAIN rows : rows[i] = others[f[i]]
  BY DEF Permuted
<1>2. List(rows) /\ List(others)
  BY DEF Permuted
<1>3. IdentityMerge(rows) = RowsAt(m, Places(H)) \o RowsAt(rows, Places(I))
  BY <1>2, IdentityGrouped DEF IdentityMerge, Keyless, Kept
<1>4. IdentityMerge(others) = RowsAt(k, Places(K)) \o RowsAt(others, Places(J))
  BY <1>2, IdentityGrouped DEF IdentityMerge, Keyless, Kept
<1>5. \A i \in DOMAIN rows : key[i] = IdentityKey(rows[i])
  BY DEF IdentityKeys
<1>6. \A i \in DOMAIN others : keys[i] = IdentityKey(others[i])
  BY DEF IdentityKeys
<1>7. H \in SUBSET DOMAIN rows /\ K \in SUBSET DOMAIN others
  BY DEF Heads
<1>8. \A h \in DOMAIN rows : m[h] = MergeSame(Group(rows, key, h))
  BY DEF SameHeads
<1>9. \A h \in DOMAIN others : k[h] = MergeSame(Group(others, keys, h))
  BY DEF SameHeads
<1> HIDE DEF key, keys, m, k
<1>10. \A i \in DOMAIN rows : key[i] = keys[f[i]]
  BY <1>1, <1>5, <1>6 DEF Matching
<1>11. PICK g : Matching(g, H, K) /\ \A h \in H : keys[g[h]] = key[h]
  BY <1>1, <1>2, <1>10, HeadsMatch
<1>12. ASSUME NEW h \in H PROVE m[h] = k[g[h]]
  <2> DEFINE a == Group(rows, key, h)
             b == Group(others, keys, g[h])
  <2>1. h \in DOMAIN rows /\ g[h] \in K /\ g[h] \in DOMAIN others /\ keys[g[h]] = key[h]
    BY <1>7, <1>11 DEF Matching
  <2>2. List(a) /\ List(b) /\ WordsOf(a) = WordsOf(b) /\ Len(a) = Len(b) /\ 1 \in DOMAIN a
    BY <1>1, <1>2, <1>10, <2>1, GroupsMatch
  <2>3. WordsOf(a) = {rows[j] : j \in Alike(rows, key, h)} /\ WordsOf(a) \subseteq WordsOf(rows)
    BY <1>2, GroupsOf
  <2>4. \A p, q \in WordsOf(a) : IdentityKey(p) # NoKey /\ IdentityKey(p) = IdentityKey(q)
    <3>1. \A j \in Alike(rows, key, h) : IdentityKey(rows[j]) = key[h]
      BY <1>5 DEF Alike
    <3>2. key[h] # NoKey
      BY DEF Heads
    <3> HIDE DEF a, H
    <3> QED BY <2>3, <3>1, <3>2
  <2>5. \A p \in WordsOf(a) : RowShape(p)
    BY <2>3 DEF RowOK
  <2>6. m[h] = MergeSame(a) /\ k[g[h]] = MergeSame(b)
    BY <1>8, <1>9, <2>1
  <2> HIDE DEF a, b, H, K
  <2> QED BY <2>2, <2>4, <2>5, <2>6, SameOfSame
<1>13. Matching(f, I, J)
  <2>1. \A i \in DOMAIN rows : i \in I <=> f[i] \in J
    BY <1>1 DEF Matching
  <2>2. I \subseteq DOMAIN rows /\ J \subseteq DOMAIN others
    OBVIOUS
  <2> HIDE DEF I, J
  <2> QED BY <1>1, <2>1, <2>2 DEF Matching
<1>14. I \in SUBSET DOMAIN rows /\ J \in SUBSET DOMAIN others
  OBVIOUS
<1> HIDE DEF H, K, I, J
<1>15. Permuted(RowsAt(m, Places(H)), RowsAt(k, Places(K)))
  BY <1>2, <1>7, <1>11, <1>12, ChosenPermuted
<1>16. \A i \in I : rows[i] = others[f[i]]
  BY <1>1, <1>14
<1>17. Permuted(RowsAt(rows, Places(I)), RowsAt(others, Places(J)))
  BY <1>2, <1>13, <1>14, <1>16, ChosenPermuted
<1> QED BY <1>3, <1>4, <1>15, <1>17, ConcatPermuted

-----------------------------------------------------------------------------
(* Certificates and profiles, whatever the order. *)

\* b has the rows of a, the one at i at f[i].
Turned(f, a, b) ==
  /\ List(a) /\ List(b) /\ Matching(f, DOMAIN a, DOMAIN b) /\ \A i \in DOMAIN a : a[i] = b[f[i]]

\* T has the places to which those of S go.
Follow(f, a, b, S, T) ==
  /\ S \in SUBSET DOMAIN a /\ T \in SUBSET DOMAIN b
  /\ \A i \in DOMAIN a : i \in S <=> f[i] \in T

LEMMA FollowMatches ==
  ASSUME NEW f, NEW a, NEW b, Turned(f, a, b), NEW S, NEW T, Follow(f, a, b, S, T)
  PROVE  /\ Matching(f, S, T) /\ IsFiniteSet(S) /\ IsFiniteSet(T) /\ Cardinality(T) = Cardinality(S)
         /\ Permuted(RowsAt(a, Places(S)), RowsAt(b, Places(T)))
<1>1. Matching(f, S, T)
  BY DEF Follow, Turned, Matching
<1>2. IsFiniteSet(S)
  BY PlacesOf DEF Follow, Turned
<1>3. IsFiniteSet(T) /\ Cardinality(T) = Cardinality(S)
  BY <1>1, <1>2, MatchingCounts
<1>4. \A i \in S : a[i] = b[f[i]]
  BY DEF Follow, Turned
<1>5. Permuted(RowsAt(a, Places(S)), RowsAt(b, Places(T)))
  BY <1>1, <1>4, ChosenPermuted DEF Follow, Turned
<1> QED BY <1>1, <1>2, <1>3, <1>5

LEMMA FollowLess ==
  ASSUME NEW f, NEW a, NEW b, NEW S, NEW T, Follow(f, a, b, S, T), NEW U, NEW V, Follow(f, a, b, U, V)
  PROVE  Follow(f, a, b, S \ U, T \ V)
BY DEF Follow

LEMMA FollowApart ==
  ASSUME NEW f, NEW a, NEW b, Turned(f, a, b), NEW S, NEW T, Follow(f, a, b, S, T),
         NEW U, NEW V, Follow(f, a, b, U, V)
  PROVE  (S \cap U = {}) <=> (T \cap V = {})
<1>1. Follow(f, a, b, S \cap U, T \cap V)
  BY DEF Follow
<1>2. Matching(f, S \cap U, T \cap V)
  BY <1>1, FollowMatches
<1> QED BY <1>2 DEF Matching

SegmentParts(w, p) ==
  {i \in DOMAIN w :
      /\ Only(w[i], Kosa) /\ Anchored(w[i], p) /\ Dated(w[i])
      /\ p.start <= w[i].start /\ w[i].start <= w[i].end
      /\ w[i].end <= p.end + 1}

SegmentLinked(w, p, i) ==
  \/ w[i].start = p.start
  \/ \E h \in SegmentParts(w, p) : w[h].start < w[i].start /\ w[i].start <= w[h].end + 1

SegmentChain(w, p) ==
  {i \in SegmentParts(w, p) :
      \A j \in SegmentParts(w, p) : w[j].start <= w[i].start => SegmentLinked(w, p, j)}

LEMMA SegmentsAre ==
  ASSUME NEW w, NEW p
  PROVE  Segments(w, p) =
            IF /\ Only(p, Profile) /\ Dated(p) /\ p.start <= p.end /\ Cardinality(SegmentChain(w, p)) >= 2
               /\ Max({w[i].end : i \in SegmentChain(w, p)}) \in {p.end - 1, p.end, p.end + 1}
            THEN SegmentChain(w, p) ELSE {}
BY DEF Segments, SegmentChain, SegmentLinked, SegmentParts

LEMMA SegmentsFollow ==
  ASSUME NEW f, NEW a, NEW b, Turned(f, a, b), NEW p
  PROVE  Follow(f, a, b, Segments(a, p), Segments(b, p))
<1> DEFINE A == SegmentParts(a, p)
           B == SegmentParts(b, p)
           C == SegmentChain(a, p)
           E == SegmentChain(b, p)
<1>1. /\ \A i \in DOMAIN a : f[i] \in DOMAIN b /\ a[i] = b[f[i]]
      /\ \A j \in DOMAIN b : \E i \in DOMAIN a : f[i] = j
  BY DEF Turned, Matching
<1>2. Follow(f, a, b, A, B)
  BY <1>1 DEF Follow, SegmentParts
<1>3. \A i \in DOMAIN a : SegmentLinked(a, p, i) <=> SegmentLinked(b, p, f[i])
  <2> SUFFICES ASSUME NEW i \in DOMAIN a
               PROVE  SegmentLinked(a, p, i) <=> SegmentLinked(b, p, f[i])
    OBVIOUS
  <2> DEFINE L(w, k, h) == w[h].start < w[k].start /\ w[k].start <= w[h].end + 1
  <2>1. \A h \in A : f[h] \in B /\ (L(a, i, h) <=> L(b, f[i], f[h]))
    BY <1>1, <1>2 DEF Follow
  <2>2. \A j \in B : \E h \in A : f[h] = j
    BY <1>1, <1>2 DEF Follow
  <2>3. /\ SegmentLinked(a, p, i) <=> (a[i].start = p.start \/ \E h \in A : L(a, i, h))
        /\ SegmentLinked(b, p, f[i]) <=> (b[f[i]].start = p.start \/ \E h \in B : L(b, f[i], h))
    BY DEF SegmentLinked
  <2> HIDE DEF L, A, B
  <2>4. a[i] = b[f[i]]
    BY <1>1
  <2>5. (\E h \in A : L(a, i, h)) <=> (\E h \in B : L(b, f[i], h))
    BY <2>1, <2>2
  <2> QED BY <2>3, <2>4, <2>5
<1>4. Follow(f, a, b, C, E)
  <2> DEFINE L(w, k, j) == w[j].start <= w[k].start => SegmentLinked(w, p, j)
  <2>1. C = {i \in A : \A j \in A : L(a, i, j)} /\ E = {i \in B : \A j \in B : L(b, i, j)}
    BY DEF SegmentChain
  <2>2. \A j \in B : \E h \in A : f[h] = j
    BY <1>1, <1>2 DEF Follow
  <2>3. \A i, j \in A : f[i] \in B /\ (L(a, i, j) <=> L(b, f[i], f[j]))
    BY <1>1, <1>2, <1>3 DEF Follow
  <2>4. A \in SUBSET DOMAIN a /\ B \in SUBSET DOMAIN b /\ \A i \in DOMAIN a : i \in A <=> f[i] \in B
    BY <1>2 DEF Follow
  <2> HIDE DEF A, B, L, C, E
  <2>5. ASSUME NEW i \in A PROVE i \in C <=> f[i] \in E
    <3>1. f[i] \in B
      BY <2>3
    <3>2. (\A j \in A : L(a, i, j)) <=> \A j \in B : L(b, f[i], j)
      BY <2>2, <2>3
    <3> QED BY <2>1, <3>1, <3>2
  <2>6. \A i \in DOMAIN a : i \in C <=> f[i] \in E
    BY <2>1, <2>4, <2>5
  <2> QED BY <2>1, <2>4, <2>6 DEF Follow
<1> HIDE DEF A, B, C, E
<1>5. Cardinality(E) = Cardinality(C) /\ Matching(f, C, E)
  BY <1>4, FollowMatches
<1>6. {a[i].end : i \in C} = {b[i].end : i \in E}
  <2>1. \A i \in C : f[i] \in E /\ a[i] = b[f[i]]
    BY <1>1, <1>4 DEF Follow
  <2>2. \A j \in E : \E i \in C : f[i] = j
    BY <1>5 DEF Matching
  <2>3. \A j \in E : \E i \in C : a[i].end = b[j].end
    BY <2>1, <2>2
  <2> QED BY <2>1, <2>3
<1> DEFINE G(w, K) == /\ Only(p, Profile) /\ Dated(p) /\ p.start <= p.end /\ Cardinality(K) >= 2
                      /\ Max({w[i].end : i \in K}) \in {p.end - 1, p.end, p.end + 1}
<1>7. G(a, C) <=> G(b, E)
  BY <1>5, <1>6
<1>8. /\ Segments(a, p) = IF G(a, C) THEN C ELSE {}
      /\ Segments(b, p) = IF G(b, E) THEN E ELSE {}
  BY SegmentsAre DEF C, E
<1> HIDE DEF G
<1>9. Follow(f, a, b, {}, {})
  BY DEF Follow
<1> QED BY <1>4, <1>7, <1>8, <1>9

\* The rows that the pairs join.
PairedRows(pairs) == UNION {{m[1], m[2]} : m \in pairs}

\* The pairs of b are those of a.
PairsTurned(f, a, b, pairs, mates) ==
  /\ Apart(a, pairs) /\ Apart(b, mates)
  /\ \A i, j \in DOMAIN a : <<i, j>> \in pairs <=> <<f[i], f[j]>> \in mates

LEMMA PairsMatch ==
  ASSUME NEW f, NEW a, NEW b, Turned(f, a, b)
  PROVE  PairsTurned(f, a, b, Pairs(a), Pairs(b))
<1>1. /\ \A i \in DOMAIN a : f[i] \in DOMAIN b /\ a[i] = b[f[i]]
      /\ \A j \in DOMAIN b : \E i \in DOMAIN a : f[i] = j
      /\ \A i, j \in DOMAIN a : f[i] = f[j] => i = j
  BY DEF Turned, Matching
<1> DEFINE C(w, i, j) == Complementary(w[i], w[j])
           M(w) == {m \in (DOMAIN w) \X (DOMAIN w) : Complementary(w[m[1]], w[m[2]])}
<1>2. ASSUME NEW w, NEW i \in DOMAIN w, NEW j \in DOMAIN w
      PROVE  <<i, j>> \in Pairs(w) <=>
                 C(w, i, j) /\ \A k, l \in DOMAIN w : C(w, k, l) /\ (k # i \/ l # j) => i # k /\ j # l
  <2>1. Pairs(w) = {m \in M(w) : \A n \in M(w) \ {m} : m[1] # n[1] /\ m[2] # n[2]}
    BY DEF Pairs
  <2>2. \A k, l \in DOMAIN w : <<k, l>> \in M(w) <=> C(w, k, l)
    OBVIOUS
  <2>3. \A n \in M(w) : n = <<n[1], n[2]>> /\ n[1] \in DOMAIN w /\ n[2] \in DOMAIN w /\ C(w, n[1], n[2])
    OBVIOUS
  <2> HIDE DEF C, M
  <2>4. ASSUME <<i, j>> \in Pairs(w)
        PROVE  C(w, i, j) /\ \A k, l \in DOMAIN w : C(w, k, l) /\ (k # i \/ l # j) => i # k /\ j # l
    <3>1. C(w, i, j)
      BY <2>1, <2>2, <2>4
    <3>2. ASSUME NEW k \in DOMAIN w, NEW l \in DOMAIN w, C(w, k, l), k # i \/ l # j PROVE i # k /\ j # l
      <4>1. <<k, l>> \in M(w) \ {<<i, j>>}
        BY <2>2, <3>2
      <4> QED BY <2>1, <2>4, <4>1
    <3> QED BY <3>1, <3>2
  <2>5. ASSUME C(w, i, j), \A k, l \in DOMAIN w : C(w, k, l) /\ (k # i \/ l # j) => i # k /\ j # l
        PROVE  <<i, j>> \in Pairs(w)
    <3>1. <<i, j>> \in M(w)
      BY <2>2, <2>5
    <3>2. ASSUME NEW n \in M(w) \ {<<i, j>>} PROVE i # n[1] /\ j # n[2]
      <4>1. n = <<n[1], n[2]>> /\ n[1] \in DOMAIN w /\ n[2] \in DOMAIN w /\ C(w, n[1], n[2])
        BY <2>3
      <4>2. n[1] # i \/ n[2] # j
        BY <4>1
      <4> QED BY <2>5, <4>1, <4>2
    <3> QED BY <2>1, <3>1, <3>2
  <2> QED BY <2>4, <2>5
<1>3. \A i, j \in DOMAIN a : C(a, i, j) <=> C(b, f[i], f[j])
  BY <1>1
<1> HIDE DEF C
<1>4. ASSUME NEW i \in DOMAIN a, NEW j \in DOMAIN a
      PROVE  <<i, j>> \in Pairs(a) <=> <<f[i], f[j]>> \in Pairs(b)
  <2> DEFINE L(w, x, y) == \A k, l \in DOMAIN w : C(w, k, l) /\ (k # x \/ l # y) => x # k /\ y # l
  <2>1. f[i] \in DOMAIN b /\ f[j] \in DOMAIN b
    BY <1>1
  <2>2. ASSUME L(a, i, j) PROVE L(b, f[i], f[j])
    <3> SUFFICES ASSUME NEW k \in DOMAIN b, NEW l \in DOMAIN b, C(b, k, l), k # f[i] \/ l # f[j]
                 PROVE  f[i] # k /\ f[j] # l
      OBVIOUS
    <3>1. PICK x \in DOMAIN a : f[x] = k
      BY <1>1
    <3>2. PICK y \in DOMAIN a : f[y] = l
      BY <1>1
    <3>3. C(a, x, y) /\ (x # i \/ y # j)
      BY <1>3, <3>1, <3>2
    <3>4. i # x /\ j # y
      BY <2>2, <3>3
    <3> QED BY <1>1, <3>1, <3>2, <3>4
  <2>3. ASSUME L(b, f[i], f[j]) PROVE L(a, i, j)
    <3> SUFFICES ASSUME NEW k \in DOMAIN a, NEW l \in DOMAIN a, C(a, k, l), k # i \/ l # j
                 PROVE  i # k /\ j # l
      OBVIOUS
    <3>1. C(b, f[k], f[l]) /\ f[k] \in DOMAIN b /\ f[l] \in DOMAIN b /\ (f[k] # f[i] \/ f[l] # f[j])
      BY <1>1, <1>3
    <3> QED BY <2>3, <3>1
  <2>4. <<i, j>> \in Pairs(a) <=> C(a, i, j) /\ L(a, i, j)
    BY <1>2
  <2>5. <<f[i], f[j]>> \in Pairs(b) <=> C(b, f[i], f[j]) /\ L(b, f[i], f[j])
    BY <1>2, <2>1
  <2> HIDE DEF L
  <2> QED BY <1>3, <2>2, <2>3, <2>4, <2>5
<1>5. \A w : Apart(w, Pairs(w))
  BY DEF Pairs, Apart
<1> QED BY <1>4, <1>5 DEF PairsTurned

LEMMA PairedFollow ==
  ASSUME NEW f, NEW a, NEW b, Turned(f, a, b), NEW pairs, NEW mates, PairsTurned(f, a, b, pairs, mates)
  PROVE  /\ Follow(f, a, b, {m[1] : m \in pairs}, {m[1] : m \in mates})
         /\ Follow(f, a, b, PairedRows(pairs), PairedRows(mates))
<1>1. /\ \A i \in DOMAIN a : f[i] \in DOMAIN b
      /\ \A j \in DOMAIN b : \E i \in DOMAIN a : f[i] = j
  BY DEF Turned, Matching
<1>2. ASSUME NEW w, NEW ps, Apart(w, ps)
      PROVE  /\ {m[1] : m \in ps} \in SUBSET DOMAIN w /\ PairedRows(ps) \in SUBSET DOMAIN w
             /\ \A i \in DOMAIN w : /\ i \in {m[1] : m \in ps} <=> \E j \in DOMAIN w : <<i, j>> \in ps
                                    /\ i \in PairedRows(ps) <=>
                                           \E j \in DOMAIN w : <<i, j>> \in ps \/ <<j, i>> \in ps
  <2>1. \A m \in ps : m = <<m[1], m[2]>> /\ m[1] \in DOMAIN w /\ m[2] \in DOMAIN w
    BY <1>2 DEF Apart
  <2>2. \A i, j : <<i, j>>[1] = i /\ <<i, j>>[2] = j
    OBVIOUS
  <2>3. ASSUME NEW i \in DOMAIN w
        PROVE  /\ i \in {m[1] : m \in ps} <=> \E j \in DOMAIN w : <<i, j>> \in ps
               /\ i \in PairedRows(ps) <=> \E j \in DOMAIN w : <<i, j>> \in ps \/ <<j, i>> \in ps
    <3>1. i \in {m[1] : m \in ps} <=> \E j \in DOMAIN w : <<i, j>> \in ps
      BY <2>1, <2>2, ZenonT(60)
    <3>2. i \in PairedRows(ps) <=> \E m \in ps : i = m[1] \/ i = m[2]
      BY DEF PairedRows
    <3>3. (\E m \in ps : i = m[1] \/ i = m[2]) <=> \E j \in DOMAIN w : <<i, j>> \in ps \/ <<j, i>> \in ps
      BY <2>1, <2>2, ZenonT(60)
    <3> QED BY <3>1, <3>2, <3>3
  <2>4. {m[1] : m \in ps} \in SUBSET DOMAIN w /\ PairedRows(ps) \in SUBSET DOMAIN w
    BY <2>1 DEF PairedRows
  <2> QED BY <2>3, <2>4
<1>3. Apart(a, pairs) /\ Apart(b, mates)
      /\ \A i, j \in DOMAIN a : <<i, j>> \in pairs <=> <<f[i], f[j]>> \in mates
  BY DEF PairsTurned
<1> DEFINE A == {m[1] : m \in pairs}
           B == {m[1] : m \in mates}
           P == PairedRows(pairs)
           Q == PairedRows(mates)
<1>4. /\ A \in SUBSET DOMAIN a /\ P \in SUBSET DOMAIN a
      /\ \A i \in DOMAIN a : /\ i \in A <=> \E j \in DOMAIN a : <<i, j>> \in pairs
                             /\ i \in P <=> \E j \in DOMAIN a : <<i, j>> \in pairs \/ <<j, i>> \in pairs
  BY <1>2, <1>3
<1>5. /\ B \in SUBSET DOMAIN b /\ Q \in SUBSET DOMAIN b
      /\ \A i \in DOMAIN b : /\ i \in B <=> \E j \in DOMAIN b : <<i, j>> \in mates
                             /\ i \in Q <=> \E j \in DOMAIN b : <<i, j>> \in mates \/ <<j, i>> \in mates
  BY <1>2, <1>3
<1> HIDE DEF A, B, P, Q
<1>6. ASSUME NEW i \in DOMAIN a
      PROVE  /\ (\E j \in DOMAIN a : <<i, j>> \in pairs) <=> \E j \in DOMAIN b : <<f[i], j>> \in mates
             /\ (\E j \in DOMAIN a : <<i, j>> \in pairs \/ <<j, i>> \in pairs)
                <=> \E j \in DOMAIN b : <<f[i], j>> \in mates \/ <<j, f[i]>> \in mates
  BY <1>1, <1>3
<1>7. Follow(f, a, b, A, B)
  BY <1>1, <1>4, <1>5, <1>6 DEF Follow
<1>8. Follow(f, a, b, P, Q)
  BY <1>1, <1>4, <1>5, <1>6 DEF Follow
<1> QED BY <1>7, <1>8 DEF A, B, P, Q

\* What the profiles claim follows them.
ClaimsTurned(f, a, b, claim, claims) ==
  /\ Follow(f, a, b, DOMAIN claim, DOMAIN claims)
  /\ \A p \in DOMAIN claim : Follow(f, a, b, claim[p], claims[f[p]])

LEMMA ClaimsMatch ==
  ASSUME NEW f, NEW a, NEW b, Turned(f, a, b), NEW S, NEW T, Follow(f, a, b, S, T)
  PROVE  ClaimsTurned(f, a, b, Claims(a, S), Claims(b, T))
<1> DEFINE c == Claims(a, S)
           d == Claims(b, T)
<1>1. /\ DOMAIN c = (DOMAIN a) \ S /\ \A p \in DOMAIN c : c[p] = Segments(a, a[p]) \ S
      /\ DOMAIN d = (DOMAIN b) \ T /\ \A p \in DOMAIN d : d[p] = Segments(b, b[p]) \ T
  BY DEF Claims
<1> HIDE DEF c, d
<1>2. Follow(f, a, b, DOMAIN a, DOMAIN b)
  BY DEF Follow, Turned, Matching
<1>3. Follow(f, a, b, DOMAIN c, DOMAIN d)
  <2>1. Follow(f, a, b, (DOMAIN a) \ S, (DOMAIN b) \ T)
    BY <1>2, FollowLess
  <2> QED BY <1>1, <2>1
<1>4. ASSUME NEW p \in DOMAIN c PROVE Follow(f, a, b, c[p], d[f[p]])
  <2>1. p \in DOMAIN a /\ f[p] \in DOMAIN d /\ a[p] = b[f[p]]
    BY <1>1, <1>3 DEF Follow, Turned
  <2>2. Follow(f, a, b, Segments(a, a[p]), Segments(b, a[p]))
    BY SegmentsFollow
  <2>3. Follow(f, a, b, Segments(a, a[p]) \ S, Segments(b, a[p]) \ T)
    BY <2>2, FollowLess
  <2>4. c[p] = Segments(a, a[p]) \ S /\ d[f[p]] = Segments(b, a[p]) \ T
    BY <1>1, <2>1
  <2> QED BY <2>3, <2>4
<1>5. ClaimsTurned(f, a, b, c, d)
  BY <1>3, <1>4 DEF ClaimsTurned
<1> QED BY <1>5 DEF c, d

LEMMA OwnersMatch ==
  ASSUME NEW f, NEW a, NEW b, Turned(f, a, b), NEW c, NEW d, ClaimsTurned(f, a, b, c, d)
  PROVE  /\ Follow(f, a, b, Owners(c), Owners(d))
         /\ Owners(c) \in SUBSET DOMAIN c /\ Owners(d) \in SUBSET DOMAIN d
<1> DEFINE C == {p \in DOMAIN c : Cardinality(c[p]) >= 2}
           E == {p \in DOMAIN d : Cardinality(d[p]) >= 2}
           X == Owners(c)
           Y == Owners(d)
<1>1. /\ X = {p \in C : \A q \in C \ {p} : c[p] \cap c[q] = {}}
      /\ Y = {p \in E : \A q \in E \ {p} : d[p] \cap d[q] = {}}
      /\ C \subseteq DOMAIN c /\ E \subseteq DOMAIN d
  BY DEF Owners
<1>2. /\ DOMAIN c \in SUBSET DOMAIN a /\ DOMAIN d \in SUBSET DOMAIN b
      /\ \A i \in DOMAIN a : i \in DOMAIN c <=> f[i] \in DOMAIN d
      /\ \A i, j \in DOMAIN a : f[i] = f[j] => i = j
      /\ \A j \in DOMAIN b : \E i \in DOMAIN a : f[i] = j
  BY DEF ClaimsTurned, Follow, Turned, Matching
<1>3. \A p \in DOMAIN c : Cardinality(d[f[p]]) = Cardinality(c[p])
  BY FollowMatches DEF ClaimsTurned
<1>4. \A p \in DOMAIN a : p \in C <=> f[p] \in E
  BY <1>2, <1>3
<1>5. \A p, q \in DOMAIN c : (c[p] \cap c[q] = {}) <=> (d[f[p]] \cap d[f[q]] = {})
  <2> SUFFICES ASSUME NEW p \in DOMAIN c, NEW q \in DOMAIN c
               PROVE  (c[p] \cap c[q] = {}) <=> (d[f[p]] \cap d[f[q]] = {})
    OBVIOUS
  <2>1. Follow(f, a, b, c[p], d[f[p]]) /\ Follow(f, a, b, c[q], d[f[q]])
    BY DEF ClaimsTurned
  <2> QED BY <2>1, FollowApart
<1>6. \A j \in E : \E i \in C : f[i] = j
  BY <1>1, <1>2, <1>4
<1> HIDE DEF C, E, X, Y
<1>7. ASSUME NEW p \in C PROVE p \in X <=> f[p] \in Y
  <2>1. p \in DOMAIN a /\ p \in DOMAIN c /\ f[p] \in E
    BY <1>1, <1>2, <1>4
  <2>2. ASSUME p \in X, NEW j \in E, j # f[p] PROVE d[f[p]] \cap d[j] = {}
    <3>1. PICK q \in C : f[q] = j
      BY <1>6
    <3>2. q # p /\ q \in DOMAIN c
      BY <1>1, <2>2, <3>1
    <3>3. c[p] \cap c[q] = {}
      BY <1>1, <2>2, <3>2
    <3> QED BY <1>5, <2>1, <3>1, <3>2, <3>3
  <2>3. ASSUME f[p] \in Y, NEW q \in C, q # p PROVE c[p] \cap c[q] = {}
    <3>1. q \in DOMAIN c /\ q \in DOMAIN a /\ f[q] \in E
      BY <1>1, <1>2, <1>4
    <3>2. f[q] # f[p]
      BY <1>2, <2>1, <2>3, <3>1
    <3>3. d[f[p]] \cap d[f[q]] = {}
      BY <1>1, <2>3, <3>1, <3>2
    <3> QED BY <1>5, <2>1, <3>1, <3>3
  <2> QED BY <1>1, <2>1, <2>2, <2>3
<1>8. \A p \in DOMAIN a : p \in X <=> f[p] \in Y
  BY <1>1, <1>4, <1>7
<1>9. X \in SUBSET DOMAIN c /\ Y \in SUBSET DOMAIN d
  BY <1>1
<1>10. Follow(f, a, b, X, Y)
  BY <1>2, <1>8, <1>9 DEF Follow
<1> QED BY <1>9, <1>10 DEF X, Y

LEMMA SegmentsOfSame ==
  ASSUME NEW p, RowShape(p), NEW g, List(g), NEW h, List(h), WordsOf(g) = WordsOf(h),
         \A x \in WordsOf(g) : RowShape(x)
  PROVE  MergeSegments(p, g) = MergeSegments(p, h)
<1> DEFINE named(w) == {w[i].customer : i \in DOMAIN w} \ {NoText}
           starts(w) == {w[i].start : i \in DOMAIN w}
           ends(w) == {w[i].end : i \in DOMAIN w}
           customer(S) == IF p.customer # NoText \/ S = {} THEN p.customer ELSE Canonical(S)
<1>1. \A w : MergeSegments(p, w) = MergeRows(<<p>> \o w, p.name, customer(named(w)), Min(starts(w)), Max(ends(w)))
  BY DEF MergeSegments
<1>2. named(g) = named(h) /\ starts(g) = starts(h) /\ ends(g) = ends(h)
  <2>1. \A w : /\ named(w) = {x.customer : x \in WordsOf(w)} \ {NoText}
               /\ starts(w) = {x.start : x \in WordsOf(w)} /\ ends(w) = {x.end : x \in WordsOf(w)}
    BY DEF WordsOf
  <2> HIDE DEF named, starts, ends
  <2> QED BY <2>1
<1> DEFINE pg == <<p>> \o g
           ph == <<p>> \o h
<1>3. List(pg) /\ WordsOf(pg) = {p} \cup WordsOf(g) /\ List(ph) /\ WordsOf(ph) = {p} \cup WordsOf(g)
  BY OneList, Concat
<1> HIDE DEF pg, ph
<1>4. \A name, cust, start, end : MergeRows(pg, name, cust, start, end) = MergeRows(ph, name, cust, start, end)
  BY <1>3, MergeOfSame, SMTT(40)
<1> HIDE DEF named, starts, ends, customer
<1> QED BY <1>1, <1>2, <1>4 DEF pg, ph

MateOf(w, pairs, k) == CHOOSE p \in DOMAIN w : <<k, p>> \in pairs
JoinedRows(w, pairs) == [k \in DOMAIN w |-> MergePair(w[k], w[MateOf(w, pairs, k)])]
SummedRows(w, claim) == [p \in DOMAIN w |-> MergeSegments(w[p], RowsAt(w, Places(claim[p])))]
TakenRows(pairs, claim, owners) == owners \cup UNION ({{m[1], m[2]} : m \in pairs} \cup {claim[p] : p \in owners})

LEMMA JoinedIs ==
  ASSUME NEW w, List(w), NEW pairs, Apart(w, pairs), NEW claim, NEW owners \in SUBSET DOMAIN w
  PROVE  Joined(w, pairs, claim, owners) =
            (RowsAt(JoinedRows(w, pairs), Places({m[1] : m \in pairs}))
             \o RowsAt(SummedRows(w, claim), Places(owners)))
            \o RowsAt(w, Places((DOMAIN w) \ TakenRows(pairs, claim, owners)))
<1> DEFINE A == {m[1] : m \in pairs}
           P == Places(A)
           Q == Places(owners)
           c == RowsAt(w, Places((DOMAIN w) \ TakenRows(pairs, claim, owners)))
           new == Joined(w, pairs, claim, owners)
<1>1. A \in SUBSET DOMAIN w
  BY DEF Apart
<1>2. (\A n \in DOMAIN P : P[n] \in DOMAIN w) /\ (\A n \in DOMAIN Q : Q[n] \in DOMAIN w)
  <2> HIDE DEF A
  <2> QED BY <1>1, RowPerPlace
<1>3. new = ([n \in DOMAIN P |-> MergePair(w[P[n]], w[MateOf(w, pairs, P[n])])]
             \o [n \in DOMAIN Q |-> MergeSegments(w[Q[n]], RowsAt(w, Places(claim[Q[n]])))]) \o c
  BY DEF Joined, Mapped, MateOf, TakenRows
<1> HIDE DEF P, Q, c, new
<1>4. RowsAt(JoinedRows(w, pairs), P) = [n \in DOMAIN P |-> MergePair(w[P[n]], w[MateOf(w, pairs, P[n])])]
  BY <1>2 DEF RowsAt, JoinedRows
<1>5. RowsAt(SummedRows(w, claim), Q) = [n \in DOMAIN Q |-> MergeSegments(w[Q[n]], RowsAt(w, Places(claim[Q[n]])))]
  BY <1>2 DEF RowsAt, SummedRows
<1> QED BY <1>3, <1>4, <1>5 DEF P, Q, c, new

LEMMA MateIs ==
  ASSUME NEW w, NEW pairs, Apart(w, pairs), NEW k, NEW p, <<k, p>> \in pairs
  PROVE  MateOf(w, pairs, k) = p /\ k \in DOMAIN w /\ p \in DOMAIN w
<1> DEFINE q == MateOf(w, pairs, k)
<1>1. k \in DOMAIN w /\ p \in DOMAIN w
  BY DEF Apart
<1>2. <<k, q>> \in pairs
  BY <1>1 DEF MateOf
<1> HIDE DEF q
<1>3. <<k, q>>[1] = <<k, p>>[1]
  OBVIOUS
<1>4. <<k, q>> = <<k, p>>
  BY <1>2, <1>3 DEF Apart
<1> QED BY <1>1, <1>4 DEF q

LEMMA TakenFollow ==
  ASSUME NEW f, NEW a, NEW b, Turned(f, a, b), NEW pairs, NEW mates, PairsTurned(f, a, b, pairs, mates),
         NEW c, NEW d, ClaimsTurned(f, a, b, c, d), NEW S, NEW T, Follow(f, a, b, S, T),
         S \subseteq DOMAIN c, T \subseteq DOMAIN d
  PROVE  Follow(f, a, b, (DOMAIN a) \ TakenRows(pairs, c, S), (DOMAIN b) \ TakenRows(mates, d, T))
<1>1. Follow(f, a, b, PairedRows(pairs), PairedRows(mates))
  BY PairedFollow
<1>2. ASSUME NEW ps, NEW k, NEW U, NEW i
      PROVE  i \in TakenRows(ps, k, U) <=> i \in U \/ i \in PairedRows(ps) \/ \E p \in U : i \in k[p]
  BY DEF TakenRows, PairedRows
<1>3. \A j \in T : \E i \in S : f[i] = j
  BY FollowMatches DEF Matching
<1>4. \A i \in S : f[i] \in T
  BY DEF Follow
<1>5. \A i \in DOMAIN a : \A p \in S : i \in c[p] <=> f[i] \in d[f[p]]
  BY DEF ClaimsTurned, Follow
<1>6. \A i \in DOMAIN a : i \in TakenRows(pairs, c, S) <=> f[i] \in TakenRows(mates, d, T)
  <2> SUFFICES ASSUME NEW i \in DOMAIN a
               PROVE  i \in TakenRows(pairs, c, S) <=> f[i] \in TakenRows(mates, d, T)
    OBVIOUS
  <2>1. (\E p \in S : i \in c[p]) <=> \E p \in T : f[i] \in d[p]
    BY <1>3, <1>4, <1>5
  <2>2. (i \in S <=> f[i] \in T) /\ (i \in PairedRows(pairs) <=> f[i] \in PairedRows(mates))
    BY <1>1 DEF Follow
  <2> QED BY <1>2, <2>1, <2>2
<1>7. \A i \in DOMAIN a : f[i] \in DOMAIN b
  BY DEF Turned, Matching
<1> QED BY <1>6, <1>7 DEF Follow

LEMMA JoinedTurned ==
  ASSUME NEW f, NEW a, NEW b, Turned(f, a, b), \A p \in WordsOf(a) : RowOK(p),
         NEW pairs, NEW mates, PairsTurned(f, a, b, pairs, mates),
         NEW c, NEW d, ClaimsTurned(f, a, b, c, d), NEW S, NEW T, Follow(f, a, b, S, T),
         S \in SUBSET DOMAIN c, T \in SUBSET DOMAIN d
  PROVE  Permuted(Joined(a, pairs, c, S), Joined(b, mates, d, T))
<1> DEFINE A == {m[1] : m \in pairs}
           B == {m[1] : m \in mates}
           ja == JoinedRows(a, pairs)
           jb == JoinedRows(b, mates)
           sa == SummedRows(a, c)
           sb == SummedRows(b, d)
           ra == RowsAt(a, Places((DOMAIN a) \ TakenRows(pairs, c, S)))
           rb == RowsAt(b, Places((DOMAIN b) \ TakenRows(mates, d, T)))
<1>1. List(a) /\ List(b) /\ Apart(a, pairs) /\ Apart(b, mates)
  BY DEF Turned, PairsTurned
<1>2. S \in SUBSET DOMAIN a /\ T \in SUBSET DOMAIN b /\ Follow(f, a, b, A, B)
  BY PairedFollow DEF Follow
<1>3. \A i \in DOMAIN a : f[i] \in DOMAIN b /\ a[i] = b[f[i]] /\ RowShape(a[i])
  BY DEF Turned, Matching, WordsOf, RowOK
<1>4. Permuted(ra, rb)
  BY TakenFollow, FollowMatches
<1>5. /\ \A k \in DOMAIN a : ja[k] = MergePair(a[k], a[MateOf(a, pairs, k)])
      /\ \A k \in DOMAIN b : jb[k] = MergePair(b[k], b[MateOf(b, mates, k)])
      /\ \A k \in DOMAIN a : sa[k] = MergeSegments(a[k], RowsAt(a, Places(c[k])))
      /\ \A k \in DOMAIN b : sb[k] = MergeSegments(b[k], RowsAt(b, Places(d[k])))
  BY DEF JoinedRows, SummedRows
<1>6. /\ Joined(a, pairs, c, S) = (RowsAt(ja, Places(A)) \o RowsAt(sa, Places(S))) \o ra
      /\ Joined(b, mates, d, T) = (RowsAt(jb, Places(B)) \o RowsAt(sb, Places(T))) \o rb
  BY <1>1, <1>2, JoinedIs
<1> HIDE DEF ja, jb, sa, sb, ra, rb
<1>7. ASSUME NEW k \in A PROVE ja[k] = jb[f[k]]
  <2>1. PICK m \in pairs : k = m[1]
    OBVIOUS
  <2> DEFINE p == m[2]
  <2>2. <<k, p>> \in pairs
    BY <1>1, <2>1 DEF Apart
  <2> HIDE DEF p, A
  <2>3. MateOf(a, pairs, k) = p /\ k \in DOMAIN a /\ p \in DOMAIN a
    BY <1>1, <2>2, MateIs
  <2>4. <<f[k], f[p]>> \in mates
    BY <2>2, <2>3 DEF PairsTurned
  <2>5. MateOf(b, mates, f[k]) = f[p] /\ f[k] \in DOMAIN b
    BY <1>1, <2>4, MateIs
  <2> QED BY <1>3, <1>5, <2>3, <2>5
<1>8. ASSUME NEW p \in S PROVE sa[p] = sb[f[p]]
  <2> DEFINE g == RowsAt(a, Places(c[p]))
             h == RowsAt(b, Places(d[f[p]]))
  <2>1. p \in DOMAIN a /\ Follow(f, a, b, c[p], d[f[p]])
    BY <1>2 DEF ClaimsTurned
  <2>2. Permuted(g, h)
    BY <2>1, FollowMatches
  <2>3. WordsOf(g) \subseteq WordsOf(a)
    BY <1>1, <2>1, SomeRows DEF Follow
  <2>4. sa[p] = MergeSegments(a[p], g) /\ sb[f[p]] = MergeSegments(a[p], h)
    BY <1>3, <1>5, <2>1
  <2> HIDE DEF g, h
  <2>5. List(g) /\ List(h) /\ WordsOf(g) = WordsOf(h)
    BY <2>2, PermutedRows DEF Permuted
  <2>6. RowShape(a[p]) /\ \A x \in WordsOf(g) : RowShape(x)
    BY <1>3, <2>1, <2>3 DEF RowOK
  <2> QED BY <2>4, <2>5, <2>6, SegmentsOfSame
<1>9. Permuted(RowsAt(ja, Places(A)), RowsAt(jb, Places(B)))
  <2>1. Matching(f, A, B) /\ A \in SUBSET DOMAIN a /\ B \in SUBSET DOMAIN b
    BY <1>2, FollowMatches DEF Follow
  <2> HIDE DEF A, B
  <2> QED BY <1>1, <1>7, <2>1, ChosenPermuted
<1>10. Permuted(RowsAt(sa, Places(S)), RowsAt(sb, Places(T)))
  <2>1. Matching(f, S, T)
    BY FollowMatches
  <2> QED BY <1>1, <1>2, <1>8, <2>1, ChosenPermuted
<1> DEFINE x == RowsAt(ja, Places(A))
           y == RowsAt(sa, Places(S))
           u == RowsAt(jb, Places(B))
           v == RowsAt(sb, Places(T))
<1> HIDE DEF x, y, u, v
<1>11. Permuted(x \o y, u \o v)
  BY <1>9, <1>10, ConcatPermuted DEF x, y, u, v
<1> DEFINE xy == x \o y
           uv == u \o v
<1> HIDE DEF xy, uv
<1>12. Permuted(xy \o ra, uv \o rb)
  BY <1>4, <1>11, ConcatPermuted DEF xy, uv
<1> QED BY <1>6, <1>12 DEF x, y, u, v, xy, uv

LEMMA JoinSortedTurned ==
  ASSUME NEW a, NEW b, Permuted(a, b), \A p \in WordsOf(a) : RowOK(p)
  PROVE  Permuted(JoinSorted(a, Pairs(a)), JoinSorted(b, Pairs(b)))
<1> DEFINE pairs == Pairs(a)
           mates == Pairs(b)
           c == Claims(a, PairedRows(pairs))
           d == Claims(b, PairedRows(mates))
<1>1. PICK f : Turned(f, a, b)
  BY DEF Permuted, Turned
<1>2. PairsTurned(f, a, b, pairs, mates)
  BY <1>1, PairsMatch
<1>3. /\ JoinSorted(a, pairs) = Joined(a, pairs, c, Owners(c))
      /\ JoinSorted(b, mates) = Joined(b, mates, d, Owners(d))
  BY DEF JoinSorted, JoinClaimed, PairedRows
<1> HIDE DEF pairs, mates
<1>4. Follow(f, a, b, PairedRows(pairs), PairedRows(mates))
  BY <1>1, <1>2, PairedFollow
<1>5. ClaimsTurned(f, a, b, c, d)
  BY <1>1, <1>4, ClaimsMatch
<1> HIDE DEF c, d
<1>6. /\ Follow(f, a, b, Owners(c), Owners(d))
      /\ Owners(c) \in SUBSET DOMAIN c /\ Owners(d) \in SUBSET DOMAIN d
  BY <1>1, <1>5, OwnersMatch
<1>7. Permuted(Joined(a, pairs, c, Owners(c)), Joined(b, mates, d, Owners(d)))
  BY <1>1, <1>2, <1>5, <1>6, JoinedTurned
<1> QED BY <1>3, <1>7 DEF pairs, mates

LEMMA JoinPermuted ==
  ASSUME NEW rows, NEW others, Permuted(rows, others), \A p \in WordsOf(rows) : RowOK(p)
  PROVE  /\ Permuted(JoinProfiles(rows), JoinProfiles(others))
         /\ \A p \in WordsOf(JoinProfiles(rows)) : RowOK(p)
<1> DEFINE a == Sorted(rows)
           b == Sorted(others)
<1>1. List(rows) /\ List(others) /\ WordsOf(rows) = WordsOf(others)
  BY PermutedRows DEF Permuted
<1>2. Permuted(a, rows) /\ Permuted(b, others) /\ \A p \in WordsOf(a) : RowOK(p)
  BY <1>1, SortedPermuted
<1>3. JoinProfiles(rows) = JoinSorted(a, Pairs(a)) /\ JoinProfiles(others) = JoinSorted(b, Pairs(b))
  BY DEF JoinProfiles
<1>4. Gathers(JoinProfiles(rows), a)
  BY <1>1, JoinGathers
<1> HIDE DEF a, b
<1>5. Permuted(others, b)
  BY <1>2, PermutedAll
<1>6. Permuted(a, others)
  BY <1>2, PermutedAll
<1>7. Permuted(a, b)
  BY <1>5, <1>6, PermutedAll
<1>8. Permuted(JoinSorted(a, Pairs(a)), JoinSorted(b, Pairs(b)))
  BY <1>2, <1>7, JoinSortedTurned
<1>9. \A p \in WordsOf(JoinProfiles(rows)) : RowOK(p)
  BY <1>2, <1>4, GatheredRows
<1> QED BY <1>3, <1>8, <1>9

\* The merge of parts that are the same rows in another order.
LEMMA MergePermuted ==
  ASSUME NEW ss, List(ss), Len(ss) # 0, NEW tt, List(tt),
         NEW f, Matching(f, DOMAIN ss, DOMAIN tt), \A i \in DOMAIN ss : Permuted(ss[i], tt[f[i]]),
         \A p \in Rows(ss) : RowOK(p)
  PROVE  SameRows(MergeProjects(ss), MergeProjects(tt))
<1> DEFINE a == FlattenSeq(ss)
           b == FlattenSeq(tt)
           ia == IdentityMerge(a)
           ib == IdentityMerge(b)
           ja == JoinProfiles(ia)
           jb == JoinProfiles(ib)
           sa == Sorted(ja)
           sb == Sorted(jb)
<1>1. MergeProjects(ss) = sa /\ MergeProjects(tt) = sb
  BY DEF MergeProjects
<1>2. Permuted(a, b)
  BY FlattenPermuted
<1>3. List(a) /\ \A p \in WordsOf(a) : RowOK(p)
  <2>1. \A i \in DOMAIN ss : List(ss[i])
    BY DEF Permuted
  <2> QED BY <2>1, FlattenList DEF Rows
<1> HIDE DEF a, b
<1>4. Permuted(ia, ib) /\ \A p \in WordsOf(ia) : RowOK(p)
  <2>1. Gathers(ia, a)
    BY <1>3, IdentityGathers
  <2> HIDE DEF ia
  <2>2. \A p \in WordsOf(ia) : RowOK(p)
    BY <1>3, <2>1, GatheredRows
  <2> QED BY <1>2, <1>3, <2>2, IdentityPermuted DEF ia
<1> HIDE DEF ia, ib
<1>5. Permuted(ja, jb) /\ \A p \in WordsOf(ja) : RowOK(p)
  BY <1>4, JoinPermuted
<1> HIDE DEF ja, jb
<1>6. List(ja) /\ List(jb) /\ WordsOf(ja) = WordsOf(jb)
  BY <1>5, PermutedRows DEF Permuted
<1>7. Permuted(sa, ja) /\ Permuted(sb, jb)
  BY <1>5, <1>6, SortedPermuted
<1> HIDE DEF sa, sb
<1>8. Permuted(jb, sb) /\ Permuted(sa, jb)
  BY <1>5, <1>7, PermutedAll
<1>9. Permuted(sa, sb)
  BY <1>8, PermutedAll
<1> QED BY <1>1, <1>9, PermutedRows

LEMMA OrderFollows ==
  ASSUME PartsRead
  PROVE  MergeIgnoresOrder
<1> SUFFICES ASSUME projectParts # <<>>
             PROVE  /\ SameRows(MergeProjects(projectParts), MergeProjects(Reverse(projectParts)))
                    /\ SameRows(MergeProjects(projectParts),
                                MergeProjects([i \in DOMAIN projectParts |-> Reverse(projectParts[i])]))
  BY DEF MergeIgnoresOrder
<1> DEFINE ss == projectParts
           tt == [i \in DOMAIN ss |-> Reverse(ss[i])]
           e == [i \in DOMAIN ss |-> i]
<1>1. List(ss) /\ \A i \in DOMAIN ss : List(ss[i])
  BY DEF PartsRead, WordsOf, ProjectsAre
<1>2. \A p \in Rows(ss) : RowOK(p)
  BY PartsStand
<1>3. Len(ss) # 0
  BY <1>1, ListIsSeq
<1>4. PICK f : Matching(f, DOMAIN ss, DOMAIN Reverse(ss)) /\ \A i \in DOMAIN ss : ss[i] = Reverse(ss)[f[i]]
  BY <1>1, ReversePermuted
<1>5. List(Reverse(ss))
  BY <1>1, ReversePermuted DEF Permuted
<1>6. \A i \in DOMAIN ss : Permuted(ss[i], Reverse(ss)[f[i]])
  BY <1>1, <1>4, PermutedAll
<1>7. tt = [i \in DOMAIN ss |-> tt[i]] /\ \A i \in DOMAIN ss : e[i] = i /\ tt[i] = Reverse(ss[i])
  OBVIOUS
<1>8. Matching(e, DOMAIN ss, DOMAIN ss)
  BY DEF Matching
<1> DEFINE rr == Reverse(ss)
<1> HIDE DEF ss, tt, e, rr
<1>9. List(tt) /\ DOMAIN tt = DOMAIN ss
  BY <1>1, <1>7, ListLike
<1>10. \A i \in DOMAIN ss : Permuted(ss[i], tt[e[i]])
  BY <1>1, <1>7, ReversePermuted
<1>11. SameRows(MergeProjects(ss), MergeProjects(tt))
  BY <1>1, <1>2, <1>3, <1>8, <1>9, <1>10, MergePermuted
<1>12. SameRows(MergeProjects(ss), MergeProjects(rr))
  BY <1>1, <1>2, <1>3, <1>4, <1>5, <1>6, MergePermuted DEF rr
<1> QED BY <1>11, <1>12 DEF ss, tt, rr

\* In every execution, the projects of the chunks merge to the same rows in whatever
\* order the chunks and the rows in them come (merge_project_chunk_candidates), for
\* every source, every set of answers and every number of chunks.
THEOREM OrderIsIgnored == CandidateSpec => []MergeIgnoresOrder
<1>1. CandidateInit => CandidateInv
  BY CandidateBegins
<1>2. CandidateInv /\ [CandidateNext]_candidateVars => CandidateInv'
  BY CandidateKept
<1>3. CandidateInv => MergeIgnoresOrder
  BY OrderFollows DEF CandidateInv
<1> QED BY <1>1, <1>2, <1>3, PTL DEF CandidateSpec
===============================================================================
