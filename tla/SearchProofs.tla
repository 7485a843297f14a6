--------------------------- MODULE SearchProofs ---------------------------
(***************************************************************************)
(* Theorems about Search, for every family of problems, every heartbeat    *)
(* and every clock bound.                                                  *)
(***************************************************************************)
EXTENDS Search, FiniteSetTheorems, SequenceTheorems, TLAPS

(* The numbers the loop compares are numbers.                              *)
LEMMA ProblemFacts ==
  ASSUME NEW p \in Problem
  PROVE  /\ Len(p.clauses) \in Nat
         /\ Index(p) = 1 .. Len(p.clauses)
         /\ p.throws \subseteq Index(p)
         /\ p.noise \in Int /\ p.targetPct \in Int
         /\ p.maxCandidates \in Int /\ p.maxTime \in Int
         /\ p.moded \in BOOLEAN /\ p.constrained \in BOOLEAN
         /\ \A i \in Index(p) : p.lowers[i] \in BOOLEAN
         /\ IsFiniteSet(p.pos) /\ IsFiniteSet(p.neg)
         /\ \A i \in Index(p) : p.clauses[i] \in Seq(DOMAIN p.key)
  BY ProblemAssumption DEF Index

LEMMA ScoreIsInt ==
  ASSUME NEW p \in Problem, NEW i
  PROVE  CovP(p, i) \in Nat /\ CovN(p, i) \in Nat /\ Score(p, i) \in Int
<1>1. IsFiniteSet(p.pos) /\ IsFiniteSet(p.neg)
  BY ProblemFacts
<1>2. IsFiniteSet(p.covered[i] \cap p.pos) /\ IsFiniteSet(p.covered[i] \cap p.neg)
  BY <1>1, FS_Subset
<1>3. CovP(p, i) \in Nat /\ CovN(p, i) \in Nat
  BY <1>2, FS_CardinalityType DEF CovP, CovN
<1>4. QED
  BY <1>3 DEF Score

---------------------------------------------------------------------------
(* Type correctness.                                                       *)

TypeInv == problem \in Problem /\ TypeOK

LEMMA InitTypeInv == Init => TypeInv
<1> SUFFICES ASSUME Init PROVE TypeInv
  OBVIOUS
<1>1. Len(problem.clauses) \in Nat
  BY ProblemFacts DEF Init
<1>2. QED
  BY <1>1 DEF Init, TypeInv, TypeOK, Suspended, Index

LEMMA StepTypeInv == TypeInv /\ [Next]_vars => TypeInv'
<1> SUFFICES ASSUME TypeInv, [Next]_vars PROVE TypeInv'
  OBVIOUS
<1> DEFINE n == Len(problem.clauses)
<1>1. n \in Nat /\ Index(problem) = 1 .. n
  BY ProblemFacts DEF TypeInv
<1>2. CASE UNCHANGED vars
  BY <1>2 DEF TypeInv, TypeOK, vars
<1>3. CASE Pull \/ Return
  BY <1>3 DEF TypeInv, TypeOK, Pull, Return, Suspended, Ended
<1>4. CASE Tick
  BY <1>4 DEF TypeInv, TypeOK, Tick
<1>5. CASE StopOnBudget
  <2>1. best \in Nat
    BY <1>1 DEF TypeInv, TypeOK
  <2>2. out' \in Seq(Record)
    BY <1>5, <2>1 DEF TypeInv, TypeOK, StopOnBudget, Yield, Record
  <2>3. QED
    BY <1>5, <2>2 DEF TypeInv, TypeOK, StopOnBudget, Ended
<1>6. CASE PruneCandidate
  BY <1>1, <1>6 DEF TypeInv, TypeOK, PruneCandidate, Considers, HasNext
<1>7. CASE EvaluationThrows
  BY <1>7 DEF TypeInv, TypeOK, EvaluationThrows, Ended
<1>8. ASSUME Evaluate
      PROVE  /\ problem' = problem /\ tested' \in Nat /\ pruned' \in Nat
             /\ next' \in 1 .. n + 1 /\ best' \in {0} \cup Index(problem)
             /\ elapsed' \in Nat /\ log' \subseteq Index(problem)
             /\ next \in Nat /\ best \in Nat
  BY <1>1, <1>8 DEF TypeInv, TypeOK, Evaluate, Considers, HasNext
<1>9. CASE AcceptCandidate
  <2>1. Evaluate /\ skipped' = skipped /\ pc' = "found"
    BY <1>9 DEF AcceptCandidate
  <2>2. out' \in Seq(Record)
    BY <1>8, <1>9, <2>1 DEF AcceptCandidate, TypeInv, TypeOK, Yield, Record
  <2>3. QED
    BY <1>8, <2>1, <2>2 DEF TypeInv, TypeOK, Ended
<1>10. CASE ImproveBest \/ YieldHeartbeat \/ TestQuietly
  <2>0. Reject
    BY <1>10 DEF ImproveBest, YieldHeartbeat, TestQuietly
  <2>1. Evaluate /\ skipped' \in Nat
    <3>1. skipped \in Nat /\ skipped' \in {skipped, skipped + 1}
      BY <2>0 DEF Reject, TypeInv, TypeOK
    <3>2. QED
      BY <2>0, <3>1 DEF Reject
  <2>2. out' \in Seq(Record)
    <3>1. CASE ImproveBest
      BY <1>8, <2>1, <3>1 DEF ImproveBest, TypeInv, TypeOK, Yield, Record
    <3>2. CASE YieldHeartbeat
      BY <1>8, <2>1, <3>2 DEF YieldHeartbeat, TypeInv, TypeOK, Yield, Record
    <3>3. CASE TestQuietly
      BY <3>3 DEF TestQuietly, TypeInv, TypeOK
    <3>4. QED
      BY <1>10, <3>1, <3>2, <3>3
  <2>3. pc' \in {"running", "yielded"}
    BY <1>10, <2>1 DEF ImproveBest, YieldHeartbeat, TestQuietly, Evaluate, Considers
  <2>4. QED
    BY <1>8, <2>1, <2>2, <2>3 DEF TypeInv, TypeOK, Suspended
<1>11. CASE Exhaust
  <2>1. best \in Nat
    BY <1>1 DEF TypeInv, TypeOK
  <2>2. out' \in Seq(Record)
    BY <1>11, <2>1 DEF TypeInv, TypeOK, Exhaust, Yield, Record
  <2>3. QED
    BY <1>11, <2>2 DEF TypeInv, TypeOK, Exhaust, Ended
<1>12. QED
  BY <1>2, <1>3, <1>4, <1>5, <1>6, <1>7, <1>9, <1>10, <1>11 DEF Next, Loop

(* Every state of the loop is well typed.                                  *)
THEOREM TypeCorrect == Spec => []TypeOK
<1>1. Init => TypeInv
  BY InitTypeInv
<1>2. TypeInv /\ [Next]_vars => TypeInv'
  BY StepTypeInv
<1>3. TypeInv => TypeOK
  BY DEF TypeInv
<1>4. QED
  BY <1>1, <1>2, <1>3, PTL DEF Spec

---------------------------------------------------------------------------
(* The counters.                                                           *)

LEMMA InitCountsAddUp == Init => CountsAddUp
  BY DEF Init, CountsAddUp

LEMMA StepCountsAddUp == TypeInv /\ CountsAddUp /\ [Next]_vars => CountsAddUp'
<1> SUFFICES ASSUME TypeInv, CountsAddUp, [Next]_vars PROVE CountsAddUp'
  OBVIOUS
<1>1. /\ tested \in Nat /\ pruned \in Nat /\ skipped \in Nat /\ next \in Nat
      /\ problem.maxCandidates \in Int
  BY ProblemFacts DEF TypeInv, TypeOK
<1>2. CASE UNCHANGED vars
  BY <1>2 DEF CountsAddUp, vars
<1>3. CASE Pull \/ Return \/ Tick \/ StopOnBudget \/ Exhaust
  BY <1>3 DEF CountsAddUp, Pull, Return, Tick, StopOnBudget, Exhaust, Suspended, Ended
<1>4. CASE PruneCandidate
  BY <1>1, <1>4 DEF CountsAddUp, PruneCandidate, Considers
<1>5. CASE EvaluationThrows
  BY <1>1, <1>5 DEF CountsAddUp, EvaluationThrows, Considers, BudgetSpent
<1>6. ASSUME Evaluate, pc' # "failed", skipped' \in Nat, skipped' <= skipped + 1
      PROVE  CountsAddUp'
  BY <1>1, <1>6 DEF CountsAddUp, Evaluate, Considers, BudgetSpent
<1>7. CASE AcceptCandidate
  BY <1>1, <1>6, <1>7 DEF AcceptCandidate
<1>8. CASE ImproveBest \/ YieldHeartbeat \/ TestQuietly
  <2>1. Reject
    BY <1>8 DEF ImproveBest, YieldHeartbeat, TestQuietly
  <2>2. skipped' \in {skipped, skipped + 1} /\ Evaluate
    BY <2>1 DEF Reject
  <2>3. pc' # "failed"
    BY <1>8, <2>2 DEF ImproveBest, YieldHeartbeat, TestQuietly, Evaluate, Considers
  <2>4. QED
    BY <1>1, <1>6, <2>2, <2>3
<1>9. QED
  BY <1>2, <1>3, <1>4, <1>5, <1>7, <1>8 DEF Next, Loop

(* Every candidate pulled is counted exactly once and the candidate budget *)
(* is never overrun.                                                       *)
THEOREM CountsAddUpHolds == Spec => []CountsAddUp
<1>1. Init => TypeInv /\ CountsAddUp
  BY InitTypeInv, InitCountsAddUp
<1>2. (TypeInv /\ CountsAddUp) /\ [Next]_vars => (TypeInv /\ CountsAddUp)'
  BY StepTypeInv, StepCountsAddUp
<1>3. QED
  BY <1>1, <1>2, PTL DEF Spec

---------------------------------------------------------------------------
(* The best-so-far.  What was evaluated lies before next, so a tie with an *)
(* earlier candidate is a tie with a smaller index.                        *)

BestInv == BestIsEarliestMaximum /\ \A i \in log : i < next

LEMMA StepBestInv == TypeInv /\ BestInv /\ [Next]_vars => BestInv'
<1> SUFFICES ASSUME TypeInv, BestInv, [Next]_vars PROVE BestInv'
  OBVIOUS
<1>1. /\ Len(problem.clauses) \in Nat
      /\ Index(problem) = 1 .. Len(problem.clauses)
      /\ problem \in Problem /\ next \in Nat
      /\ best \in {0} \cup Index(problem) /\ log \subseteq Index(problem)
  BY ProblemFacts DEF TypeInv, TypeOK
<1>2. \A i : Score(problem, i) \in Int
  BY <1>1, ScoreIsInt
<1>3. CASE UNCHANGED <<problem, next, best, log>>
  BY <1>3 DEF BestInv, BestIsEarliestMaximum, Score, CovP, CovN
<1>4. CASE PruneCandidate
  <2>1. /\ problem' = problem /\ best' = best /\ log' = log /\ next' = next + 1
    BY <1>4 DEF PruneCandidate
  <2>2. \A i \in log : i < next + 1
    BY <1>1 DEF BestInv
  <2>3. BestIsEarliestMaximum'
    BY <2>1 DEF BestInv, BestIsEarliestMaximum, Score, CovP, CovN
  <2>4. QED
    BY <2>1, <2>2, <2>3 DEF BestInv
<1>5. CASE Evaluate
  <2>1. /\ next \in Index(problem) /\ problem' = problem
        /\ next' = next + 1 /\ log' = log \cup {next}
        /\ best' = IF Improves(problem, best, next) THEN next ELSE best
    BY <1>5 DEF Evaluate, Considers, HasNext
  <2>2. \A i \in log' : i < next'
    BY <1>1, <2>1 DEF BestInv
  <2>3. CASE Improves(problem, best, next)
    <3>1. best' = next /\ next # 0
      BY <1>1, <2>1, <2>3
    <3>2. \A i \in log : Score(problem, i) < Score(problem, next)
      BY <1>2, <2>3 DEF BestInv, BestIsEarliestMaximum, Improves
    <3>3. \A i \in log \cup {next} :
             /\ Score(problem, i) <= Score(problem, next)
             /\ Score(problem, i) = Score(problem, next) => next <= i
      BY <1>1, <1>2, <3>2
    <3>4. BestIsEarliestMaximum'
      BY <2>1, <3>1, <3>3 DEF BestIsEarliestMaximum, Score, CovP, CovN
    <3>5. QED
      BY <2>2, <3>4 DEF BestInv
  <2>4. CASE ~Improves(problem, best, next)
    <3>1. best' = best /\ best # 0 /\ Score(problem, next) <= Score(problem, best)
      BY <1>2, <2>1, <2>4 DEF Improves
    <3>2. best \in log /\ best < next
      BY <3>1 DEF BestInv, BestIsEarliestMaximum
    <3>3. \A i \in log \cup {next} :
             /\ Score(problem, i) <= Score(problem, best)
             /\ Score(problem, i) = Score(problem, best) => best <= i
      BY <1>1, <1>2, <3>1, <3>2 DEF BestInv, BestIsEarliestMaximum
    <3>4. BestIsEarliestMaximum'
      BY <1>1, <2>1, <3>1, <3>2, <3>3 DEF BestIsEarliestMaximum, Score, CovP, CovN
    <3>5. QED
      BY <2>2, <3>4 DEF BestInv
  <2>5. QED
    BY <2>3, <2>4
<1>6. CASE Pull \/ Return \/ Tick \/ StopOnBudget \/ Exhaust \/ EvaluationThrows
  BY <1>3, <1>6 DEF Pull, Return, Tick, StopOnBudget, Exhaust, EvaluationThrows
<1>7. CASE AcceptCandidate \/ ImproveBest \/ YieldHeartbeat \/ TestQuietly
  BY <1>5, <1>7 DEF AcceptCandidate, ImproveBest, YieldHeartbeat, TestQuietly, Reject
<1>8. QED
  BY <1>3, <1>4, <1>6, <1>7 DEF Next, Loop, vars

(* The reported best is the earliest candidate of the highest score.       *)
THEOREM BestIsEarliestMaximumHolds == Spec => []BestIsEarliestMaximum
<1>1. Init => TypeInv /\ BestInv
  BY InitTypeInv DEF Init, BestInv, BestIsEarliestMaximum
<1>2. (TypeInv /\ BestInv) /\ [Next]_vars => (TypeInv /\ BestInv)'
  BY StepTypeInv, StepBestInv
<1>3. BestInv => BestIsEarliestMaximum
  BY DEF BestInv
<1>4. QED
  BY <1>1, <1>2, <1>3, PTL DEF Spec

---------------------------------------------------------------------------
(* Pruning loses no solution.  Everything in the store is there because of *)
(* an evaluated candidate that was no solution; under SoundPruning that    *)
(* candidate speaks for everything it prunes.                              *)

StoreJustified(p, st) ==
  /\ \A k \in st.seen : \E j \in Index(p) : ProgramKey(p, j) = k /\ ~Solution(p, j)
  /\ \A g \in st.tooGeneral : \E j \in Index(p) : KeySet(p, j) = g /\ CovN(p, j) > p.noise
  /\ \A c \in st.tooSpecific :
       /\ ~p.moded
       /\ \E j \in Index(p) : /\ IsSingle(p, j) /\ p.clauses[j][1] = c
                             /\ CovP(p, j) < Cardinality(p.pos)

LEMMA CoverageMonotone ==
  ASSUME NEW p \in Problem, NEW i, NEW j
  PROVE  /\ p.covered[i] \cap p.neg \subseteq p.covered[j] => CovN(p, i) <= CovN(p, j)
         /\ p.covered[i] \cap p.pos \subseteq p.covered[j] => CovP(p, i) <= CovP(p, j)
<1>1. IsFiniteSet(p.pos) /\ IsFiniteSet(p.neg)
  BY ProblemFacts
<1>2. IsFiniteSet(p.covered[j] \cap p.pos) /\ IsFiniteSet(p.covered[j] \cap p.neg)
  BY <1>1, FS_Subset
<1>3. ASSUME p.covered[i] \cap p.neg \subseteq p.covered[j]
      PROVE  CovN(p, i) <= CovN(p, j)
  <2>1. p.covered[i] \cap p.neg \subseteq p.covered[j] \cap p.neg
    BY <1>3
  <2>2. QED
    BY <1>2, <2>1, FS_Subset DEF CovN
<1>4. ASSUME p.covered[i] \cap p.pos \subseteq p.covered[j]
      PROVE  CovP(p, i) <= CovP(p, j)
  <2>1. p.covered[i] \cap p.pos \subseteq p.covered[j] \cap p.pos
    BY <1>4
  <2>2. QED
    BY <1>2, <2>1, FS_Subset DEF CovP
<1>5. QED
  BY <1>3, <1>4

LEMMA FullTargetNeedsAll ==
  ASSUME NEW t \in Int, NEW m \in Nat, NEW k \in Nat, t >= 100, k < m
  PROVE  100 * k < t * m
<1>1. t * m = 100 * m + (t - 100) * m
  OBVIOUS
<1>2. (t - 100) * m >= 0
  OBVIOUS
<1>3. QED
  BY <1>1, <1>2

LEMMA PrunedIsNoSolution ==
  ASSUME NEW p \in Problem, NEW st, NEW i \in Index(p),
         SoundPruning(p), StoreJustified(p, st), Prune(p, st, i), Solution(p, i)
  PROVE  HasIllTyped(p, i)
<1>1. CovN(p, i) \in Nat /\ CovP(p, i) \in Nat /\ p.noise \in Int /\ p.targetPct \in Int
  BY ScoreIsInt, ProblemFacts
<1>2. ~Redundant(p, st, i)
  <2> SUFFICES ASSUME Redundant(p, st, i) PROVE FALSE
    OBVIOUS
  <2>1. PICK j \in Index(p) : ProgramKey(p, j) = ProgramKey(p, i) /\ ~Solution(p, j)
    BY DEF Redundant, StoreJustified
  <2>2. p.covered[i] = p.covered[j] /\ p.lowers[i] = p.lowers[j]
    BY <2>1 DEF SoundPruning, KeyFaithful
  <2>3. QED
    BY <2>1, <2>2 DEF Solution, Acceptable, CovP, CovN
<1>3. ~TooGeneral(p, st, i)
  <2> SUFFICES ASSUME TooGeneral(p, st, i) PROVE FALSE
    OBVIOUS
  <2>1. PICK j \in Index(p) : KeySet(p, j) \subseteq KeySet(p, i) /\ CovN(p, j) > p.noise
    BY DEF TooGeneral, StoreJustified
  <2>2. CovN(p, j) <= CovN(p, i)
    BY <2>1, CoverageMonotone DEF SoundPruning, ClauseMonotone
  <2>3. CovN(p, j) \in Nat
    BY ScoreIsInt
  <2>4. QED
    BY <1>1, <2>1, <2>2, <2>3 DEF Solution, Acceptable
<1>4. ~TooSpecific(p, st, i)
  <2> SUFFICES ASSUME TooSpecific(p, st, i) PROVE FALSE
    OBVIOUS
  <2>1. PICK c \in st.tooSpecific : <<c, p.clauses[i][1]>> \in p.subsumes
    BY DEF TooSpecific
  <2>2. ~p.moded /\ IsSingle(p, i)
    BY <2>1 DEF StoreJustified, TooSpecific
  <2>3. PICK j \in Index(p) : /\ IsSingle(p, j) /\ p.clauses[j][1] = c
                              /\ CovP(p, j) < Cardinality(p.pos)
    BY <2>1 DEF StoreJustified
  <2>4. p.covered[i] \cap p.pos \subseteq p.covered[j]
    BY <2>1, <2>2, <2>3 DEF SoundPruning, SubsumesMonotone
  <2>5. CovP(p, i) <= CovP(p, j) /\ CovP(p, j) \in Nat
    BY <2>4, CoverageMonotone, ScoreIsInt
  <2>6. Cardinality(p.pos) \in Nat
    BY ProblemFacts, FS_CardinalityType
  <2>7. p.pos # {}
    BY <2>3, <2>5, <2>6, FS_EmptySet
  <2>8. 100 * CovP(p, i) >= p.targetPct * Cardinality(p.pos)
    BY <2>7 DEF Solution, Acceptable
  <2>9. p.targetPct >= 100
    BY <2>2 DEF SoundPruning, FullTarget
  <2>10. 100 * CovP(p, i) < p.targetPct * Cardinality(p.pos)
    <3>1. CovP(p, i) < Cardinality(p.pos)
      BY <1>1, <2>3, <2>5, <2>6
    <3>2. QED
      BY <1>1, <2>6, <2>9, <3>1, FullTargetNeedsAll
  <2>11. 100 * CovP(p, i) \in Int /\ p.targetPct * Cardinality(p.pos) \in Int
    BY <1>1, <2>6
  <2>12. QED
    BY <2>8, <2>10, <2>11
<1>5. QED
  BY <1>2, <1>3, <1>4 DEF Prune

(* The learner, if there is one, prunes soundly.                           *)
Sound(p) == p.constrained => SoundPruning(p)

(* The solutions before n: only a learner skips any, and only ill-typed.   *)
Clean(p, n) ==
  \A i \in Index(p) : i < n /\ Solution(p, i) => p.constrained /\ HasIllTyped(p, i)

(* The store stays justified while nothing was found, and no solution lies *)
(* behind the cursor but for ill-typed ones.                               *)
LosslessInv ==
  Sound(problem) =>
    /\ pc # "found" => StoreJustified(problem, store) /\ Clean(problem, next)
    /\ pc = "found" =>
         /\ next - 1 \in Index(problem)
         /\ Solution(problem, next - 1)
         /\ Clean(problem, next - 1)
    /\ pc = "exhausted" => next \notin Index(problem)

LEMMA LearnJustified ==
  ASSUME NEW p \in Problem, NEW st, NEW i \in Index(p),
         StoreJustified(p, st), ~Solution(p, i)
  PROVE  StoreJustified(p, Learn(p, st, i))
<1> DEFINE new == Learn(p, st, i)
<1>1. \A k \in new.seen : \E j \in Index(p) : ProgramKey(p, j) = k /\ ~Solution(p, j)
  BY DEF Learn, StoreJustified
<1>2. \A g \in new.tooGeneral :
        \E j \in Index(p) : KeySet(p, j) = g /\ CovN(p, j) > p.noise
  BY DEF Learn, StoreJustified
<1>3. \A c \in new.tooSpecific :
        /\ ~p.moded
        /\ \E j \in Index(p) : /\ IsSingle(p, j) /\ p.clauses[j][1] = c
                              /\ CovP(p, j) < Cardinality(p.pos)
  BY DEF Learn, LearnsTooSpecific, StoreJustified
<1>4. QED
  BY <1>1, <1>2, <1>3 DEF StoreJustified

LEMMA InitLosslessInv == Init => LosslessInv
<1> SUFFICES ASSUME Init PROVE LosslessInv
  OBVIOUS
<1>1. StoreJustified(problem, store)
  BY DEF Init, StoreJustified, EmptyStore
<1>2. Index(problem) = 1 .. Len(problem.clauses) /\ Len(problem.clauses) \in Nat
  BY ProblemFacts DEF Init
<1>3. QED
  BY <1>1, <1>2 DEF Init, LosslessInv, Clean

LEMMA StepLosslessInv == TypeInv /\ LosslessInv /\ [Next]_vars => LosslessInv'
<1> SUFFICES ASSUME TypeInv, LosslessInv, [Next]_vars PROVE LosslessInv'
  OBVIOUS
<1>1. problem' = problem
  BY DEF vars, Next, Pull, Return, Tick, Loop, StopOnBudget, PruneCandidate, EvaluationThrows,
         AcceptCandidate, ImproveBest, YieldHeartbeat, TestQuietly, Reject, Evaluate, Exhaust
<1>2. /\ Index(problem) = 1 .. Len(problem.clauses) /\ Len(problem.clauses) \in Nat
      /\ problem \in Problem /\ next \in Nat
  BY ProblemFacts DEF TypeInv, TypeOK
<1> SUFFICES ASSUME Sound(problem)
             PROVE  /\ pc' # "found" =>
                         StoreJustified(problem, store') /\ Clean(problem, next')
                    /\ pc' = "found" => /\ next' - 1 \in Index(problem)
                                        /\ Solution(problem, next' - 1)
                                        /\ Clean(problem, next' - 1)
                    /\ pc' = "exhausted" => next' \notin Index(problem)
  BY <1>1 DEF LosslessInv
<1>3. CASE UNCHANGED <<pc, next, store>>
  BY <1>3 DEF LosslessInv
<1>4. CASE Pull \/ Return \/ StopOnBudget \/ EvaluationThrows \/ Exhaust
  <2>1. /\ pc # "found" /\ pc' # "found" /\ next' = next /\ store' = store
        /\ pc' = "exhausted" => next \notin Index(problem)
    BY <1>4 DEF Pull, Return, StopOnBudget, EvaluationThrows, Exhaust, Considers,
                Suspended, HasNext
  <2>2. QED
    BY <2>1 DEF LosslessInv
<1>5. CASE Tick
  BY <1>3, <1>5 DEF Tick
<1>6. CASE PruneCandidate
  <2>1. /\ pc = "running" /\ pc' = pc /\ store' = store /\ next' = next + 1
        /\ next \in Index(problem) /\ Prune(problem, store, next)
        /\ problem.constrained /\ SoundPruning(problem)
    BY <1>6 DEF PruneCandidate, Considers, HasNext, Pruned, Sound
  <2>2. StoreJustified(problem, store) /\ Clean(problem, next)
    BY <2>1 DEF LosslessInv
  <2>3. Solution(problem, next) => HasIllTyped(problem, next)
    BY <1>2, <2>1, <2>2, PrunedIsNoSolution
  <2>4. Clean(problem, next + 1)
    BY <1>2, <2>1, <2>2, <2>3 DEF Clean
  <2>5. QED
    BY <2>1, <2>2, <2>4
<1>7. ASSUME Evaluate
      PROVE  /\ next \in Index(problem) /\ next' = next + 1
             /\ StoreJustified(problem, store) /\ Clean(problem, next)
             /\ store' \in {store, Learn(problem, store, next)}
  BY <1>7 DEF Evaluate, Considers, HasNext, LosslessInv
<1>8. CASE AcceptCandidate
  <2>1. Evaluate /\ pc' = "found" /\ Solution(problem, next)
    BY <1>8 DEF AcceptCandidate
  <2>2. next' - 1 = next
    BY <1>2, <1>7, <2>1
  <2>3. QED
    BY <1>7, <2>1, <2>2
<1>9. CASE ImproveBest \/ YieldHeartbeat \/ TestQuietly
  <2>1. Reject /\ pc' \in {"running", "yielded"}
    BY <1>9 DEF ImproveBest, YieldHeartbeat, TestQuietly, Reject, Evaluate, Considers
  <2>2. Evaluate /\ ~Solution(problem, next)
    BY <2>1 DEF Reject
  <2>3. StoreJustified(problem, store')
    BY <1>2, <1>7, <2>2, LearnJustified
  <2>4. Clean(problem, next + 1)
    BY <1>2, <1>7, <2>2 DEF Clean
  <2>5. QED
    BY <1>7, <2>1, <2>2, <2>3, <2>4
<1>10. QED
  BY <1>3, <1>4, <1>5, <1>6, <1>8, <1>9 DEF Next, Loop, vars

(* A search that reports the space exhausted left no solution in it, and a *)
(* program returned is the first solution of the enumeration, ill-typed    *)
(* ones aside, whenever the problem makes pruning sound.                   *)
THEOREM NoSolutionLostHolds == Spec => []NoSolutionLost
<1>1. Init => TypeInv /\ LosslessInv
  BY InitTypeInv, InitLosslessInv
<1>2. (TypeInv /\ LosslessInv) /\ [Next]_vars => (TypeInv /\ LosslessInv)'
  BY StepTypeInv, StepLosslessInv
<1>3. TypeInv /\ LosslessInv => NoSolutionLost
  <2> SUFFICES ASSUME TypeInv, LosslessInv, Sound(problem), SoundPruning(problem)
               PROVE  /\ pc = "exhausted" => \A i \in Index(problem) : ~Solution(problem, i)
                      /\ pc = "found" =>
                           /\ Solution(problem, next - 1)
                           /\ \A i \in 1 .. next - 2 :
                                Solution(problem, i) => HasIllTyped(problem, i)
    BY DEF NoSolutionLost, Sound
  <2>1. /\ Index(problem) = 1 .. Len(problem.clauses) /\ Len(problem.clauses) \in Nat
        /\ next \in 1 .. Len(problem.clauses) + 1
    BY ProblemFacts DEF TypeInv, TypeOK
  <2>2. ASSUME pc = "exhausted", NEW i \in Index(problem), Solution(problem, i) PROVE FALSE
    <3>1. PICK j \in Index(problem) : Solution(problem, j) /\ ~HasIllTyped(problem, j)
      BY <2>2 DEF SoundPruning, IllTypedDispensable
    <3>2. next \notin Index(problem)
      BY <2>2 DEF LosslessInv
    <3>3. j < next
      BY <2>1, <3>2
    <3>4. QED
      BY <2>2, <3>1, <3>3 DEF LosslessInv, Clean
  <2>3. ASSUME pc = "found"
        PROVE  /\ Solution(problem, next - 1)
               /\ \A i \in 1 .. next - 2 : Solution(problem, i) => HasIllTyped(problem, i)
    <3>1. \A i \in 1 .. next - 2 : i \in Index(problem) /\ i < next - 1
      BY <2>1
    <3>2. QED
      BY <2>3, <3>1 DEF LosslessInv, Clean
  <2>4. QED
    BY <2>2, <2>3
<1>4. QED
  BY <1>1, <1>2, <1>3, PTL DEF Spec

(* When the learner prunes soundly, or there is none, and a well-typed     *)
(* solution comes before those with ill-typed clauses, an exhausted space  *)
(* holds no solution and a program found is the first of the enumeration.  *)
THEOREM FirstSolutionIsFoundHolds ==
  ASSUME \A p \in Problem : p.constrained => SoundPruning(p) /\ WellTypedFirst(p)
  PROVE  Spec => []FirstSolutionIsFound
<1>1. Init => TypeInv /\ LosslessInv
  BY InitTypeInv, InitLosslessInv
<1>2. (TypeInv /\ LosslessInv) /\ [Next]_vars => (TypeInv /\ LosslessInv)'
  BY StepTypeInv, StepLosslessInv
<1>3. TypeInv /\ LosslessInv => FirstSolutionIsFound
  <2> SUFFICES ASSUME TypeInv, LosslessInv PROVE FirstSolutionIsFound
    OBVIOUS
  <2>1. /\ Index(problem) = 1 .. Len(problem.clauses) /\ Len(problem.clauses) \in Nat
        /\ next \in 1 .. Len(problem.clauses) + 1
    BY ProblemFacts DEF TypeInv, TypeOK
  <2>2. Sound(problem) /\ (problem.constrained => WellTypedFirst(problem))
    BY DEF TypeInv, Sound
  <2>3. ASSUME NEW n \in Nat, Clean(problem, n), NEW i \in Index(problem), i < n,
               Solution(problem, i)
        PROVE  FALSE
    <3>1. problem.constrained
      BY <2>3 DEF Clean
    <3>2. PICK j \in Index(problem) : j <= i /\ Solution(problem, j) /\ ~HasIllTyped(problem, j)
      BY <2>2, <2>3, <3>1 DEF WellTypedFirst
    <3>3. j < n
      BY <2>1, <2>3, <3>2
    <3>4. QED
      BY <2>3, <3>2, <3>3 DEF Clean
  <2>4. CASE pc = "exhausted"
    <3>1. Clean(problem, next) /\ next \notin Index(problem)
      BY <2>2, <2>4 DEF LosslessInv
    <3>2. next \in Nat /\ \A i \in Index(problem) : i < next
      BY <2>1, <3>1
    <3>3. \A i \in Index(problem) : ~Solution(problem, i)
      BY <2>3, <3>1, <3>2
    <3>4. QED
      BY <2>4, <3>3 DEF FirstSolutionIsFound
  <2>5. CASE pc = "found"
    <3>1. /\ next - 1 \in Index(problem) /\ Solution(problem, next - 1)
          /\ Clean(problem, next - 1)
      BY <2>2, <2>5 DEF LosslessInv
    <3>2. /\ next - 1 \in Nat
          /\ \A i \in 1 .. next - 2 : i \in Index(problem) /\ i < next - 1
      BY <2>1, <3>1
    <3>3. \A i \in 1 .. next - 2 : ~Solution(problem, i)
      BY <2>3, <3>1, <3>2
    <3>4. QED
      BY <2>5, <3>1, <3>3 DEF FirstSolutionIsFound
  <2>6. QED
    BY <2>4, <2>5 DEF FirstSolutionIsFound
<1>4. QED
  BY <1>1, <1>2, <1>3, PTL DEF Spec

---------------------------------------------------------------------------
(* Budgets and heartbeats.                                                 *)

(* A search that stopped short of the end had its budget gone.             *)
THEOREM SpentIsHonestHolds == Spec => []SpentIsHonest
<1>1. Init => TypeInv /\ SpentIsHonest
  BY InitTypeInv DEF Init, SpentIsHonest
<1>2. TypeInv /\ SpentIsHonest /\ [Next]_vars => SpentIsHonest'
  <2> SUFFICES ASSUME TypeInv, SpentIsHonest, [Next]_vars, pc' = "spent"
               PROVE  (BudgetSpent /\ next <= Len(problem.clauses))'
    BY DEF SpentIsHonest
  <2>1. CASE StopOnBudget
    <3>1. next <= Len(problem.clauses)
      BY <2>1, ProblemFacts DEF StopOnBudget, HasNext, TypeInv, TypeOK
    <3>2. QED
      BY <2>1, <3>1 DEF StopOnBudget, BudgetSpent
  <2>2. CASE UNCHANGED vars
    BY <2>2 DEF SpentIsHonest, BudgetSpent, vars
  <2>3. QED
    BY <2>1, <2>2 DEF Next, Loop, Pull, Return, Tick, PruneCandidate, EvaluationThrows,
       AcceptCandidate, ImproveBest, YieldHeartbeat, TestQuietly, Reject, Evaluate, Exhaust,
       Considers, Ended
<1>3. QED
  <2>1. TypeInv /\ [Next]_vars => TypeInv'
    BY StepTypeInv
  <2>2. QED
    BY <1>1, <1>2, <2>1, PTL DEF Spec

(* Every candidate pulled is counted exactly once, the candidate budget is *)
(* never overrun, and a search that says its budget is spent is right.     *)
THEOREM AccountingHolds == Spec => []Accounting
<1>1. CountsAddUp /\ SpentIsHonest => Accounting
  BY DEF Accounting
<1>2. QED
  BY <1>1, CountsAddUpHolds, SpentIsHonestHolds, PTL

LEMMA RemainderRange ==
  ASSUME NEW t \in Nat, NEW h \in Nat \ {0}
  PROVE  t % h \in Nat /\ t % h < h
  OBVIOUS

LEMMA RemainderUnique ==
  ASSUME NEW q \in Int, NEW h \in Nat \ {0}, NEW s \in Nat, s < h, h * q + s \in Nat
  PROVE  (h * q + s) % h = s
<1> DEFINE t == h * q + s
           p == t \div h
           r == t % h
<1>1. p \in Int /\ r \in Nat /\ r < h /\ t = h * p + r
  OBVIOUS
<1>2. h * (p - q) = s - r
  BY <1>1
<1>3. CASE p - q >= 1
  <2>1. h * (p - q) >= h
    BY <1>1, <1>3
  <2>2. QED
    BY <1>1, <1>2, <2>1
<1>4. CASE p - q <= -1
  <2>1. h * (p - q) <= -h
    BY <1>1, <1>4
  <2>2. QED
    BY <1>1, <1>2, <2>1
<1>5. CASE p = q
  BY <1>1, <1>5
<1>6. QED
  BY <1>1, <1>3, <1>4, <1>5

LEMMA QuietRemainder ==
  ASSUME NEW t \in Nat, NEW h \in Nat \ {0}, (t + 1) % h # 0
  PROVE  (t + 1) % h = (t % h) + 1
<1> DEFINE q == t \div h
           r == t % h
<1>1. q \in Int /\ r \in 0 .. h - 1 /\ t = h * q + r
  OBVIOUS
<1>2. CASE r + 1 = h
  <2>1. t + 1 = h * (q + 1)
    BY <1>1, <1>2
  <2>2. (h * (q + 1)) % h = 0
    BY <1>1
  <2>3. QED
    BY <2>1, <2>2
<1>3. CASE r + 1 < h
  <2>1. t + 1 = h * q + (r + 1)
    BY <1>1
  <2>2. (h * q + (r + 1)) % h = r + 1
    <3>1. q \in Int /\ r + 1 \in Nat /\ r + 1 < h /\ h * q + (r + 1) \in Nat
      BY <1>1, <1>3, <2>1
    <3> HIDE DEF q, r
    <3>2. QED
      BY <3>1, RemainderUnique, Zenon
  <2>3. QED
    BY <2>1, <2>2
<1>4. QED
  BY <1>1, <1>2, <1>3

(* Between two steps of the stream the evaluations since the last multiple *)
(* of Heartbeat bound the evaluations since the last step.                 *)
QuietInv ==
  /\ LastReported \in Nat
  /\ pc # "failed" => tested - LastReported <= tested % Heartbeat
  /\ pc = "failed" => tested - LastReported <= Heartbeat

LEMMA YieldReports ==
  ASSUME TypeInv, NEW d, NEW i, NEW c, NEW e, NEW f, Yield(d, i, c, e, f)
  PROVE  LastReported' = tested'
<1>1. out \in Seq(Record)
  BY DEF TypeInv, TypeOK
<1>2. out' # <<>> /\ out'[Len(out')].tested = tested'
  BY <1>1 DEF Yield
<1>3. QED
  BY <1>2 DEF LastReported

LEMMA StepQuietInv == TypeInv /\ QuietInv /\ [Next]_vars => QuietInv'
<1> SUFFICES ASSUME TypeInv, QuietInv, [Next]_vars PROVE QuietInv'
  OBVIOUS
<1> USE HeartbeatAssumption
<1>0. TypeInv'
  BY StepTypeInv
<1>1. /\ tested \in Nat /\ tested' \in Nat
      /\ tested % Heartbeat \in Nat /\ tested % Heartbeat < Heartbeat
      /\ tested' % Heartbeat \in Nat
  <2>1. tested \in Nat /\ tested' \in Nat
    BY <1>0 DEF TypeInv, TypeOK
  <2>2. QED
    BY <2>1, RemainderRange, Zenon
<1>2. ASSUME LastReported' = tested', pc' # "failed" PROVE QuietInv'
  <2>1. tested' - tested' <= tested' % Heartbeat
    BY <1>1
  <2>2. QED
    BY <1>1, <1>2, <2>1, Zenon DEF QuietInv
<1>3. CASE UNCHANGED <<out, tested, pc>>
  BY <1>3 DEF QuietInv, LastReported
<1>4. CASE Pull \/ Return
  <2>1. UNCHANGED <<out, tested>> /\ pc # "failed" /\ pc' # "failed"
    BY <1>4 DEF Pull, Return, Suspended
  <2>2. QED
    BY <2>1 DEF QuietInv, LastReported
<1>5. CASE StopOnBudget \/ Exhaust \/ AcceptCandidate \/ ImproveBest \/ YieldHeartbeat
  <2>1. pc' # "failed"
    BY <1>5 DEF StopOnBudget, Exhaust, AcceptCandidate, ImproveBest, YieldHeartbeat
  <2>2. LastReported' = tested'
    BY <1>5, YieldReports DEF StopOnBudget, Exhaust, AcceptCandidate, ImproveBest, YieldHeartbeat
  <2>3. QED
    BY <1>2, <2>1, <2>2
<1>6. CASE EvaluationThrows
  <2>1. /\ pc # "failed" /\ pc' = "failed" /\ tested' = tested + 1 /\ out' = out
    BY <1>6 DEF EvaluationThrows, Considers
  <2>2. LastReported' = LastReported
    BY <2>1 DEF LastReported
  <2>3. QED
    BY <1>1, <2>1, <2>2 DEF QuietInv
<1>7. CASE TestQuietly
  <2>1. /\ pc = "running" /\ pc' = pc /\ tested' = tested + 1 /\ out' = out
        /\ (tested + 1) % Heartbeat # 0
    BY <1>7 DEF TestQuietly, Reject, Evaluate, Considers, BeatsNow
  <2>2. LastReported' = LastReported
    BY <2>1 DEF LastReported
  <2>3. tested' % Heartbeat = (tested % Heartbeat) + 1
    BY <1>1, <2>1, QuietRemainder
  <2>4. QED
    BY <1>1, <2>1, <2>2, <2>3 DEF QuietInv
<1>8. CASE Tick \/ PruneCandidate
  BY <1>3, <1>8 DEF Tick, PruneCandidate
<1>9. QED
  BY <1>3, <1>4, <1>5, <1>6, <1>7, <1>8 DEF Next, Loop, vars

(* No consumer waits for more than Heartbeat evaluations without a step.   *)
THEOREM HeartbeatBoundHolds == Spec => []HeartbeatBound
<1>1. Init => TypeInv /\ QuietInv
  <2>1. Init => LastReported = 0 /\ tested = 0 /\ pc # "failed"
    BY DEF Init, LastReported
  <2>2. 0 % Heartbeat \in Nat
    BY HeartbeatAssumption
  <2>3. QED
    BY <2>1, <2>2, InitTypeInv DEF QuietInv
<1>2. (TypeInv /\ QuietInv) /\ [Next]_vars => (TypeInv /\ QuietInv)'
  BY StepTypeInv, StepQuietInv
<1>3. TypeInv /\ QuietInv => HeartbeatBound
  <2> SUFFICES ASSUME TypeInv, QuietInv PROVE HeartbeatBound
    OBVIOUS
  <2>1. tested \in Nat /\ tested % Heartbeat \in 0 .. Heartbeat - 1
    BY HeartbeatAssumption DEF TypeInv, TypeOK
  <2>2. QED
    BY <2>1, HeartbeatAssumption DEF QuietInv, HeartbeatBound
<1>4. QED
  BY <1>1, <1>2, <1>3, PTL DEF Spec

---------------------------------------------------------------------------
(* The steps a consumer sees.                                              *)

(* The counters and the best have moved on since each step, and a step that*)
(* is done was the generator's last.                                       *)
OutInv ==
  /\ StreamIsOrdered
  /\ \A m \in DOMAIN out :
       /\ out[m].tested <= tested /\ out[m].pruned <= pruned /\ out[m].skipped <= skipped
       /\ out[m].done => pc \in Ended
       /\ IsImprovement(out[m]) =>
            best # 0 /\ Score(problem, out[m].program) <= Score(problem, best)

(* What a step must say to keep the order of the stream, and the loop after*)
(* it to keep the invariant.                                               *)
LEMMA YieldKeepsOrder ==
  ASSUME TypeInv, TypeInv', OutInv, pc \notin Ended, problem' = problem,
         tested' >= tested, pruned' >= pruned, skipped' >= skipped,
         NEW d \in BOOLEAN, NEW i \in BOOLEAN, NEW c \in Nat, NEW e, NEW f,
         Yield(d, i, c, e, f),
         d => pc' \in Ended,
         best' = best \/ (best' # 0 /\ Improves(problem, best, best')),
         i /\ ~d => best' = c /\ Improves(problem, best, c) /\ c # 0
  PROVE  OutInv'
<1> DEFINE s == [done |-> d, improved |-> i, program |-> c,
                 tested |-> tested', pruned |-> pruned', skipped |-> skipped',
                 exhausted |-> e, found |-> f]
           n == Len(out)
<1>1. out' = Append(out, s)
  BY Zenon DEF Yield
<1>2. /\ n \in Nat /\ DOMAIN out = 1 .. n /\ Len(out') = n + 1 /\ DOMAIN out' = 1 .. n + 1
      /\ out'[n + 1] = s /\ \A m \in 1 .. n : out'[m] = out[m]
  <2>1. out \in Seq(Record)
    BY DEF TypeInv, TypeOK
  <2>2. n \in Nat /\ DOMAIN out = 1 .. n
    BY <2>1
  <2>3. QED
    BY <1>1, <2>1, <2>2
<1>3. /\ tested \in Nat /\ pruned \in Nat /\ skipped \in Nat
      /\ tested' \in Nat /\ pruned' \in Nat /\ skipped' \in Nat
  BY DEF TypeInv, TypeOK
<1>4. \A m \in 1 .. n : /\ out[m].tested \in Nat /\ out[m].pruned \in Nat /\ out[m].skipped \in Nat
                        /\ out[m].done = FALSE
  <2>1. out \in [1 .. n -> Record]
    BY <1>2 DEF TypeInv, TypeOK
  <2>2. QED
    BY <1>2, <2>1 DEF Record, OutInv
<1>5. \A x : Score(problem, x) \in Int
  BY ScoreIsInt DEF TypeInv
<1>6. best # 0 => best' # 0 /\ Score(problem, best) <= Score(problem, best')
  <2>1. CASE best' = best
    BY <1>5, <2>1
  <2>2. CASE best' # 0 /\ Improves(problem, best, best')
    BY <1>5, <2>2 DEF Improves
  <2>3. QED
    BY <2>1, <2>2
<1>7. \A m \in 1 .. n : IsImprovement(out[m]) =>
        Score(problem, out[m].program) <= Score(problem, best) /\ best # 0
  BY <1>2 DEF OutInv
<1>8. s.tested = tested' /\ s.pruned = pruned' /\ s.skipped = skipped' /\ s.done = d
      /\ s.program = c /\ (IsImprovement(s) <=> i /\ ~d)
  BY DEF IsImprovement
<1> HIDE DEF s, n
<1>9. \A m \in 1 .. n : IsImprovement(out[m]) /\ IsImprovement(s) =>
         Score(problem, out[m].program) < Score(problem, s.program)
  BY <1>5, <1>7, <1>8 DEF Improves
<1>10. StreamIsOrdered'
  <2>1. ASSUME NEW m \in 1 .. n + 1, out'[m].done PROVE m = n + 1
    BY <1>2, <1>4, <2>1
  <2>2. ASSUME NEW m \in 1 .. n + 1, NEW k \in 1 .. n + 1, m < k
        PROVE  /\ out'[m].tested <= out'[k].tested
               /\ out'[m].pruned <= out'[k].pruned
               /\ out'[m].skipped <= out'[k].skipped
               /\ IsImprovement(out'[m]) /\ IsImprovement(out'[k]) =>
                    Score(problem, out'[m].program) < Score(problem, out'[k].program)
    <3>1. m \in 1 .. n /\ out'[m] = out[m]
      BY <1>2, <2>2
    <3>2. CASE k \in 1 .. n
      <4>1. out'[k] = out[k]
        BY <1>2, <3>2
      <4>2. QED
        BY <1>2, <2>2, <3>1, <3>2, <4>1 DEF OutInv, StreamIsOrdered
    <3>3. CASE k = n + 1
      <4>1. out'[k] = s
        BY <1>2, <3>3
      <4>2. out[m].tested <= tested /\ out[m].pruned <= pruned /\ out[m].skipped <= skipped
        BY <1>2, <3>1 DEF OutInv
      <4>3. QED
        BY <1>3, <1>4, <1>8, <1>9, <3>1, <4>1, <4>2
    <3>4. QED
      BY <1>2, <3>2, <3>3
  <2>3. QED
    BY <1>2, <2>1, <2>2 DEF StreamIsOrdered
<1>11. ASSUME NEW m \in 1 .. n + 1
       PROVE  /\ out'[m].tested <= tested' /\ out'[m].pruned <= pruned' /\ out'[m].skipped <= skipped'
              /\ out'[m].done => pc' \in Ended
              /\ IsImprovement(out'[m]) =>
                   best' # 0 /\ Score(problem, out'[m].program) <= Score(problem, best')
  <2>1. CASE m \in 1 .. n
    <3>1. out'[m] = out[m]
      BY <1>2, <2>1
    <3>2. out[m].tested <= tested /\ out[m].pruned <= pruned /\ out[m].skipped <= skipped
      BY <1>2, <2>1 DEF OutInv
    <3>3. QED
      BY <1>3, <1>4, <1>5, <1>6, <1>7, <2>1, <3>1, <3>2
  <2>2. CASE m = n + 1
    <3>1. out'[m] = s
      BY <1>2, <2>2
    <3>2. QED
      BY <1>3, <1>5, <1>8, <3>1
  <2>3. QED
    BY <1>2, <2>1, <2>2
<1>12. QED
  BY <1>2, <1>10, <1>11 DEF OutInv

LEMMA StepOutInv == TypeInv /\ OutInv /\ [Next]_vars => OutInv'
<1> SUFFICES ASSUME TypeInv, OutInv, [Next]_vars PROVE OutInv'
  OBVIOUS
<1>0. TypeInv'
  BY StepTypeInv
<1>1. /\ tested \in Nat /\ pruned \in Nat /\ skipped \in Nat /\ best \in Nat /\ next \in Nat
      /\ out \in Seq(Record) /\ \A m \in DOMAIN out : {out[m].tested, out[m].pruned, out[m].skipped} \subseteq Nat
  <2>1. best \in Nat /\ next \in Nat
    BY ProblemFacts DEF TypeInv, TypeOK
  <2>2. out \in Seq(Record)
    BY DEF TypeInv, TypeOK
  <2>3. \A m \in DOMAIN out : out[m] \in Record
    BY <2>2
  <2>4. QED
    BY <2>1, <2>2, <2>3 DEF TypeInv, TypeOK, Record
<1>2. ASSUME UNCHANGED <<problem, out, best>>, pc \in Ended => pc' \in Ended,
             tested' >= tested, pruned' >= pruned, skipped' >= skipped
      PROVE  OutInv'
  <2>1. StreamIsOrdered'
    BY <1>2 DEF OutInv, StreamIsOrdered, IsImprovement
  <2>2. ASSUME NEW m \in DOMAIN out
        PROVE  /\ out[m].tested <= tested' /\ out[m].pruned <= pruned' /\ out[m].skipped <= skipped'
               /\ out[m].done => pc' \in Ended
               /\ IsImprovement(out[m]) =>
                    best # 0 /\ Score(problem, out[m].program) <= Score(problem, best)
    <3>1. out[m].tested <= tested /\ out[m].pruned <= pruned /\ out[m].skipped <= skipped
      BY DEF OutInv
    <3>2. tested' \in Nat /\ pruned' \in Nat /\ skipped' \in Nat
      BY <1>0 DEF TypeInv, TypeOK
    <3>3. out[m].done => pc' \in Ended
      BY <1>2 DEF OutInv
    <3>4. QED
      BY <1>1, <1>2, <3>1, <3>2, <3>3 DEF OutInv
  <2>3. QED
    BY <1>2, <2>1, <2>2 DEF OutInv
<1>3. CASE UNCHANGED vars
  BY <1>1, <1>2, <1>3 DEF vars
<1>4. CASE Pull \/ Return \/ Tick
  <2>1. /\ UNCHANGED <<problem, out, best, tested, pruned, skipped>>
        /\ pc \in Ended => pc' \in Ended
    BY <1>4 DEF Pull, Return, Tick, Suspended, Ended
  <2>2. QED
    BY <1>1, <1>2, <2>1
<1>5. CASE PruneCandidate \/ EvaluationThrows
  <2>1. /\ UNCHANGED <<problem, out, best, skipped>> /\ pc \notin Ended
        /\ tested' \in {tested, tested + 1} /\ pruned' \in {pruned, pruned + 1}
    BY <1>5 DEF PruneCandidate, EvaluationThrows, Considers, Ended
  <2>2. QED
    BY <1>1, <1>2, <2>1
<1>6. CASE StopOnBudget \/ Exhaust
  <2>1. /\ UNCHANGED <<problem, best, tested, pruned, skipped>>
        /\ pc \notin Ended /\ pc' \in Ended
    BY <1>6 DEF StopOnBudget, Exhaust, Ended
  <2>2. tested' >= tested /\ pruned' >= pruned /\ skipped' >= skipped
    BY <1>1, <2>1
  <2>3. Yield(TRUE, FALSE, best, FALSE, FALSE) \/ Yield(TRUE, FALSE, best, TRUE, FALSE)
    BY <1>6, Zenon DEF StopOnBudget, Exhaust
  <2>4. QED
    BY <1>0, <1>1, <2>1, <2>2, <2>3, YieldKeepsOrder, Zenon
<1>7. ASSUME Evaluate
      PROVE  /\ UNCHANGED <<problem, pruned>> /\ pc \notin Ended
             /\ tested' = tested + 1 /\ next # 0
             /\ best' = IF Improves(problem, best, next) THEN next ELSE best
  BY <1>7, ProblemFacts DEF Evaluate, Considers, HasNext, Ended, TypeInv
<1>8. CASE AcceptCandidate
  <2>0. pc' \in Ended
    BY <1>8 DEF AcceptCandidate, Ended
  <2>1. Evaluate /\ skipped' = skipped /\ pc' \in Ended /\ Yield(TRUE, TRUE, next, FALSE, TRUE)
    BY <1>8, <2>0, Zenon DEF AcceptCandidate
  <2>2. /\ tested' >= tested /\ pruned' >= pruned /\ skipped' >= skipped
        /\ best' = best \/ (best' # 0 /\ Improves(problem, best, best'))
    BY <1>1, <1>7, <2>1
  <2>3. QED
    BY <1>0, <1>1, <1>7, <2>1, <2>2, YieldKeepsOrder
<1>9. ASSUME Reject
      PROVE  Evaluate /\ tested' >= tested /\ pruned' >= pruned /\ skipped' >= skipped
  <2>1. Evaluate /\ skipped' \in {skipped, skipped + 1}
    BY <1>9 DEF Reject
  <2>2. QED
    BY <1>1, <1>7, <2>1
<1>10. CASE ImproveBest
  <2>1. Reject /\ Improves(problem, best, next) /\ Yield(FALSE, TRUE, next, FALSE, FALSE)
    BY <1>10, Zenon DEF ImproveBest
  <2>2. QED
    BY <1>0, <1>1, <1>7, <1>9, <2>1, YieldKeepsOrder
<1>11. CASE YieldHeartbeat
  <2>1. Reject /\ ~Improves(problem, best, next) /\ Yield(FALSE, FALSE, best, FALSE, FALSE)
    BY <1>11, Zenon DEF YieldHeartbeat
  <2>2. QED
    BY <1>0, <1>1, <1>7, <1>9, <2>1, YieldKeepsOrder
<1>12. CASE TestQuietly
  <2>1. Reject /\ ~Improves(problem, best, next) /\ out' = out
    BY <1>12 DEF TestQuietly
  <2>2. QED
    BY <1>2, <1>7, <1>9, <2>1
<1>13. QED
  BY <1>3, <1>4, <1>5, <1>6, <1>8, <1>10, <1>11, <1>12 DEF Next, Loop

(* The terminal step is the last, counters never go back and improvements  *)
(* are strict, in whatever order candidates are pruned, tested and yielded.*)
THEOREM StreamIsOrderedHolds == Spec => []StreamIsOrdered
<1>1. Init => TypeInv /\ OutInv
  BY InitTypeInv DEF Init, OutInv, StreamIsOrdered
<1>2. (TypeInv /\ OutInv) /\ [Next]_vars => (TypeInv /\ OutInv)'
  BY StepTypeInv, StepOutInv
<1>3. OutInv => StreamIsOrdered
  BY DEF OutInv
<1>4. QED
  BY <1>1, <1>2, <1>3, PTL DEF Spec

---------------------------------------------------------------------------
(* The loop implements the anytime stream.                                 *)

LEMMA StepImplementsStream ==
  TypeInv /\ [Next]_vars => [Stream!Next]_<<StreamStatus, StreamBest>>
<1> SUFFICES ASSUME TypeInv, [Next]_vars
             PROVE  Stream!Next \/ UNCHANGED <<StreamStatus, StreamBest>>
  OBVIOUS
<1>1. /\ problem \in Problem /\ best \in {0} \cup Index(problem)
      /\ Index(problem) = 1 .. Len(problem.clauses) /\ Len(problem.clauses) \in Nat
  BY ProblemFacts DEF TypeInv, TypeOK
<1>2. \A i : Score(problem, i) \in Int
  BY <1>1, ScoreIsInt
<1>3. ASSUME problem' = problem, best' = best PROVE StreamBest' = StreamBest
  BY <1>3 DEF StreamBest, Score, CovP, CovN
<1>4. CASE UNCHANGED vars \/ Pull \/ Tick \/ PruneCandidate
  <2>1. problem' = problem /\ best' = best /\ StreamStatus' = StreamStatus
    BY <1>4 DEF vars, Pull, Tick, PruneCandidate, StreamStatus, Suspended
  <2>2. QED
    BY <1>3, <2>1
<1>5. CASE Return \/ EvaluationThrows
  <2>1. /\ problem' = problem /\ best' = best
        /\ StreamStatus = "open" /\ StreamStatus' \in {"failed", "left"}
    BY <1>5 DEF Return, EvaluationThrows, Considers, StreamStatus, Suspended
  <2>2. Stream!Abandon
    BY <1>3, <2>1 DEF Stream!Abandon
  <2>3. QED
    BY <2>2 DEF Stream!Next
<1>6. CASE StopOnBudget \/ Exhaust
  <2>1. /\ problem' = problem /\ best' = best
        /\ StreamStatus = "open" /\ StreamStatus' = "done"
    BY <1>6 DEF StopOnBudget, Exhaust, StreamStatus
  <2>2. Stream!Finish
    BY <1>3, <2>1 DEF Stream!Finish
  <2>3. QED
    BY <2>2 DEF Stream!Next
<1>7. ASSUME Evaluate
      PROVE  /\ StreamStatus = "open"
             /\ ~Improves(problem, best, next) => StreamBest' = StreamBest
             /\ Improves(problem, best, next) => Stream!Better(StreamBest')
  <2>1. /\ pc = "running" /\ next \in Index(problem) /\ problem' = problem
        /\ best' = IF Improves(problem, best, next) THEN next ELSE best
    BY <1>7 DEF Evaluate, Considers, HasNext
  <2>2. StreamStatus = "open"
    BY <2>1 DEF StreamStatus
  <2>3. ASSUME Improves(problem, best, next) PROVE Stream!Better(StreamBest')
    <3>1. best' = next /\ next # 0
      BY <1>1, <2>1, <2>3
    <3>2. StreamBest' = Score(problem, next)
      BY <2>1, <3>1 DEF StreamBest, Score, CovP, CovN
    <3>3. StreamBest \in Int => Score(problem, next) > StreamBest
      BY <2>3, NoScoreAssumption DEF Improves, StreamBest
    <3>4. QED
      BY <1>2, <3>2, <3>3 DEF Stream!Better
  <2>4. QED
    BY <1>3, <2>1, <2>2, <2>3
<1>8. CASE AcceptCandidate
  <2>1. Evaluate /\ StreamStatus' = "done"
    BY <1>8 DEF AcceptCandidate, StreamStatus
  <2>2. Stream!Finish
    BY <1>7, <2>1 DEF Stream!Finish
  <2>3. QED
    BY <2>2 DEF Stream!Next
<1>9. CASE ImproveBest
  <2>1. Evaluate /\ Improves(problem, best, next) /\ StreamStatus' = "open"
    BY <1>9 DEF ImproveBest, Reject, StreamStatus
  <2>2. Stream!Improve
    BY <1>7, <2>1 DEF Stream!Improve
  <2>3. QED
    BY <2>2 DEF Stream!Next
<1>10. CASE YieldHeartbeat \/ TestQuietly
  <2>1. Evaluate /\ ~Improves(problem, best, next)
    BY <1>10 DEF YieldHeartbeat, TestQuietly, Reject
  <2>2. StreamStatus' = "open"
    BY <1>10, <2>1 DEF YieldHeartbeat, TestQuietly, Evaluate, Considers, StreamStatus
  <2>3. QED
    BY <1>7, <2>1, <2>2
<1>11. QED
  BY <1>4, <1>5, <1>6, <1>8, <1>9, <1>10 DEF Next, Loop

(* What a consumer sees is an anytime stream: strictly better while open,  *)
(* ended once.                                                             *)
THEOREM SearchImplementsStream == Spec => ImplementsStream
<1>1. Init => Stream!Init
  BY DEF Init, Stream!Init, StreamStatus, StreamBest
<1>2. TypeInv /\ [Next]_vars => [Stream!Next]_<<StreamStatus, StreamBest>>
  BY StepImplementsStream
<1>3. Init => TypeInv
  BY InitTypeInv
<1>4. TypeInv /\ [Next]_vars => TypeInv'
  BY StepTypeInv
<1>5. QED
  BY <1>1, <1>2, <1>3, <1>4, PTL DEF Spec, ImplementsStream, Stream!Spec

=============================================================================
