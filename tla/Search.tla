------------------------------ MODULE Search ------------------------------
(***************************************************************************)
(* The anytime search loop of src/engine/synthesize.js: the generator      *)
(* search(), the consumer that pulls it (synthesize, or runJob through     *)
(* synthesizeStream) and the wall clock it reads.                          *)
(*                                                                         *)
(* The generator runs from one pull to the next yield without interruption;*)
(* a step of the model is one iteration of its loop, and the clock may     *)
(* advance between iterations because an iteration takes time.             *)
(***************************************************************************)
EXTENDS Constraints

CONSTANTS
  Problem,     \* the problems the search may be asked to solve
  Heartbeat,   \* HEARTBEAT, 256 in the code
  MaxElapsed,  \* bound on the clock of the model
  NoScore      \* what a consumer holds before the first improvement

ASSUME HeartbeatAssumption == Heartbeat \in Nat \ {0}
ASSUME ElapsedAssumption == MaxElapsed \in Nat

ASSUME NoScoreAssumption == NoScore \notin Int

ASSUME ProblemAssumption ==
  \A p \in Problem :
    /\ p.clauses \in Seq(Seq(DOMAIN p.key))
    /\ DOMAIN p.covered = DOMAIN p.clauses
    /\ DOMAIN p.lowers = DOMAIN p.clauses
    /\ \A i \in Index(p) : p.lowers[i] \in BOOLEAN
    /\ IsFiniteSet(p.pos) /\ IsFiniteSet(p.neg)
    /\ p.throws \subseteq Index(p)
    /\ p.moded \in BOOLEAN /\ p.constrained \in BOOLEAN
    /\ {p.targetPct, p.noise, p.maxCandidates, p.maxTime} \subseteq Int

VARIABLES
  problem,   \* the problem, fixed when the generator is made
  pc,        \* where the generator is
  next,      \* the candidate the next iteration pulls
  tested, pruned, skipped,   \* the counters of stats
  best,      \* best-so-far candidate, 0 for null
  store,     \* the constraint store
  elapsed,   \* Date.now() - start
  out,       \* the steps yielded so far
  log        \* history: the candidates that were evaluated

vars == <<problem, pc, next, tested, pruned, skipped, best, store, elapsed, out, log>>

Suspended == {"created", "yielded"}
Ended     == {"found", "exhausted", "spent", "failed", "returned"}

---------------------------------------------------------------------------
(* What the loop computes from a coverage.                                 *)

Score(p, i) == CovP(p, i) - CovN(p, i)

Acceptable(p, i) ==
  /\ p.pos # {} => 100 * CovP(p, i) >= p.targetPct * Cardinality(p.pos)
  /\ CovN(p, i) <= p.noise

Solution(p, i) == Acceptable(p, i) /\ p.lowers[i]

(* Faulty variant: a tie displaces the best.                               *)
ImprovesOnTies(p, b, i) == b # 0 => Score(p, i) >= Score(p, b)

(* Faulty variant: the latest candidate is always the best.                *)
ImprovesAlways(p, b, i) == TRUE

Improves(p, b, i) == b # 0 => Score(p, i) > Score(p, b)

(* One yielded step.                                                       *)
Yield(done, improved, program, exhausted, found) ==
  out' = Append(out, [done |-> done, improved |-> improved, program |-> program,
                      tested |-> tested', pruned |-> pruned', skipped |-> skipped',
                      exhausted |-> exhausted, found |-> found])

---------------------------------------------------------------------------

(* Faulty variant: counts candidates from 0.                               *)
InitAtZero ==
  /\ problem \in Problem
  /\ pc = "created"
  /\ next = 0
  /\ tested = 0 /\ pruned = 0 /\ skipped = 0
  /\ best = 0
  /\ store = EmptyStore
  /\ elapsed = 0
  /\ out = <<>>
  /\ log = {}

Init ==
  /\ problem \in Problem
  /\ pc = "created"
  /\ next = 1
  /\ tested = 0 /\ pruned = 0 /\ skipped = 0
  /\ best = 0
  /\ store = EmptyStore
  /\ elapsed = 0
  /\ out = <<>>
  /\ log = {}

(* Faulty variant: the consumer leaves a suspended generator alone.        *)
PullOnce ==
  /\ pc = "created"
  /\ pc' = "running"
  /\ UNCHANGED <<problem, next, tested, pruned, skipped, best, store, elapsed, out, log>>

(* The consumer asks for the next step; the clock starts at the first one. *)
Pull ==
  /\ pc \in Suspended
  /\ pc' = "running"
  /\ UNCHANGED <<problem, next, tested, pruned, skipped, best, store, elapsed, out, log>>

(* The consumer stops early: its for-await is left and the generator ends. *)
Return ==
  /\ pc \in Suspended
  /\ pc' = "returned"
  /\ UNCHANGED <<problem, next, tested, pruned, skipped, best, store, elapsed, out, log>>

Tick ==
  /\ pc \notin {"created"} \cup Ended
  /\ elapsed < MaxElapsed
  /\ elapsed' = elapsed + 1
  /\ UNCHANGED <<problem, pc, next, tested, pruned, skipped, best, store, out, log>>

HasNext == next \in Index(problem)

(* Faulty variant: one candidate too many.                                 *)
BudgetOverrun == tested > problem.maxCandidates \/ elapsed >= problem.maxTime

BudgetSpent == tested >= problem.maxCandidates \/ elapsed >= problem.maxTime

(* A candidate was pulled but the budget is gone: report the best so far.  *)
StopOnBudget ==
  /\ pc = "running"
  /\ HasNext
  /\ BudgetSpent
  /\ pc' = "spent"
  /\ UNCHANGED <<problem, next, tested, pruned, skipped, best, store, elapsed, log>>
  /\ Yield(TRUE, FALSE, best, FALSE, FALSE)

Considers == pc = "running" /\ HasNext /\ ~BudgetSpent

Pruned == problem.constrained /\ Prune(problem, store, next)

PruneCandidate ==
  /\ Considers
  /\ Pruned
  /\ pruned' = pruned + 1
  /\ next' = next + 1
  /\ UNCHANGED <<problem, pc, tested, skipped, best, store, elapsed, out, log>>

(* evaluate(candidate) throws (a background predicate did): the exception  *)
(* leaves the generator, the counter already moved.                        *)
EvaluationThrows ==
  /\ Considers
  /\ ~Pruned
  /\ next \in problem.throws
  /\ pc' = "failed"
  /\ tested' = tested + 1
  /\ UNCHANGED <<problem, next, pruned, skipped, best, store, elapsed, out, log>>

(* Faulty variant: a candidate the target gate refuses is never the best.  *)
EvaluateForgetsSkipped ==
  /\ Considers
  /\ ~Pruned
  /\ next \notin problem.throws
  /\ tested' = tested + 1
  /\ store' = IF problem.constrained THEN Learn(problem, store, next) ELSE store
  /\ best' = IF Improves(problem, best, next)
                 /\ (Acceptable(problem, next) => problem.lowers[next]) THEN next ELSE best
  /\ next' = next + 1
  /\ log' = log \cup {next}
  /\ UNCHANGED <<problem, pruned, elapsed>>

(* What every evaluated candidate does: count, learn, keep the best.       *)
Evaluate ==
  /\ Considers
  /\ ~Pruned
  /\ next \notin problem.throws
  /\ tested' = tested + 1
  /\ store' = IF problem.constrained THEN Learn(problem, store, next) ELSE store
  /\ best' = IF Improves(problem, best, next) THEN next ELSE best
  /\ next' = next + 1
  /\ log' = log \cup {next}
  /\ UNCHANGED <<problem, pruned, elapsed>>

(* Acceptable and lowerable: the terminal step carries this candidate.     *)
AcceptCandidate ==
  /\ Evaluate
  /\ Solution(problem, next)
  /\ pc' = "found"
  /\ UNCHANGED skipped
  /\ Yield(TRUE, TRUE, next, FALSE, TRUE)

(* Not a solution; an acceptable candidate the gate refuses is counted.    *)
Reject ==
  /\ Evaluate
  /\ ~Solution(problem, next)
  /\ skipped' = IF Acceptable(problem, next) THEN skipped + 1 ELSE skipped

ImproveBest ==
  /\ Reject
  /\ Improves(problem, best, next)
  /\ pc' = "yielded"
  /\ Yield(FALSE, TRUE, next, FALSE, FALSE)

(* Faulty variant: beats by what was pruned.                               *)
BeatsOnPruned == (pruned + 1) % Heartbeat = 0

BeatsNow == (tested + 1) % Heartbeat = 0

YieldHeartbeat ==
  /\ Reject
  /\ ~Improves(problem, best, next)
  /\ BeatsNow
  /\ pc' = "yielded"
  /\ Yield(FALSE, FALSE, best, FALSE, FALSE)

TestQuietly ==
  /\ Reject
  /\ ~Improves(problem, best, next)
  /\ ~BeatsNow
  /\ UNCHANGED <<pc, out>>

(* The enumerator is done: the terminal step says so.                      *)
Exhaust ==
  /\ pc = "running"
  /\ ~HasNext
  /\ pc' = "exhausted"
  /\ UNCHANGED <<problem, next, tested, pruned, skipped, best, store, elapsed, log>>
  /\ Yield(TRUE, FALSE, best, TRUE, FALSE)

Loop ==
  \/ StopOnBudget
  \/ PruneCandidate
  \/ EvaluationThrows
  \/ AcceptCandidate
  \/ ImproveBest
  \/ YieldHeartbeat
  \/ TestQuietly
  \/ Exhaust

Next == Pull \/ Return \/ Tick \/ Loop

Spec == Init /\ [][Next]_vars

(* Synchronous code runs on once it is started, and a consumer that neither*)
(* pulls nor returns would leave the generator suspended: synthesize() and *)
(* runJob() pull until the terminal step.                                  *)
FairSpec == Spec /\ WF_vars(Loop) /\ WF_vars(Pull)

---------------------------------------------------------------------------
(* Properties.                                                             *)

Record == [done : BOOLEAN, improved : BOOLEAN, program : Nat, tested : Nat,
           pruned : Nat, skipped : Nat, exhausted : BOOLEAN, found : BOOLEAN]

TypeOK ==
  /\ pc \in {"running"} \cup Suspended \cup Ended
  /\ next \in 1 .. Len(problem.clauses) + 1
  /\ tested \in Nat /\ pruned \in Nat /\ skipped \in Nat
  /\ best \in {0} \cup Index(problem)
  /\ elapsed \in Nat
  /\ out \in Seq(Record)
  /\ log \subseteq Index(problem)

(* The best-so-far is, of everything evaluated, the earliest candidate of  *)
(* the highest score: pruning and skipping never make the loop forget one, *)
(* and a tie never displaces the simpler program.                          *)
BestIsEarliestMaximum ==
  /\ best = 0 <=> log = {}
  /\ best # 0 =>
       /\ best \in log
       /\ \A i \in log : Score(problem, i) <= Score(problem, best)
                         /\ (Score(problem, i) = Score(problem, best) => best <= i)

(* Every candidate before next was either evaluated or pruned and counted, *)
(* and the candidate budget was never overrun, whatever the mix.           *)
CountsAddUp ==
  /\ tested + pruned = (next - 1) + (IF pc = "failed" THEN 1 ELSE 0)
  /\ tested > 0 => tested <= problem.maxCandidates
  /\ skipped <= tested

(* A terminal step that is neither found nor exhausted is owed to a budget *)
(* that is really gone, with candidates left to try.                       *)
SpentIsHonest ==
  pc = "spent" => BudgetSpent /\ next <= Len(problem.clauses)

(* What a caller concludes from an ending and its statistics is true.      *)
Accounting == CountsAddUp /\ SpentIsHonest

(* The steps a consumer sees: the terminal step is the last and the only   *)
(* one, the counters never go back, and each improvement beats the one     *)
(* before it strictly.                                                     *)
IsImprovement(s) == s.improved /\ ~s.done

StreamIsOrdered ==
  /\ \A m \in DOMAIN out : out[m].done => m = Len(out)
  /\ \A m, n \in DOMAIN out : m < n =>
       /\ out[m].tested <= out[n].tested
       /\ out[m].pruned <= out[n].pruned
       /\ out[m].skipped <= out[n].skipped
       /\ IsImprovement(out[m]) /\ IsImprovement(out[n]) =>
            Score(problem, out[m].program) < Score(problem, out[n].program)

(* A consumer is never more than Heartbeat evaluations without a step.     *)
LastReported == IF out = <<>> THEN 0 ELSE out[Len(out)].tested

HeartbeatBound == tested - LastReported <= Heartbeat

(* The generator ends: with a finite enumeration every search reaches a    *)
(* terminal step, an exception or the consumer's return.                   *)
Terminates == <>(pc \in Ended)

(* The loop keeps the promise its consumers rely on.                       *)
StreamStatus ==
  IF pc \in {"found", "exhausted", "spent"} THEN "done"
  ELSE IF pc = "failed" THEN "failed"
  ELSE IF pc = "returned" THEN "left" ELSE "open"

StreamBest == IF best = 0 THEN NoScore ELSE Score(problem, best)

Stream == INSTANCE AnytimeStream WITH status <- StreamStatus, best <- StreamBest

ImplementsStream == Stream!Spec

---------------------------------------------------------------------------
(* What makes pruning sound.  The first three say what the canonical key,  *)
(* the clause set and theta-subsumption mean for coverage; the fourth, that*)
(* an ill-typed clause is never needed; the last, that one missed positive *)
(* is fatal, which is what too_specific takes for granted.                 *)

KeyFaithful(p) ==
  \A i, j \in Index(p) : ProgramKey(p, i) = ProgramKey(p, j) =>
    p.covered[i] = p.covered[j] /\ p.lowers[i] = p.lowers[j]

ClauseMonotone(p) ==
  \A i, j \in Index(p) : KeySet(p, i) \subseteq KeySet(p, j) =>
    p.covered[i] \cap p.neg \subseteq p.covered[j]

SubsumesMonotone(p) ==
  p.moded \/
  \A i, j \in Index(p) :
    IsSingle(p, i) /\ IsSingle(p, j) /\ <<p.clauses[i][1], p.clauses[j][1]>> \in p.subsumes
      => p.covered[j] \cap p.pos \subseteq p.covered[i]

IllTypedDispensable(p) ==
  \A i \in Index(p) : Solution(p, i) =>
    \E j \in Index(p) : Solution(p, j) /\ ~HasIllTyped(p, j)

(* And what does without the ill-typed clause comes first.                 *)
WellTypedFirst(p) ==
  \A i \in Index(p) : Solution(p, i) =>
    \E j \in Index(p) : j <= i /\ Solution(p, j) /\ ~HasIllTyped(p, j)

FullTarget(p) == p.moded \/ p.targetPct >= 100

SoundPruning(p) ==
  /\ KeyFaithful(p) /\ ClauseMonotone(p) /\ SubsumesMonotone(p)
  /\ IllTypedDispensable(p) /\ FullTarget(p)

(* No answer is lost: when the search reports that it exhausted the space, *)
(* no enumerated candidate was a solution, the pruned ones included; and   *)
(* the program it returns is the first solution of the enumeration, but for*)
(* those with ill-typed clauses.                                           *)
NoSolutionLost ==
  SoundPruning(problem) =>
    /\ pc = "exhausted" => \A i \in Index(problem) : ~Solution(problem, i)
    /\ pc = "found" =>
         /\ Solution(problem, next - 1)
         /\ \A i \in 1 .. next - 2 : Solution(problem, i) => HasIllTyped(problem, i)

(* A search that exhausts the enumerated space leaves no solution in it,   *)
(* and the program it finds is the first of the enumeration.               *)
FirstSolutionIsFound ==
  /\ pc = "exhausted" => \A i \in Index(problem) : ~Solution(problem, i)
  /\ pc = "found" => Solution(problem, next - 1)
                     /\ \A i \in 1 .. next - 2 : ~Solution(problem, i)

=============================================================================
