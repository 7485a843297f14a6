------------------------------ MODULE Resolve ------------------------------
(***************************************************************************)
(* The interpreter of src/core/resolve.js: SLD resolution as a generator   *)
(* that recurses into generators.  step() and stepProof() have one control *)
(* flow, the second with a trace; the model keeps the trace.               *)
(*                                                                         *)
(* The suspended generators are a stack.  A frame is one call of step():   *)
(* its goals, its substitution, the trace that led to it and the next of   *)
(* its alternatives, clauses or background solutions, to try.              *)
(*                                                                         *)
(* A task is a record: program, a sequence of clauses [head, body, width]  *)
(* where width is the number of the clause's variables, normalized to      *)
(* 0 .. width - 1; query; maxDepth; background, the predicates of the      *)
(* registry; throws, those of them that throw; and predicates, all names.  *)
(* An atom is [predicate, args].                                           *)
(***************************************************************************)
EXTENDS Integers, Sequences, SequencesExt

CONSTANTS
  Task,               \* the tasks the interpreter may be given
  Null,               \* null
  InitialSub,         \* the substitution a run starts with
  UnifyArgs(_, _, _), \* unifyArgs: arguments, arguments, substitution
  Rename(_, _),       \* an atom with its ids shifted
  Solve(_, _, _),     \* the solutions of a background goal: task, goal, substitution
  ArgIds(_),          \* the variable ids in a sequence of terms
  IdsInSub(_)         \* the variable ids in a substitution

(* What a program means, which only the properties mention.                *)
CONSTANTS
  Instances(_, _, _), \* the joint ground instances of atoms: task, atoms, substitution
  Derivable(_, _, _), \* a ground atom has a derivation within the bound: task, atom, counts
  Replays(_, _, _),   \* a trace proves ground goals, one after the other: task, goals, trace
  AnswersAll(_)       \* the background of the task gives every solution of every goal

VARIABLES
  task,      \* the task, fixed when the generator is made
  pc,        \* where the outer generator is
  stack,     \* the suspended calls of step, the running one last
  fresh,     \* next, the counter of fresh()
  answers    \* the solutions yielded so far, each with its trace

vars == <<task, pc, stack, fresh, answers>>

Suspended == {"created", "yielded"}

---------------------------------------------------------------------------

AtomIds(a) == ArgIds(a.args)

ClauseIds(c) == AtomIds(c.head) \cup UNION {AtomIds(c.body[m]) : m \in DOMAIN c.body}

(* Faulty variant: forgets the variables of the query.                     *)
ClausesIds(t) == UNION {ClauseIds(t.program[k]) : k \in DOMAIN t.program}

ProgramIds(t) ==
  AtomIds(t.query) \cup UNION {ClauseIds(t.program[k]) : k \in DOMAIN t.program}

MaxId(t) == CHOOSE m \in {0} \cup ProgramIds(t) : \A i \in {0} \cup ProgramIds(t) : i <= m

(* Programs come out of normalize(): ids count from 0 in each clause, in   *)
(* the order in which renameClause will meet them.  A query has any ids.   *)
ASSUME TaskAssumption ==
  \A t \in Task :
    /\ ProgramIds(t) \subseteq Nat
    /\ \E m \in {0} \cup ProgramIds(t) : \A i \in {0} \cup ProgramIds(t) : i <= m
    /\ t.program \in Seq({t.program[k] : k \in DOMAIN t.program})
    /\ \A k \in DOMAIN t.program : LET c == t.program[k] IN
         /\ c.width \in Nat
         /\ ClauseIds(c) \subseteq 0 .. c.width - 1
         /\ c.body \in Seq({c.body[m] : m \in DOMAIN c.body})
         /\ \A m \in DOMAIN c.body : c.body[m].predicate \in t.predicates
    /\ t.query.predicate \in t.predicates
    /\ t.maxDepth \in Nat

Goal(a, counts) == [atom |-> a, counts |-> counts]

Frame(goals, sub, trace) == [goals |-> goals, sub |-> sub, trace |-> trace, next |-> 1]

NoExpansions(t) == [p \in t.predicates |-> 0]

Init ==
  /\ task \in Task
  /\ pc = "created"
  /\ stack = <<Frame(<<Goal(task.query, NoExpansions(task))>>, InitialSub, <<>>)>>
  /\ fresh = MaxId(task) + 1
  /\ answers = <<>>

---------------------------------------------------------------------------
(* The consumer.                                                           *)

Pull ==
  /\ pc \in Suspended
  /\ pc' = "running"
  /\ UNCHANGED <<task, stack, fresh, answers>>

(* covers() and firstProof() leave after the first solution.               *)
Return ==
  /\ pc = "yielded"
  /\ pc' = "returned"
  /\ stack' = <<>>
  /\ UNCHANGED <<task, fresh, answers>>

---------------------------------------------------------------------------
(* One turn of the innermost generator.                                    *)

Top == Last(stack)

Current == Head(Top.goals)

(* Faulty variant: counts the expansions of every predicate.               *)
DepthOfAll ==
  LET c == Current.counts IN FoldSet(LAMBDA p, n : n + c[p], 0, DOMAIN c)

Expansions == Current.counts[Current.atom.predicate]

(* No goal is left: a solution leaves through every generator.             *)
YieldSolution ==
  /\ pc = "running"
  /\ stack # <<>>
  /\ Top.goals = <<>>
  /\ answers' = Append(answers, [sub |-> Top.sub, trace |-> Top.trace])
  /\ stack' = Front(stack)
  /\ pc' = "yielded"
  /\ UNCHANGED <<task, fresh>>

HasGoal == pc = "running" /\ stack # <<>> /\ Top.goals # <<>>

Advanced == [stack EXCEPT ![Len(stack)].next = @ + 1]

(* Faulty variant: the trace grows at the wrong end.                       *)
EnterReversed(goals, sub, node) ==
  stack' = Append(Advanced, Frame(goals, sub, <<node>> \o Top.trace))

(* Recurse into the goals that are left, under one more substitution.      *)
Enter(goals, sub, node) ==
  stack' = Append(Advanced, Frame(goals, sub, Append(Top.trace, node)))

InBackground == HasGoal /\ Current.atom.predicate \in task.background

Solutions == Solve(task, Current.atom, Top.sub)

CallBackground ==
  /\ InBackground
  /\ Current.atom.predicate \notin task.throws
  /\ Top.next \in DOMAIN Solutions
  /\ Enter(Tail(Top.goals), Solutions[Top.next],
           [goal |-> Current.atom, via |-> "background"])
  /\ UNCHANGED <<task, pc, fresh, answers>>

(* A background predicate throws: the exception leaves every generator.    *)
BackgroundThrows ==
  /\ InBackground
  /\ Current.atom.predicate \in task.throws
  /\ pc' = "failed"
  /\ stack' = <<>>
  /\ UNCHANGED <<task, fresh, answers>>

(* Faulty variant: one nesting too many.                                   *)
AboveBound == Expansions > task.maxDepth

AtBound == Expansions >= task.maxDepth

MayExpand == HasGoal /\ ~InBackground /\ ~AtBound /\ Top.next \in DOMAIN task.program

Clause == task.program[Top.next]

Fits ==
  /\ Clause.head.predicate = Current.atom.predicate
  /\ Len(Clause.head.args) = Len(Current.atom.args)

SkipClause ==
  /\ MayExpand
  /\ ~Fits
  /\ stack' = Advanced
  /\ UNCHANGED <<task, pc, fresh, answers>>

(* The clause is renamed before its head is unified, so its ids are used   *)
(* up also when the head does not unify.                                   *)
Unified == UnifyArgs(Current.atom.args, Rename(Clause.head, fresh).args, Top.sub)

MissClause ==
  /\ MayExpand
  /\ Fits
  /\ Unified = Null
  /\ stack' = Advanced
  /\ fresh' = fresh + Clause.width
  /\ UNCHANGED <<task, pc, answers>>

(* The goals of the body carry one more expansion of the goal's predicate; *)
(* its siblings keep theirs.                                               *)
ChildCounts == [Current.counts EXCEPT ![Current.atom.predicate] = @ + 1]

(* Faulty variant: only the head is renamed.                               *)
BodyAsWritten == [m \in DOMAIN Clause.body |-> Goal(Clause.body[m], ChildCounts)]

Body == [m \in DOMAIN Clause.body |-> Goal(Rename(Clause.body[m], fresh), ChildCounts)]

EnterClause ==
  /\ MayExpand
  /\ Fits
  /\ Unified # Null
  /\ Enter(Body \o Tail(Top.goals), Unified, [goal |-> Current.atom, via |-> "clause"])
  /\ fresh' = fresh + Clause.width
  /\ UNCHANGED <<task, pc, answers>>

(* Faulty variant: a goal at the bound waits for its clauses to run out.   *)
BacktrackWhenExhausted ==
  /\ HasGoal
  /\ IF InBackground
       THEN Current.atom.predicate \notin task.throws /\ Top.next \notin DOMAIN Solutions
       ELSE Top.next \notin DOMAIN task.program
  /\ stack' = Front(stack)
  /\ UNCHANGED <<task, pc, fresh, answers>>

(* No alternative is left, or the bound forbids them all: the generator    *)
(* ends and the one that called it goes on.                                *)
Backtrack ==
  /\ HasGoal
  /\ IF InBackground
       THEN Current.atom.predicate \notin task.throws /\ Top.next \notin DOMAIN Solutions
       ELSE AtBound \/ Top.next \notin DOMAIN task.program
  /\ stack' = Front(stack)
  /\ UNCHANGED <<task, pc, fresh, answers>>

Finish ==
  /\ pc = "running"
  /\ stack = <<>>
  /\ pc' = "done"
  /\ UNCHANGED <<task, stack, fresh, answers>>

Step ==
  \/ YieldSolution \/ CallBackground \/ BackgroundThrows
  \/ SkipClause \/ MissClause \/ EnterClause \/ Backtrack \/ Finish

Next == Pull \/ Return \/ Step

Spec == Init /\ [][Next]_vars

(* Generators run on once they are resumed; the consumer wants every       *)
(* solution or leaves.                                                     *)
FairSpec == Spec /\ WF_vars(Step) /\ WF_vars(Pull)

---------------------------------------------------------------------------
(* Properties.                                                             *)

(* Whatever the interpreter holds, in any suspended generator, uses ids    *)
(* below the next fresh one: a clause renamed from there on clashes with no*)
(* variable of the query or of another instance ("standardizing apart").   *)
StandardizedApart ==
  \A n \in DOMAIN stack :
    /\ \A i \in IdsInSub(stack[n].sub) : i < fresh
    /\ \A m \in DOMAIN stack[n].goals : \A i \in AtomIds(stack[n].goals[m].atom) : i < fresh

(* No predicate is ever nested deeper than max_recursion_depth.            *)
RecursionBounded ==
  \A n \in DOMAIN stack : \A m \in DOMAIN stack[n].goals : \A p \in task.predicates :
    stack[n].goals[m].counts[p] <= task.maxDepth

Holds(a) == Derivable(task, a, NoExpansions(task))

(* Every solution is an answer of the program: each ground instance of the *)
(* query has a derivation that nests no predicate deeper than the bound.   *)
AnswersAreSound ==
  pc = "yielded" =>
    \A g \in Instances(task, <<task.query>>, Last(answers).sub) : Holds(g[1])

(* Every answer is found: a consumer that drained the generator has seen   *)
(* each instance of the query that holds within the recursion bound, unless*)
(* a background predicate needs inputs that were not bound or is a function*)
(* where it would have several solutions to give.                          *)
AnswersAreComplete ==
  pc = "done" /\ AnswersAll(task) =>
    \A g \in Instances(task, <<task.query>>, InitialSub) :
      Holds(g[1]) =>
        \E n \in DOMAIN answers : g \in Instances(task, <<task.query>>, answers[n].sub)

(* The goals of a trace, and the trace with those goals in their place:    *)
(* firstProof grounds a trace by the final substitution.                   *)
GoalsOf(trace) == [m \in DOMAIN trace |-> trace[m].goal]

WithGoals(trace, goals) == [m \in DOMAIN trace |-> [goal |-> goals[m], via |-> trace[m].via]]

(* A trace is evidence: it proves the query when it is re-run, goal by     *)
(* goal, against the facts and the clauses alone.                          *)
TracesAreEvidence ==
  pc = "yielded" =>
    LET a == Last(answers) IN
      \A g \in Instances(task, <<task.query>> \o GoalsOf(a.trace), a.sub) :
        Replays(task, <<g[1]>>, WithGoals(a.trace, Tail(g)))

(* Every run ends, left recursion and cyclic data included.                *)
Terminates == <>(pc \in {"done", "returned", "failed"})

=============================================================================
