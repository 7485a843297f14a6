--------------------------- MODULE ResolveProofs ---------------------------
(***************************************************************************)
(* What holds of the interpreter for every program, query and bound, given *)
(* what unification, renaming and the background do: their properties are  *)
(* hypotheses here, named below; MCUnify checks unification's.  The first  *)
(* part is about ids and the recursion bound; the second about what the    *)
(* interpreter answers: answers are sound and complete within the bound,   *)
(* and traces are evidence.                                                *)
(***************************************************************************)
EXTENDS Resolve, SequenceTheorems, TLAPS

---------------------------------------------------------------------------
(* Sequences of whatever: the atoms of a program form no set here.         *)

IsSeq(s) == \E T : s \in Seq(T)

LEMMA SeqFacts ==
  ASSUME NEW s, IsSeq(s)
  PROVE  Len(s) \in Nat /\ DOMAIN s = 1 .. Len(s)
BY DEF IsSeq

LEMMA AppendFacts ==
  ASSUME NEW s, IsSeq(s), NEW e
  PROVE  /\ IsSeq(Append(s, e))
         /\ Len(Append(s, e)) = Len(s) + 1
         /\ DOMAIN Append(s, e) = 1 .. Len(s) + 1
         /\ \A i \in 1 .. Len(s) : Append(s, e)[i] = s[i]
         /\ Append(s, e)[Len(s) + 1] = e
<1>1. PICK T : s \in Seq(T)  BY DEF IsSeq
<1>2. s \in Seq(T \cup {e}) /\ e \in T \cup {e}  BY <1>1
<1>3. Append(s, e) \in Seq(T \cup {e})  BY <1>2
<1> QED  BY <1>2, <1>3 DEF IsSeq

LEMMA FrontFacts ==
  ASSUME NEW s, IsSeq(s), s # <<>>
  PROVE  /\ IsSeq(Front(s))
         /\ DOMAIN Front(s) = 1 .. Len(s) - 1
         /\ \A i \in 1 .. Len(s) - 1 : Front(s)[i] = s[i]
         /\ Len(s) \in DOMAIN s /\ Last(s) = s[Len(s)]
<1>1. PICK T : s \in Seq(T)  BY DEF IsSeq
<1>2. Len(s) > 0  BY <1>1
<1>3. /\ Front(s) \in Seq(T) /\ Len(Front(s)) = Len(s) - 1
      /\ \A i \in 1 .. Len(s) - 1 : Front(s)[i] = s[i]
  <2> DEFINE n == Len(s) - 1
  <2>1. n \in Nat /\ \A i \in 1 .. n : s[i] \in T  BY <1>1, <1>2
  <2> HIDE DEF n
  <2>2. /\ SubSeq(s, 1, n) \in Seq(T)
        /\ Len(SubSeq(s, 1, n)) = IF 1 <= n THEN n - 1 + 1 ELSE 0
        /\ \A i \in 1 .. n - 1 + 1 : SubSeq(s, 1, n)[i] = s[1 + i - 1]
    BY <2>1, SubSeqProperties
  <2>3. /\ SubSeq(s, 1, n) \in Seq(T) /\ Len(SubSeq(s, 1, n)) = n
        /\ \A i \in 1 .. n : SubSeq(s, 1, n)[i] = s[i]
    BY <2>1, <2>2
  <2>4. Front(s) = SubSeq(s, 1, n)  BY DEF Front, n
  <2> QED  BY <2>3, <2>4 DEF n
<1> QED  BY <1>1, <1>2, <1>3 DEF IsSeq, Last

LEMMA TailFacts ==
  ASSUME NEW s, IsSeq(s), s # <<>>
  PROVE  /\ IsSeq(Tail(s))
         /\ 1 \in DOMAIN s /\ Head(s) = s[1]
         /\ DOMAIN Tail(s) = 1 .. Len(s) - 1
         /\ \A i \in DOMAIN Tail(s) : i + 1 \in DOMAIN s /\ Tail(s)[i] = s[i + 1]
<1>1. PICK T : s \in Seq(T)  BY DEF IsSeq
<1>2. Len(s) > 0  BY <1>1
<1>3. Tail(s) \in Seq(T)  BY <1>1, <1>2
<1> QED  BY <1>1, <1>2, <1>3 DEF IsSeq

LEMMA ConcatFacts ==
  ASSUME NEW s, IsSeq(s), NEW u, IsSeq(u)
  PROVE  /\ IsSeq(s \o u)
         /\ DOMAIN (s \o u) = 1 .. Len(s) + Len(u)
         /\ \A i \in DOMAIN s : (s \o u)[i] = s[i]
         /\ \A i \in DOMAIN u : (s \o u)[Len(s) + i] = u[i]
         /\ \A i \in DOMAIN (s \o u) : i \in DOMAIN s \/ i - Len(s) \in DOMAIN u
<1>1. PICK T : s \in Seq(T)  BY DEF IsSeq
<1>2. PICK U : u \in Seq(U)  BY DEF IsSeq
<1>3. s \in Seq(T \cup U) /\ u \in Seq(T \cup U)  BY <1>1, <1>2
<1>4. s \o u \in Seq(T \cup U)  BY <1>3
<1> QED  BY <1>3, <1>4 DEF IsSeq

---------------------------------------------------------------------------
(* Hypotheses about what is not part of this module.                       *)

(* Unification and the background bind nothing to a variable that is not   *)
(* there (MCUnify, SolvedForm).                                            *)
NoInventedIds ==
  /\ IdsInSub(InitialSub) = {}
  /\ \A as, bs, s : UnifyArgs(as, bs, s) # Null =>
       IdsInSub(UnifyArgs(as, bs, s)) \subseteq ArgIds(as) \cup ArgIds(bs) \cup IdsInSub(s)
  /\ \A t, a, s : \A k \in DOMAIN Solve(t, a, s) :
       IdsInSub(Solve(t, a, s)[k]) \subseteq AtomIds(a) \cup IdsInSub(s)

(* Renaming shifts the ids and leaves the predicate.                       *)
RenameShifts ==
  \A a : \A n \in Nat :
    /\ AtomIds(Rename(a, n)) = {i + n : i \in AtomIds(a)}
    /\ Rename(a, n).predicate = a.predicate

---------------------------------------------------------------------------
(* The inductive invariant: every frame is well formed, its ids are below  *)
(* fresh and its counts within the bound.                                  *)

GoalOK(g, m, t) ==
  /\ AtomIds(g.atom) \subseteq 0 .. m - 1
  /\ g.atom.predicate \in t.predicates
  /\ g.counts \in [t.predicates -> 0 .. t.maxDepth]

GoalsOK(goals, m, t) ==
  /\ IsSeq(goals)
  /\ \A k \in DOMAIN goals : GoalOK(goals[k], m, t)

FrameOK(f, m, t) ==
  /\ DOMAIN f = {"goals", "sub", "trace", "next"}
  /\ GoalsOK(f.goals, m, t)
  /\ IdsInSub(f.sub) \subseteq 0 .. m - 1

FramesOK(st, m, t) ==
  /\ IsSeq(st)
  /\ \A n \in DOMAIN st : FrameOK(st[n], m, t)

IInv ==
  /\ task \in Task
  /\ fresh \in Nat
  /\ FramesOK(stack, fresh, task)

LEMMA GoalFields ==
  ASSUME NEW a, NEW counts, NEW m, NEW t,
         AtomIds(a) \subseteq 0 .. m - 1, a.predicate \in t.predicates,
         counts \in [t.predicates -> 0 .. t.maxDepth]
  PROVE  GoalOK(Goal(a, counts), m, t)
<1>1. Goal(a, counts).atom = a /\ Goal(a, counts).counts = counts  BY DEF Goal
<1> QED  BY <1>1 DEF GoalOK

LEMMA GoalsGrow ==
  ASSUME NEW goals, NEW m \in Nat, NEW n \in Nat, m <= n, NEW t, GoalsOK(goals, m, t)
  PROVE  GoalsOK(goals, n, t)
BY DEF GoalsOK, GoalOK

LEMMA RenamedIds ==
  ASSUME RenameShifts, NEW a, NEW n \in Nat, NEW w \in Nat, AtomIds(a) \subseteq 0 .. w - 1
  PROVE  /\ AtomIds(Rename(a, n)) \subseteq 0 .. (n + w) - 1
         /\ Rename(a, n).predicate = a.predicate
<1>1. /\ AtomIds(Rename(a, n)) = {i + n : i \in AtomIds(a)}
      /\ Rename(a, n).predicate = a.predicate
  BY DEF RenameShifts
<1>2. \A i \in AtomIds(a) : i + n \in 0 .. (n + w) - 1  OBVIOUS
<1> QED  BY <1>1, <1>2

LEMMA ConcatOK ==
  ASSUME NEW s, NEW u, NEW m, NEW t, GoalsOK(s, m, t), GoalsOK(u, m, t)
  PROVE  GoalsOK(s \o u, m, t)
<1> DEFINE c == s \o u
<1>1. IsSeq(s) /\ IsSeq(u)  BY DEF GoalsOK
<1>2. /\ IsSeq(c)
      /\ \A i \in DOMAIN s : c[i] = s[i]
      /\ \A i \in DOMAIN u : c[Len(s) + i] = u[i]
      /\ \A i \in DOMAIN c : i \in Int /\ (i \in DOMAIN s \/ i - Len(s) \in DOMAIN u)
      /\ Len(s) \in Nat
  <2>1. Len(s) \in Nat /\ Len(u) \in Nat  BY <1>1, SeqFacts
  <2>2. DOMAIN c = 1 .. Len(s) + Len(u)  BY <1>1, ConcatFacts
  <2>3. \A i \in DOMAIN c : i \in Int  BY <2>1, <2>2
  <2>4. \A i \in DOMAIN c : i \in DOMAIN s \/ i - Len(s) \in DOMAIN u
    BY <1>1, ConcatFacts
  <2> QED  BY <1>1, <2>1, <2>3, <2>4, ConcatFacts
<1> HIDE DEF c
<1>3. ASSUME NEW i \in DOMAIN c
      PROVE  GoalOK(c[i], m, t)
  <2>1. CASE i \in DOMAIN s
    <3>1. c[i] = s[i]  BY <1>2, <2>1
    <3> QED  BY <2>1, <3>1 DEF GoalsOK
  <2>2. CASE i - Len(s) \in DOMAIN u
    <3>1. c[Len(s) + (i - Len(s))] = u[i - Len(s)]  BY <1>2, <2>2
    <3>2. Len(s) + (i - Len(s)) = i  BY <1>2
    <3>3. c[i] = u[i - Len(s)]  BY <3>1, <3>2
    <3> QED  BY <2>2, <3>3 DEF GoalsOK
  <2> QED  BY <1>2, <2>1, <2>2
<1>4. GoalsOK(c, m, t)  BY <1>2, <1>3 DEF GoalsOK
<1> QED  BY <1>4 DEF c

LEMMA FrameGrows ==
  ASSUME NEW f, NEW m \in Nat, NEW n \in Nat, m <= n, NEW t, FrameOK(f, m, t)
  PROVE  FrameOK(f, n, t)
BY DEF FrameOK, GoalsOK, GoalOK

LEMMA FramesGrow ==
  ASSUME NEW st, NEW m \in Nat, NEW n \in Nat, m <= n, NEW t, FramesOK(st, m, t)
  PROVE  FramesOK(st, n, t)
BY FrameGrows DEF FramesOK

LEMMA AdvancedOK ==
  ASSUME IInv, stack # <<>>
  PROVE  /\ FramesOK(Advanced, fresh, task)
         /\ DOMAIN Advanced = DOMAIN stack
         /\ \A n \in DOMAIN stack : /\ Advanced[n].goals = stack[n].goals
                                    /\ Advanced[n].sub = stack[n].sub
<1> USE DEF IInv, FramesOK
<1>1. PICK S : stack \in Seq(S)  BY DEF IsSeq
<1>2. Len(stack) \in DOMAIN stack  BY <1>1
<1> DEFINE new == [stack[Len(stack)] EXCEPT !.next = @ + 1]
<1>3. Advanced = [stack EXCEPT ![Len(stack)] = new]  BY DEF Advanced
<1>4. Advanced \in Seq(S \cup {new})  BY <1>1, <1>2, <1>3
<1>5. DOMAIN Advanced = DOMAIN stack  BY <1>3
<1>6. FrameOK(stack[Len(stack)], fresh, task)  BY <1>2
<1>7. /\ DOMAIN new = {"goals", "sub", "trace", "next"}
      /\ new.goals = stack[Len(stack)].goals
      /\ new.sub = stack[Len(stack)].sub
  BY <1>6 DEF FrameOK
<1> HIDE DEF new
<1>8. FrameOK(new, fresh, task)  BY <1>6, <1>7 DEF FrameOK
<1>9. \A n \in DOMAIN stack :
        Advanced[n] = IF n = Len(stack) THEN new ELSE stack[n]
  BY <1>1, <1>2, <1>3
<1> QED  BY <1>2, <1>4, <1>5, <1>7, <1>8, <1>9 DEF IsSeq

LEMMA TopOK ==
  ASSUME IInv, stack # <<>>
  PROVE  FrameOK(Top, fresh, task) /\ Len(stack) \in DOMAIN stack /\ Top = stack[Len(stack)]
BY FrontFacts DEF IInv, FramesOK, Top

LEMMA CurrentOK ==
  ASSUME IInv, HasGoal
  PROVE  /\ GoalOK(Current, fresh, task)
         /\ GoalsOK(Tail(Top.goals), fresh, task)
         /\ IdsInSub(Top.sub) \subseteq 0 .. fresh - 1
<1>1. FrameOK(Top, fresh, task) /\ Top.goals # <<>>  BY TopOK DEF HasGoal
<1> QED  BY <1>1, TailFacts DEF Current, FrameOK, GoalsOK

LEMMA FrameFields ==
  ASSUME NEW goals, NEW sub, NEW trace
  PROVE  /\ DOMAIN Frame(goals, sub, trace) = {"goals", "sub", "trace", "next"}
         /\ Frame(goals, sub, trace).goals = goals
         /\ Frame(goals, sub, trace).sub = sub
BY DEF Frame

(* Entering a call keeps the invariant if the new frame is well formed.    *)
LEMMA EnterOK ==
  ASSUME IInv, HasGoal, NEW goals, NEW sub, NEW node, Enter(goals, sub, node),
         fresh' \in Nat, fresh <= fresh', task' = task,
         GoalsOK(goals, fresh', task), IdsInSub(sub) \subseteq 0 .. fresh' - 1
  PROVE  IInv'
<1> DEFINE f == Frame(goals, sub, Append(Top.trace, node))
<1>1. stack # <<>>  BY DEF HasGoal
<1>2. FramesOK(Advanced, fresh', task)  BY <1>1, AdvancedOK, FramesGrow DEF IInv
<1>3. FrameOK(f, fresh', task)  BY FrameFields DEF FrameOK
<1>4. stack' = Append(Advanced, f)  BY DEF Enter
<1> HIDE DEF f
<1>5. FramesOK(stack', fresh', task)
  <2>1. IsSeq(Advanced)  BY <1>2 DEF FramesOK
  <2>2. Len(Advanced) \in Nat /\ DOMAIN Advanced = 1 .. Len(Advanced)  BY <2>1, SeqFacts
  <2>3. /\ IsSeq(stack') /\ DOMAIN stack' = 1 .. Len(Advanced) + 1
        /\ \A i \in 1 .. Len(Advanced) : stack'[i] = Advanced[i]
        /\ stack'[Len(Advanced) + 1] = f
    BY <1>4, <2>1, AppendFacts
  <2> QED  BY <1>2, <1>3, <2>2, <2>3 DEF FramesOK
<1> QED  BY <1>5 DEF IInv

LEMMA MaxIdBounds ==
  ASSUME NEW t \in Task
  PROVE  /\ MaxId(t) \in Nat
         /\ AtomIds(t.query) \subseteq 0 .. MaxId(t)
<1> DEFINE I == {0} \cup ProgramIds(t)
<1>1. \E m \in I : \A i \in I : i <= m  BY TaskAssumption
<1>2. MaxId(t) \in I /\ \A i \in I : i <= MaxId(t)
  BY <1>1 DEF MaxId
<1>3. I \subseteq Nat
  <2>1. ProgramIds(t) \subseteq Nat  BY TaskAssumption
  <2> QED  BY <2>1
<1>4. AtomIds(t.query) \subseteq I  BY DEF ProgramIds
<1> QED  BY <1>2, <1>3, <1>4

LEMMA InitInv ==
  ASSUME NoInventedIds, Init
  PROVE  IInv
<1> DEFINE g == Goal(task.query, NoExpansions(task))
           f == Frame(<<g>>, InitialSub, <<>>)
<1>1. task \in Task /\ fresh \in Nat /\ fresh = MaxId(task) + 1
  BY MaxIdBounds DEF Init
<1>2. GoalOK(g, fresh, task)
  <2>1. AtomIds(task.query) \subseteq 0 .. fresh - 1  BY <1>1, MaxIdBounds
  <2>2. task.query.predicate \in task.predicates /\ task.maxDepth \in Nat
    BY <1>1, TaskAssumption
  <2>3. NoExpansions(task) \in [task.predicates -> 0 .. task.maxDepth]
    BY <2>2 DEF NoExpansions
  <2> QED  BY <2>1, <2>2, <2>3 DEF GoalOK, Goal
<1> HIDE DEF g
<1>3. GoalsOK(<<g>>, fresh, task)
  <2>1. <<g>> \in Seq({g}) /\ DOMAIN <<g>> = {1} /\ <<g>>[1] = g  OBVIOUS
  <2>2. IsSeq(<<g>>)  BY <2>1 DEF IsSeq
  <2> QED  BY <1>2, <2>1, <2>2 DEF GoalsOK
<1>4. FrameOK(f, fresh, task)
  BY <1>3, FrameFields DEF FrameOK, NoInventedIds
<1>5. stack = <<f>>  BY DEF Init, g
<1> HIDE DEF f
<1>6. <<f>> \in Seq({f})  OBVIOUS
<1>7. IsSeq(stack)  BY <1>5, <1>6 DEF IsSeq
<1> QED  BY <1>1, <1>4, <1>5, <1>7 DEF IInv, FramesOK

(* What EnterClause puts on the stack is renamed from fresh on.            *)
LEMMA ClauseOK ==
  ASSUME IInv, NoInventedIds, RenameShifts, MayExpand, Fits, Unified # Null
  PROVE  /\ fresh + Clause.width \in Nat /\ fresh <= fresh + Clause.width
         /\ GoalsOK(Body \o Tail(Top.goals), fresh + Clause.width, task)
         /\ IdsInSub(Unified) \subseteq 0 .. (fresh + Clause.width) - 1
<1>1. /\ task \in Task /\ fresh \in Nat /\ Top.next \in DOMAIN task.program
      /\ HasGoal /\ ~AtBound
  BY DEF IInv, MayExpand
<1>2. /\ Clause.width \in Nat
      /\ AtomIds(Clause.head) \subseteq 0 .. Clause.width - 1
      /\ Len(Clause.body) \in Nat /\ DOMAIN Clause.body = 1 .. Len(Clause.body)
      /\ \A k \in DOMAIN Clause.body : /\ AtomIds(Clause.body[k]) \subseteq 0 .. Clause.width - 1
                                  /\ Clause.body[k].predicate \in task.predicates
  <2>1. /\ Clause.width \in Nat
        /\ ClauseIds(Clause) \subseteq 0 .. Clause.width - 1
        /\ Clause.body \in Seq({Clause.body[k] : k \in DOMAIN Clause.body})
        /\ \A k \in DOMAIN Clause.body : Clause.body[k].predicate \in task.predicates
    BY <1>1, TaskAssumption DEF Clause
  <2>2. Len(Clause.body) \in Nat /\ DOMAIN Clause.body = 1 .. Len(Clause.body)
    BY <2>1
  <2> QED  BY <2>1, <2>2 DEF ClauseIds
<1>3. /\ GoalOK(Current, fresh, task)
      /\ GoalsOK(Tail(Top.goals), fresh, task)
      /\ IdsInSub(Top.sub) \subseteq 0 .. fresh - 1
  BY <1>1, CurrentOK
<1>4. fresh + Clause.width \in Nat /\ fresh <= fresh + Clause.width  BY <1>1, <1>2
<1>5. GoalsOK(Tail(Top.goals), fresh + Clause.width, task)
  BY <1>1, <1>3, <1>4, GoalsGrow
<1>6. ChildCounts \in [task.predicates -> 0 .. task.maxDepth]
  <2>1. task.maxDepth \in Nat  BY <1>1, TaskAssumption
  <2>2. /\ Current.counts \in [task.predicates -> 0 .. task.maxDepth]
        /\ Current.atom.predicate \in task.predicates
        /\ ~(Current.counts[Current.atom.predicate] >= task.maxDepth)
    BY <1>1, <1>3 DEF GoalOK, AtBound, Expansions
  <2> QED  BY <2>1, <2>2 DEF ChildCounts
<1>7. GoalsOK(Body, fresh + Clause.width, task)
  <2>1. DOMAIN Body = DOMAIN Clause.body  BY DEF Body
  <2>2. ASSUME NEW k \in DOMAIN Clause.body
        PROVE  GoalOK(Body[k], fresh + Clause.width, task)
    <3>1. Body[k] = Goal(Rename(Clause.body[k], fresh), ChildCounts)
      BY <2>2 DEF Body
    <3>2. /\ AtomIds(Rename(Clause.body[k], fresh)) \subseteq 0 .. (fresh + Clause.width) - 1
          /\ Rename(Clause.body[k], fresh).predicate = Clause.body[k].predicate
      BY <1>1, <1>2, <2>2, RenamedIds
    <3>3. Rename(Clause.body[k], fresh).predicate \in task.predicates
      BY <1>2, <2>2, <3>2
    <3>4. GoalOK(Goal(Rename(Clause.body[k], fresh), ChildCounts), fresh + Clause.width, task)
      BY <1>6, <3>2, <3>3, GoalFields
    <3> QED  BY <3>1, <3>4
  <2>3. Body \in Seq({Body[k] : k \in DOMAIN Clause.body})
    BY <1>2, <2>1 DEF Body
  <2> QED  BY <2>1, <2>2, <2>3 DEF GoalsOK, IsSeq
<1>8. GoalsOK(Body \o Tail(Top.goals), fresh + Clause.width, task)
  BY <1>5, <1>7, ConcatOK
<1>9. IdsInSub(Unified) \subseteq 0 .. (fresh + Clause.width) - 1
  <2>1. AtomIds(Rename(Clause.head, fresh)) \subseteq 0 .. (fresh + Clause.width) - 1
    BY <1>1, <1>2, RenamedIds
  <2>2. IdsInSub(Unified) \subseteq AtomIds(Current.atom) \cup AtomIds(Rename(Clause.head, fresh))
                                  \cup IdsInSub(Top.sub)
    BY DEF NoInventedIds, Unified, AtomIds
  <2>3. AtomIds(Current.atom) \subseteq 0 .. fresh - 1  BY <1>3 DEF GoalOK
  <2>4. 0 .. fresh - 1 \subseteq 0 .. (fresh + Clause.width) - 1  BY <1>1, <1>2
  <2> QED  BY <1>3, <2>1, <2>2, <2>3, <2>4
<1> QED  BY <1>4, <1>8, <1>9

(* Each action keeps the invariant.                                        *)
LEMMA PopOK ==
  ASSUME IInv, stack # <<>>, stack' = Front(stack), UNCHANGED <<task, fresh>>
  PROVE  IInv'
BY FrontFacts, SeqFacts DEF IInv, FramesOK

LEMMA StepInv ==
  ASSUME NoInventedIds, RenameShifts, IInv, [Next]_vars
  PROVE  IInv'
<1>1. CASE UNCHANGED vars  BY <1>1 DEF vars, IInv
<1>2. CASE Pull  BY <1>2 DEF Pull, IInv
<1>3. CASE stack' = <<>> /\ UNCHANGED <<task, fresh>>
  <2>1. IsSeq(<<>>) /\ DOMAIN <<>> = {}
    <3>1. <<>> \in Seq({})  OBVIOUS
    <3> QED  BY <3>1 DEF IsSeq
  <2>2. FramesOK(<<>>, fresh, task)  BY <2>1 DEF FramesOK
  <2> QED  BY <1>3, <2>2 DEF IInv
<1>4. CASE Return \/ BackgroundThrows
  BY <1>3, <1>4 DEF Return, BackgroundThrows
<1>5. CASE YieldSolution \/ Backtrack
  BY <1>5, PopOK DEF YieldSolution, Backtrack, HasGoal
<1>6. CASE SkipClause
  <2>1. stack # <<>> /\ stack' = Advanced /\ UNCHANGED <<task, fresh>>
    BY <1>6 DEF SkipClause, MayExpand, HasGoal
  <2> QED  BY <2>1, AdvancedOK DEF IInv
<1>7. CASE MissClause
  <2>1. /\ stack # <<>> /\ stack' = Advanced /\ task' = task
        /\ fresh' = fresh + Clause.width
        /\ task \in Task /\ fresh \in Nat /\ Top.next \in DOMAIN task.program
    BY <1>7 DEF MissClause, MayExpand, HasGoal, IInv
  <2>2. Clause.width \in Nat  BY <2>1, TaskAssumption DEF Clause
  <2>3. fresh' \in Nat /\ fresh <= fresh'  BY <2>1, <2>2
  <2>4. FramesOK(Advanced, fresh', task)
    BY <2>1, <2>3, AdvancedOK, FramesGrow
  <2> QED  BY <2>1, <2>3, <2>4 DEF IInv
<1>8. CASE CallBackground
  <2>1. /\ HasGoal /\ UNCHANGED <<task, fresh>>
        /\ Top.next \in DOMAIN Solutions
        /\ Enter(Tail(Top.goals), Solutions[Top.next],
                 [goal |-> Current.atom, via |-> "background"])
    BY <1>8 DEF CallBackground, InBackground
  <2>2. /\ GoalOK(Current, fresh, task)
        /\ GoalsOK(Tail(Top.goals), fresh, task)
        /\ IdsInSub(Top.sub) \subseteq 0 .. fresh - 1
    BY <2>1, CurrentOK
  <2>3. IdsInSub(Solutions[Top.next]) \subseteq AtomIds(Current.atom) \cup IdsInSub(Top.sub)
    BY <2>1 DEF NoInventedIds, Solutions
  <2>4. IdsInSub(Solutions[Top.next]) \subseteq 0 .. fresh - 1
    BY <2>2, <2>3 DEF GoalOK
  <2>5. fresh' \in Nat /\ fresh <= fresh' /\ fresh' = fresh  BY <2>1 DEF IInv
  <2> QED  BY <2>1, <2>2, <2>4, <2>5, EnterOK
<1>9. CASE EnterClause
  <2>1. /\ MayExpand /\ HasGoal /\ Fits /\ Unified # Null
        /\ task' = task /\ fresh' = fresh + Clause.width
        /\ Enter(Body \o Tail(Top.goals), Unified, [goal |-> Current.atom, via |-> "clause"])
    BY <1>9 DEF EnterClause, MayExpand
  <2>2. /\ fresh' \in Nat /\ fresh <= fresh'
        /\ GoalsOK(Body \o Tail(Top.goals), fresh', task)
        /\ IdsInSub(Unified) \subseteq 0 .. fresh' - 1
    <3>1. /\ fresh + Clause.width \in Nat /\ fresh <= fresh + Clause.width
          /\ GoalsOK(Body \o Tail(Top.goals), fresh + Clause.width, task)
          /\ IdsInSub(Unified) \subseteq 0 .. (fresh + Clause.width) - 1
      BY <2>1, ClauseOK
    <3>2. fresh' = fresh + Clause.width  BY <2>1
    <3>3. GoalsOK(Body \o Tail(Top.goals), fresh', task)  BY <3>1, <3>2, Zenon
    <3>4. fresh' \in Nat /\ fresh <= fresh'  BY <3>1, <3>2
    <3>5. IdsInSub(Unified) \subseteq 0 .. fresh' - 1  BY <3>1, <3>2, Zenon
    <3> QED  BY <3>3, <3>4, <3>5
  <2> QED  BY <2>1, <2>2, EnterOK
<1>10. CASE Finish
  BY <1>10 DEF Finish, IInv
<1> QED
  BY <1>1, <1>2, <1>4, <1>5, <1>6, <1>7, <1>8, <1>9, <1>10 DEF Next, Step

(* Suspended calls stay well formed under every step of stepProof.         *)
THEOREM Invariance ==
  ASSUME NoInventedIds, RenameShifts
  PROVE  Spec => []IInv
<1>1. Init => IInv  BY InitInv
<1>2. IInv /\ [Next]_vars => IInv'  BY StepInv
<1> QED  BY <1>1, <1>2, PTL DEF Spec

(* Standardizing apart: renamed clauses clash with nothing that is live.   *)
THEOREM StandardizedApartHolds ==
  ASSUME NoInventedIds, RenameShifts
  PROVE  Spec => []StandardizedApart
<1>1. IInv => StandardizedApart
  <2> SUFFICES ASSUME IInv, NEW n \in DOMAIN stack
               PROVE  /\ \A i \in IdsInSub(stack[n].sub) : i < fresh
                      /\ \A m \in DOMAIN stack[n].goals :
                           \A i \in AtomIds(stack[n].goals[m].atom) : i < fresh
    BY DEF StandardizedApart
  <2>1. fresh \in Nat /\ \A i \in 0 .. fresh - 1 : i < fresh  BY DEF IInv
  <2>2. FrameOK(stack[n], fresh, task)  BY DEF IInv, FramesOK
  <2> QED  BY <2>1, <2>2 DEF FrameOK, GoalsOK, GoalOK
<1> QED  BY <1>1, Invariance, PTL

(* The recursion bound: no predicate nests deeper than maxDepth.           *)
THEOREM RecursionBoundedHolds ==
  ASSUME NoInventedIds, RenameShifts
  PROVE  Spec => []RecursionBounded
<1>1. IInv => RecursionBounded
  <2> SUFFICES ASSUME IInv, NEW n \in DOMAIN stack, NEW m \in DOMAIN stack[n].goals,
                      NEW p \in task.predicates
               PROVE  stack[n].goals[m].counts[p] <= task.maxDepth
    BY DEF RecursionBounded
  <2>1. FrameOK(stack[n], fresh, task)  BY DEF IInv, FramesOK
  <2>2. stack[n].goals[m].counts \in [task.predicates -> 0 .. task.maxDepth]
    BY <2>1 DEF FrameOK, GoalsOK, GoalOK
  <2>3. task.maxDepth \in Nat  BY TaskAssumption DEF IInv
  <2> QED  BY <2>2, <2>3
<1> QED  BY <1>1, Invariance, PTL

---------------------------------------------------------------------------
(* Ground semantics.  A valuation gives every variable a ground term; the  *)
(* value of arguments under it is a tuple of ground terms.                 *)

CONSTANTS
  Herbrand,       \* the ground terms
  Value(_, _),    \* arguments, valuation
  Respects(_, _), \* valuation, substitution: bound variables have their term's value
  Fact(_, _)      \* task, ground atom: the background holds it

Valuation == [Nat -> Herbrand]

Ground(a, v) == [predicate |-> a.predicate, args |-> Value(a.args, v)]

Grounds(atoms, v) == [k \in DOMAIN atoms |-> Ground(atoms[k], v)]

(* What a clause renamed from n on means under v, and a valuation that is  *)
(* v below n and w from there on.                                          *)
Shifted(v, n) == [i \in Nat |-> v[i + n]]

Merged(v, w, n) == [i \in Nat |-> IF i < n THEN v[i] ELSE w[i - n]]

---------------------------------------------------------------------------
(* Hypotheses: what is not part of Resolve, and what its constants for the *)
(* meaning of a program stand for.                                         *)

(* Values depend on the variables that occur.                              *)
ValuesAreLocal ==
  \A v, u \in Valuation :
    /\ \A as : (\A i \in ArgIds(as) : v[i] = u[i]) => Value(as, v) = Value(as, u)
    /\ \A s : (\A i \in IdsInSub(s) : v[i] = u[i]) /\ Respects(v, s) => Respects(u, s)
    /\ \A as : Len(Value(as, v)) = Len(as)

RenameKeepsValues ==
  \A a : \A n \in Nat :
    /\ Len(Rename(a, n).args) = Len(a.args)
    /\ \A v \in Valuation : Value(Rename(a, n).args, v) = Value(a.args, Shifted(v, n))

(* MCUnify, UnifierIsMostGeneral: the valuations that respect the unifier  *)
(* are those that respect what it extends and make both sides equal.       *)
UnifierIsSound ==
  \A as, bs, s : \A v \in Valuation :
    UnifyArgs(as, bs, s) # Null /\ Respects(v, UnifyArgs(as, bs, s)) =>
      Respects(v, s) /\ Value(as, v) = Value(bs, v)

UnifierIsGeneral ==
  \A as, bs, s : \A v \in Valuation :
    Respects(v, s) /\ Value(as, v) = Value(bs, v) =>
      UnifyArgs(as, bs, s) # Null /\ Respects(v, UnifyArgs(as, bs, s))

BackgroundIsSound ==
  \A t \in Task : \A a, s : a.predicate \in t.background =>
    \A k \in DOMAIN Solve(t, a, s) : \A v \in Valuation :
      Respects(v, Solve(t, a, s)[k]) => Respects(v, s) /\ Fact(t, Ground(a, v))

(* What it is for a background to give every solution.                     *)
BackgroundIsComplete ==
  \A t \in Task : AnswersAll(t) => \A a, s : a.predicate \in t.background =>
    /\ IsSeq(Solve(t, a, s))
    /\ \A v \in Valuation : Respects(v, s) /\ Fact(t, Ground(a, v)) =>
         \E k \in DOMAIN Solve(t, a, s) : Respects(v, Solve(t, a, s)[k])

InstancesAreGroundings ==
  \A t, atoms, s :
    Instances(t, atoms, s) = {Grounds(atoms, v) : v \in {u \in Valuation : Respects(u, s)}}

(* Clause k under valuation v has the ground atom g for its head, and its  *)
(* body holds one expansion further.                                       *)
Supports(t, k, v, g, counts) ==
  /\ Ground(t.program[k].head, v) = g
  /\ \A m \in DOMAIN t.program[k].body :
       Derivable(t, Ground(t.program[k].body[m], v), [counts EXCEPT ![g.predicate] = @ + 1])

(* The defining equation of Derivable.                                     *)
DerivableUnfolds ==
  \A t \in Task : \A counts \in [t.predicates -> Nat] : \A g :
    g.predicate \in t.predicates =>
      /\ g.predicate \in t.background => (Derivable(t, g, counts) <=> Fact(t, g))
      /\ g.predicate \notin t.background =>
           (Derivable(t, g, counts) <=>
              /\ counts[g.predicate] < t.maxDepth
              /\ \E k \in DOMAIN t.program : \E v \in Valuation : Supports(t, k, v, g, counts))

(* Traces that replay: nothing proves nothing, a fact proves itself, and an*)
(* instance of a clause leaves its body to be proved.                      *)
ReplaysUnfolds ==
  \A t \in Task :
    /\ Replays(t, <<>>, <<>>)
    /\ \A g, goals, rest :
         IsSeq(goals) /\ IsSeq(rest) /\ g.predicate \in t.background /\ Fact(t, g)
           /\ Replays(t, goals, rest)
           => Replays(t, <<g>> \o goals, <<[goal |-> g, via |-> "background"]>> \o rest)
    /\ \A k \in DOMAIN t.program : \A v \in Valuation : \A goals, rest :
         LET g == Ground(t.program[k].head, v) IN
           IsSeq(goals) /\ IsSeq(rest) /\ g.predicate \notin t.background
             /\ Replays(t, Grounds(t.program[k].body, v) \o goals, rest)
             => Replays(t, <<g>> \o goals, <<[goal |-> g, via |-> "clause"]>> \o rest)

LEMMA ShiftedValue ==
  ASSUME NEW v \in Valuation, NEW n \in Nat
  PROVE  Shifted(v, n) \in Valuation
BY DEF Valuation, Shifted

LEMMA MergedValue ==
  ASSUME NEW v \in Valuation, NEW w \in Valuation, NEW n \in Nat
  PROVE  /\ Merged(v, w, n) \in Valuation
         /\ \A i \in 0 .. n - 1 : Merged(v, w, n)[i] = v[i]
         /\ Shifted(Merged(v, w, n), n) = w
<1> DEFINE u == Merged(v, w, n)
<1>1. u \in Valuation
  <2>1. \A i \in Nat : (IF i < n THEN v[i] ELSE w[i - n]) \in Herbrand
    BY DEF Valuation
  <2> QED  BY <2>1 DEF Valuation, Merged
<1>2. \A i \in 0 .. n - 1 : u[i] = v[i]  BY DEF Merged
<1>3. \A i \in Nat : u[i + n] = w[i]
  <2> SUFFICES ASSUME NEW i \in Nat PROVE u[i + n] = w[i]  OBVIOUS
  <2>1. i + n \in Nat /\ ~(i + n < n) /\ (i + n) - n = i  OBVIOUS
  <2>2. u[i + n] = w[(i + n) - n]  BY <2>1 DEF Merged
  <2> QED  BY <2>1, <2>2
<1> HIDE DEF u
<1>4. Shifted(u, n) = [i \in Nat |-> w[i]]  BY <1>3 DEF Shifted
<1>5. w = [i \in Nat |-> w[i]]  BY DEF Valuation
<1> QED  BY <1>1, <1>2, <1>4, <1>5 DEF u

(* The ground instance of a renamed atom is one of the atom.               *)
LEMMA RenamedGround ==
  ASSUME RenameShifts, RenameKeepsValues, NEW a, NEW n \in Nat, NEW v \in Valuation
  PROVE  Ground(Rename(a, n), v) = Ground(a, Shifted(v, n))
BY DEF RenameShifts, RenameKeepsValues, Ground

LEMMA LocalGround ==
  ASSUME ValuesAreLocal, NEW v \in Valuation, NEW u \in Valuation, NEW a,
         \A i \in AtomIds(a) : v[i] = u[i]
  PROVE  Ground(a, v) = Ground(a, u)
BY DEF ValuesAreLocal, AtomIds, Ground

LEMMA GroundPredicate ==
  ASSUME NEW a, NEW v
  PROVE  Ground(a, v).predicate = a.predicate /\ Ground(a, v).args = Value(a.args, v)
BY DEF Ground

---------------------------------------------------------------------------
(* Goals and traces under a valuation.                                     *)

GoalAtoms(goals, v) == [m \in DOMAIN goals |-> Ground(goals[m].atom, v)]

GroundNode(node, v) == [goal |-> Ground(node.goal, v), via |-> node.via]

GroundTrace(trace, v) == [m \in DOMAIN trace |-> GroundNode(trace[m], v)]

LEMMA IsSeqOf ==
  ASSUME NEW n \in Nat, NEW s, s = [i \in 1 .. n |-> s[i]]
  PROVE  IsSeq(s) /\ Len(s) = n
<1> DEFINE T == {s[i] : i \in 1 .. n}
<1>1. s \in [1 .. n -> T]  BY Zenon
<1> HIDE DEF T
<1>2. s \in Seq(T) /\ Len(s) = n  BY <1>1
<1> QED  BY <1>2 DEF IsSeq

LEMMA SeqIsItsElements ==
  ASSUME NEW s, IsSeq(s)
  PROVE  s = [i \in 1 .. Len(s) |-> s[i]] /\ Len(s) \in Nat
BY DEF IsSeq

LEMMA SameSeq ==
  ASSUME NEW s, NEW u, IsSeq(s), IsSeq(u), Len(s) = Len(u),
         \A i \in 1 .. Len(s) : s[i] = u[i]
  PROVE  s = u
<1>1. s = [i \in 1 .. Len(s) |-> s[i]] /\ u = [i \in 1 .. Len(u) |-> u[i]]
  BY SeqIsItsElements
<1>2. [i \in 1 .. Len(s) |-> s[i]] = [i \in 1 .. Len(s) |-> u[i]]
  OBVIOUS
<1> QED  BY <1>1, <1>2

(* A goal or a node put before or after the others.                        *)
LEMMA ConsFacts ==
  ASSUME NEW e, NEW s, IsSeq(s)
  PROVE  /\ IsSeq(<<e>> \o s) /\ Len(<<e>> \o s) = Len(s) + 1
         /\ (<<e>> \o s)[1] = e
         /\ \A i \in 1 .. Len(s) : (<<e>> \o s)[i + 1] = s[i]
         /\ Tail(<<e>> \o s) = s
<1> DEFINE c == <<e>> \o s
<1>1. IsSeq(<<e>>) /\ Len(<<e>>) = 1 /\ DOMAIN <<e>> = {1} /\ <<e>>[1] = e
  <2>1. <<e>> \in Seq({e}) /\ Len(<<e>>) = 1 /\ DOMAIN <<e>> = {1} /\ <<e>>[1] = e
    OBVIOUS
  <2>2. IsSeq(<<e>>)  BY <2>1, Zenon DEF IsSeq
  <2> QED  BY <2>1, <2>2
<1>2. Len(s) \in Nat /\ DOMAIN s = 1 .. Len(s)  BY SeqFacts
<1>3. /\ IsSeq(c) /\ DOMAIN c = 1 .. 1 + Len(s) /\ c[1] = e
      /\ \A i \in 1 .. Len(s) : c[1 + i] = s[i]
  BY <1>1, <1>2, ConcatFacts
<1> HIDE DEF c
<1>4. Len(c) = Len(s) + 1
  <2>1. Len(c) \in Nat /\ DOMAIN c = 1 .. Len(c)  BY <1>3, SeqFacts
  <2> QED  BY <1>2, <1>3, <2>1
<1>5. c # <<>>  BY <1>2, <1>4
<1>6. IsSeq(Tail(c)) /\ DOMAIN Tail(c) = 1 .. Len(s)
      /\ \A i \in 1 .. Len(s) : Tail(c)[i] = s[i]
  <2>1. /\ IsSeq(Tail(c)) /\ DOMAIN Tail(c) = 1 .. Len(c) - 1
        /\ \A i \in DOMAIN Tail(c) : Tail(c)[i] = c[i + 1]
    BY <1>3, <1>5, TailFacts
  <2>2. \A i \in 1 .. Len(s) : c[i + 1] = c[1 + i]  OBVIOUS
  <2> QED  BY <1>2, <1>3, <1>4, <2>1, <2>2
<1>7. Len(Tail(c)) = Len(s)
  <2>1. Len(Tail(c)) \in Nat /\ DOMAIN Tail(c) = 1 .. Len(Tail(c))  BY <1>6, SeqFacts
  <2> QED  BY <1>2, <1>6, <2>1
<1>8. Tail(c) = s  BY <1>2, <1>6, <1>7, SameSeq
<1>9. \A i \in 1 .. Len(s) : c[i + 1] = s[i]
  <2> TAKE i \in 1 .. Len(s)
  <2>1. c[1 + i] = s[i] /\ i + 1 = 1 + i  BY <1>3
  <2> QED  BY <2>1
<1> QED  BY <1>3, <1>4, <1>8, <1>9 DEF c

LEMMA GoalAtomsSeq ==
  ASSUME NEW goals, IsSeq(goals), NEW v
  PROVE  IsSeq(GoalAtoms(goals, v)) /\ Len(GoalAtoms(goals, v)) = Len(goals)
         /\ \A i \in 1 .. Len(goals) : GoalAtoms(goals, v)[i] = Ground(goals[i].atom, v)
<1>1. Len(goals) \in Nat /\ DOMAIN goals = 1 .. Len(goals)  BY SeqFacts
<1>2. GoalAtoms(goals, v) = [i \in 1 .. Len(goals) |-> Ground(goals[i].atom, v)]
  BY <1>1 DEF GoalAtoms
<1>3. \A i \in 1 .. Len(goals) : GoalAtoms(goals, v)[i] = Ground(goals[i].atom, v)
  BY <1>2
<1>4. GoalAtoms(goals, v) = [i \in 1 .. Len(goals) |-> GoalAtoms(goals, v)[i]]
  BY <1>2, <1>3
<1> QED  BY <1>1, <1>3, <1>4, IsSeqOf

LEMMA GroundTraceSeq ==
  ASSUME NEW trace, IsSeq(trace), NEW v
  PROVE  IsSeq(GroundTrace(trace, v)) /\ Len(GroundTrace(trace, v)) = Len(trace)
         /\ \A i \in 1 .. Len(trace) : GroundTrace(trace, v)[i] = GroundNode(trace[i], v)
<1>1. Len(trace) \in Nat /\ DOMAIN trace = 1 .. Len(trace)  BY SeqFacts
<1>2. GroundTrace(trace, v) = [i \in 1 .. Len(trace) |-> GroundNode(trace[i], v)]
  BY <1>1 DEF GroundTrace
<1>3. \A i \in 1 .. Len(trace) : GroundTrace(trace, v)[i] = GroundNode(trace[i], v)
  BY <1>2
<1>4. GroundTrace(trace, v) = [i \in 1 .. Len(trace) |-> GroundTrace(trace, v)[i]]
  BY <1>2, <1>3
<1> QED  BY <1>1, <1>3, <1>4, IsSeqOf

(* c has the elements of s and then those of u.                            *)
Joins(c, s, u) ==
  /\ IsSeq(c) /\ Len(c) = Len(s) + Len(u)
  /\ Len(s) \in Nat /\ Len(u) \in Nat
  /\ \A i \in 1 .. Len(s) : c[i] = s[i]
  /\ \A i \in 1 .. Len(u) : c[Len(s) + i] = u[i]

LEMMA ConcatSeq ==
  ASSUME NEW s, IsSeq(s), NEW u, IsSeq(u)
  PROVE  Joins(s \o u, s, u)
<1> DEFINE c == s \o u
<1>1. /\ Len(s) \in Nat /\ DOMAIN s = 1 .. Len(s)
      /\ Len(u) \in Nat /\ DOMAIN u = 1 .. Len(u)
  BY SeqFacts
<1>2. IsSeq(c) /\ DOMAIN c = 1 .. Len(s) + Len(u)  BY ConcatFacts
<1>3. /\ \A i \in 1 .. Len(s) : c[i] = s[i]
      /\ \A i \in 1 .. Len(u) : c[Len(s) + i] = u[i]
  BY <1>1, ConcatFacts
<1> HIDE DEF c
<1>4. Len(c) \in Nat /\ DOMAIN c = 1 .. Len(c)  BY <1>2, SeqFacts
<1>5. Len(c) = Len(s) + Len(u)  BY <1>1, <1>2, <1>4
<1>6. Joins(c, s, u)  BY <1>1, <1>2, <1>3, <1>5 DEF Joins
<1> QED  BY <1>6 DEF c

LEMMA GoalAtomsOfConcat ==
  ASSUME NEW s, IsSeq(s), NEW u, IsSeq(u), NEW v
  PROVE  GoalAtoms(s \o u, v) = GoalAtoms(s, v) \o GoalAtoms(u, v)
<1> DEFINE c == s \o u
           x == GoalAtoms(c, v)
           y == GoalAtoms(s, v) \o GoalAtoms(u, v)
<1>1. /\ IsSeq(c) /\ Len(c) = Len(s) + Len(u) /\ Len(s) \in Nat /\ Len(u) \in Nat
      /\ \A i \in 1 .. Len(s) : c[i] = s[i]
      /\ \A i \in 1 .. Len(u) : c[Len(s) + i] = u[i]
  <2>1. Joins(c, s, u)  BY ConcatSeq
  <2> HIDE DEF c
  <2> QED  BY <2>1 DEF Joins
<1> HIDE DEF c
<1>2. /\ IsSeq(GoalAtoms(s, v)) /\ Len(GoalAtoms(s, v)) = Len(s)
      /\ \A i \in 1 .. Len(s) : GoalAtoms(s, v)[i] = Ground(s[i].atom, v)
  BY GoalAtomsSeq
<1>3. /\ IsSeq(GoalAtoms(u, v)) /\ Len(GoalAtoms(u, v)) = Len(u)
      /\ \A i \in 1 .. Len(u) : GoalAtoms(u, v)[i] = Ground(u[i].atom, v)
  BY GoalAtomsSeq
<1> DEFINE p == GoalAtoms(s, v)
           q == GoalAtoms(u, v)
<1>4. /\ IsSeq(y) /\ Len(y) = Len(s) + Len(u)
      /\ \A i \in 1 .. Len(s) : y[i] = GoalAtoms(s, v)[i]
      /\ \A i \in 1 .. Len(u) : y[Len(s) + i] = GoalAtoms(u, v)[i]
  <2>1. IsSeq(p) /\ IsSeq(q) /\ Len(p) = Len(s) /\ Len(q) = Len(u)
    BY <1>2, <1>3
  <2>2. Joins(y, p, q)
    <3>1. Joins(p \o q, p, q)
      <4> HIDE DEF p, q
      <4> QED  BY <2>1, ConcatSeq
    <3> QED  BY <3>1
  <2> HIDE DEF p, q, y
  <2>3. /\ IsSeq(y) /\ Len(y) = Len(s) + Len(u)
        /\ \A i \in 1 .. Len(s) : y[i] = p[i]
        /\ \A i \in 1 .. Len(u) : y[Len(s) + i] = q[i]
    BY <2>1, <2>2 DEF Joins
  <2> QED  BY <2>3 DEF p, q
<1>5. /\ IsSeq(x) /\ Len(x) = Len(s) + Len(u)
      /\ \A i \in 1 .. Len(s) + Len(u) : x[i] = Ground(c[i].atom, v)
  BY <1>1, GoalAtomsSeq
<1> HIDE DEF x, y
<1>6. ASSUME NEW i \in 1 .. Len(s) + Len(u) PROVE x[i] = y[i]
  <2>1. CASE i \in 1 .. Len(s)
    <3>1. c[i] = s[i] /\ y[i] = Ground(s[i].atom, v)  BY <1>1, <1>2, <1>4, <2>1
    <3> QED  BY <1>5, <3>1
  <2>2. CASE i \notin 1 .. Len(s)
    <3> DEFINE j == i - Len(s)
    <3>1. j \in 1 .. Len(u) /\ i = Len(s) + j  BY <1>1, <2>2
    <3> HIDE DEF j
    <3>2. c[i] = u[j] /\ y[i] = Ground(u[j].atom, v)  BY <1>1, <1>3, <1>4, <3>1
    <3> QED  BY <1>5, <3>2
  <2> QED  BY <2>1, <2>2
<1>7. x = y  BY <1>4, <1>5, <1>6, SameSeq
<1> QED  BY <1>7 DEF x, y, c

(* Goals are the first one and the others.                                 *)
LEMMA GoalAtomsOfCons ==
  ASSUME NEW goals, IsSeq(goals), goals # <<>>, NEW v
  PROVE  GoalAtoms(goals, v) = <<Ground(Head(goals).atom, v)>> \o GoalAtoms(Tail(goals), v)
<1> DEFINE x == GoalAtoms(goals, v)
           r == GoalAtoms(Tail(goals), v)
           e == Ground(Head(goals).atom, v)
           y == <<e>> \o r
<1>1. /\ IsSeq(Tail(goals)) /\ Head(goals) = goals[1]
      /\ DOMAIN Tail(goals) = 1 .. Len(goals) - 1 /\ 1 \in DOMAIN goals
      /\ \A i \in DOMAIN Tail(goals) : Tail(goals)[i] = goals[i + 1]
  BY TailFacts
<1>2. /\ Len(goals) \in Nat /\ DOMAIN goals = 1 .. Len(goals)
      /\ Len(Tail(goals)) \in Nat /\ DOMAIN Tail(goals) = 1 .. Len(Tail(goals))
  BY <1>1, SeqFacts
<1>3. Len(Tail(goals)) = Len(goals) - 1 /\ Len(goals) > 0  BY <1>1, <1>2
<1>4. /\ IsSeq(r) /\ Len(r) = Len(goals) - 1
      /\ \A i \in 1 .. Len(goals) - 1 : r[i] = Ground(Tail(goals)[i].atom, v)
  <2>1. /\ IsSeq(r) /\ Len(r) = Len(Tail(goals))
        /\ \A i \in 1 .. Len(Tail(goals)) : r[i] = Ground(Tail(goals)[i].atom, v)
    BY <1>1, GoalAtomsSeq, Zenon
  <2> QED  BY <1>3, <2>1, Zenon
<1>5. /\ IsSeq(x) /\ Len(x) = Len(goals)
      /\ \A i \in 1 .. Len(goals) : x[i] = Ground(goals[i].atom, v)
  BY GoalAtomsSeq
<1> HIDE DEF x, r
<1>6. /\ IsSeq(y) /\ Len(y) = Len(goals) - 1 + 1 /\ y[1] = e
      /\ \A i \in 1 .. Len(goals) - 1 : y[i + 1] = r[i]
  BY <1>4, ConsFacts
<1>7. x[1] = e  BY <1>1, <1>2, <1>5
<1> HIDE DEF y, e
<1>8. ASSUME NEW i \in 1 .. Len(goals) PROVE x[i] = y[i]
  <2>1. CASE i = 1  BY <1>6, <1>7, <2>1
  <2>2. CASE i # 1
    <3> DEFINE j == i - 1
    <3>1. j \in 1 .. Len(goals) - 1 /\ i = j + 1  BY <1>2, <2>2
    <3> HIDE DEF j
    <3>2. Tail(goals)[j] = goals[i]  BY <1>1, <3>1
    <3>3. y[i] = r[j] /\ r[j] = Ground(Tail(goals)[j].atom, v)  BY <1>4, <1>6, <3>1
    <3> QED  BY <1>5, <3>2, <3>3
  <2> QED  BY <2>1, <2>2
<1>9. x = y
  <2>1. Len(x) = Len(y)  BY <1>2, <1>5, <1>6
  <2> QED  BY <1>5, <1>6, <1>8, <2>1, SameSeq
<1> QED  BY <1>9 DEF x, y, e, r

(* A trace that grew by a node, and what is to come.                       *)
LEMMA GroundTraceGrows ==
  ASSUME NEW trace, IsSeq(trace), NEW node, NEW rest, IsSeq(rest), NEW v
  PROVE  GroundTrace(Append(trace, node), v) \o rest
           = GroundTrace(trace, v) \o (<<GroundNode(node, v)>> \o rest)
<1> DEFINE a == Append(trace, node)
           g == GroundTrace(a, v)
           h == GroundTrace(trace, v)
           e == GroundNode(node, v)
           r == <<e>> \o rest
           x == g \o rest
           y == h \o r
           n == Len(trace)
           m == Len(rest)
<1>1. n \in Nat /\ m \in Nat  BY SeqFacts
<1>2. /\ IsSeq(a) /\ Len(a) = n + 1
      /\ \A i \in 1 .. n : a[i] = trace[i]
      /\ a[n + 1] = node
  BY AppendFacts
<1> HIDE DEF a
<1>3. /\ IsSeq(g) /\ Len(g) = n + 1 /\ \A i \in 1 .. n + 1 : g[i] = GroundNode(a[i], v)
  BY <1>2, GroundTraceSeq
<1>4. /\ IsSeq(h) /\ Len(h) = n /\ \A i \in 1 .. n : h[i] = GroundNode(trace[i], v)
  BY GroundTraceSeq
<1> HIDE DEF g, h
<1>5. /\ IsSeq(r) /\ Len(r) = m + 1 /\ r[1] = e /\ \A i \in 1 .. m : r[i + 1] = rest[i]
  BY ConsFacts
<1> HIDE DEF r
<1>6. /\ IsSeq(x) /\ Len(x) = n + 1 + m
      /\ \A i \in 1 .. n + 1 : x[i] = g[i]
      /\ \A i \in 1 .. m : x[n + 1 + i] = rest[i]
  <2>1. Joins(x, g, rest)  BY <1>3, ConcatSeq
  <2> HIDE DEF x
  <2> QED  BY <1>3, <2>1 DEF Joins
<1>7. /\ IsSeq(y) /\ Len(y) = n + (m + 1)
      /\ \A i \in 1 .. n : y[i] = h[i]
      /\ \A i \in 1 .. m + 1 : y[n + i] = r[i]
  <2>1. Joins(y, h, r)  BY <1>4, <1>5, ConcatSeq
  <2> HIDE DEF y
  <2> QED  BY <1>4, <1>5, <2>1 DEF Joins
<1> HIDE DEF x, y, n, m
<1>8. ASSUME NEW i \in 1 .. n + 1 + m PROVE x[i] = y[i]
  <2>1. CASE i \in 1 .. n
    <3>1. x[i] = GroundNode(a[i], v) /\ a[i] = trace[i] /\ y[i] = GroundNode(trace[i], v)
      BY <1>1, <1>2, <1>3, <1>4, <1>6, <1>7, <2>1
    <3> QED  BY <3>1
  <2>2. CASE i = n + 1
    <3>1. x[i] = GroundNode(a[n + 1], v)  BY <1>1, <1>3, <1>6, <2>2
    <3>2. y[i] = r[1]  BY <1>1, <1>7, <2>2
    <3> QED  BY <1>2, <1>5, <3>1, <3>2 DEF e
  <2>3. CASE i > n + 1
    <3> DEFINE j == i - (n + 1)
    <3>1. j \in 1 .. m /\ i = n + 1 + j /\ i = n + (j + 1) /\ j + 1 \in 1 .. m + 1
      BY <1>1, <2>3
    <3> HIDE DEF j
    <3>2. x[i] = rest[j] /\ y[i] = r[j + 1]  BY <1>6, <1>7, <3>1
    <3> QED  BY <1>5, <3>1, <3>2
  <2> QED  BY <1>1, <2>1, <2>2, <2>3
<1>9. x = y
  <2>1. Len(x) = Len(y) /\ Len(x) = n + 1 + m  BY <1>1, <1>6, <1>7
  <2> QED  BY <1>6, <1>7, <1>8, <2>1, SameSeq
<1> QED  BY <1>9 DEF x, y, g, h, r, e, a

---------------------------------------------------------------------------
(* What a step does to the stack.                                          *)

(* Suspended calls know their next alternative and how they came about, the*)
(* query's variables are older than any renaming, and nothing is left on   *)
(* the stack of a generator that is done.                                  *)
CallInv ==
  /\ IInv
  /\ AtomIds(task.query) \subseteq 0 .. fresh - 1
  /\ pc = "done" => stack = <<>>
  /\ IsSeq(answers)
  /\ \A n \in DOMAIN stack : stack[n].next \in Nat \ {0} /\ IsSeq(stack[n].trace)

(* The same call, which goes on with another of its alternatives.          *)
SameCall(f, g) ==
  f.goals = g.goals /\ f.sub = g.sub /\ f.trace = g.trace

LEMMA StackShape ==
  ASSUME IInv, stack # <<>>
  PROVE  /\ Len(stack) \in Nat \ {0}
         /\ DOMAIN stack = 1 .. Len(stack)
         /\ Top = stack[Len(stack)]
<1>1. IsSeq(stack)  BY DEF IInv, FramesOK
<1>2. Len(stack) \in Nat /\ DOMAIN stack = 1 .. Len(stack)  BY <1>1, SeqFacts
<1>3. Len(stack) \in DOMAIN stack /\ Top = stack[Len(stack)]  BY TopOK
<1> QED  BY <1>2, <1>3

LEMMA AdvancedShape ==
  ASSUME IInv, stack # <<>>
  PROVE  /\ IsSeq(Advanced) /\ Len(Advanced) = Len(stack)
         /\ DOMAIN Advanced = 1 .. Len(stack)
         /\ \A n \in 1 .. Len(stack) - 1 : Advanced[n] = stack[n]
         /\ SameCall(Advanced[Len(stack)], Top)
         /\ Advanced[Len(stack)].next = Top.next + 1
<1> DEFINE f == stack[Len(stack)]
           new == [f EXCEPT !.next = @ + 1]
<1>1. /\ Len(stack) \in Nat \ {0} /\ DOMAIN stack = 1 .. Len(stack) /\ Top = f
  BY StackShape
<1>2. IsSeq(Advanced) /\ DOMAIN Advanced = DOMAIN stack
  BY AdvancedOK DEF FramesOK
<1>3. Len(Advanced) \in Nat /\ DOMAIN Advanced = 1 .. Len(Advanced)
  BY <1>2, SeqFacts
<1>4. Advanced = [stack EXCEPT ![Len(stack)] = new]  BY DEF Advanced
<1>5. DOMAIN f = {"goals", "sub", "trace", "next"}
  BY <1>1, TopOK DEF FrameOK
<1>6. SameCall(new, f) /\ new.next = f.next + 1
  <2> HIDE DEF f
  <2> QED  BY <1>5 DEF SameCall
<1> HIDE DEF new, f
<1>7. \A n \in DOMAIN stack : Advanced[n] = IF n = Len(stack) THEN new ELSE stack[n]
  BY <1>4
<1>8. Advanced[Len(stack)] = new  BY <1>1, <1>7
<1>9. \A n \in 1 .. Len(stack) - 1 : Advanced[n] = stack[n]  BY <1>1, <1>7
<1>10. Len(Advanced) = Len(stack)  BY <1>1, <1>2, <1>3
<1> QED  BY <1>1, <1>2, <1>6, <1>8, <1>9, <1>10

LEMMA NewFrame ==
  ASSUME NEW goals, NEW sub, NEW trace
  PROVE  /\ Frame(goals, sub, trace).goals = goals
         /\ Frame(goals, sub, trace).sub = sub
         /\ Frame(goals, sub, trace).trace = trace
         /\ Frame(goals, sub, trace).next = 1
BY DEF Frame

LEMMA EnterShape ==
  ASSUME IInv, HasGoal, NEW goals, NEW sub, NEW node, Enter(goals, sub, node)
  PROVE  /\ DOMAIN stack' = 1 .. Len(stack) + 1
         /\ \A n \in 1 .. Len(stack) : stack'[n] = Advanced[n]
         /\ stack'[Len(stack) + 1] = Frame(goals, sub, Append(Top.trace, node))
<1> DEFINE f == Frame(goals, sub, Append(Top.trace, node))
<1>1. stack # <<>>  BY DEF HasGoal
<1>2. stack' = Append(Advanced, f)  BY DEF Enter
<1>3. IsSeq(Advanced) /\ Len(Advanced) = Len(stack)  BY <1>1, AdvancedShape
<1> HIDE DEF f
<1>4. /\ DOMAIN stack' = 1 .. Len(stack) + 1
      /\ \A n \in 1 .. Len(stack) : stack'[n] = Advanced[n]
      /\ stack'[Len(stack) + 1] = f
  BY <1>2, <1>3, AppendFacts
<1> QED  BY <1>4 DEF f

LEMMA PopShape ==
  ASSUME IInv, stack # <<>>, stack' = Front(stack)
  PROVE  /\ DOMAIN stack' = 1 .. Len(stack) - 1
         /\ \A n \in 1 .. Len(stack) - 1 : stack'[n] = stack[n]
BY FrontFacts DEF IInv, FramesOK

LEMMA AnswerShape ==
  ASSUME CallInv, YieldSolution
  PROVE  /\ IsSeq(answers')
         /\ Len(answers) \in Nat /\ DOMAIN answers = 1 .. Len(answers)
         /\ DOMAIN answers' = 1 .. Len(answers) + 1
         /\ \A n \in 1 .. Len(answers) : answers'[n] = answers[n]
         /\ answers'[Len(answers) + 1] = [sub |-> Top.sub, trace |-> Top.trace]
         /\ Last(answers') = answers'[Len(answers) + 1]
<1> DEFINE a == [sub |-> Top.sub, trace |-> Top.trace]
<1>1. answers' = Append(answers, a)  BY DEF YieldSolution
<1>2. IsSeq(answers) /\ Len(answers) \in Nat /\ DOMAIN answers = 1 .. Len(answers)
  BY SeqFacts DEF CallInv
<1> HIDE DEF a
<1>3. /\ IsSeq(answers') /\ Len(answers') = Len(answers) + 1
      /\ DOMAIN answers' = 1 .. Len(answers) + 1
      /\ \A n \in 1 .. Len(answers) : answers'[n] = answers[n]
      /\ answers'[Len(answers) + 1] = a
  BY <1>1, <1>2, AppendFacts
<1>4. Last(answers') = answers'[Len(answers) + 1]  BY <1>3 DEF Last
<1> QED  BY <1>2, <1>3, <1>4 DEF a

(* A step leaves the stack alone, clears it, drops the innermost call,     *)
(* moves that call on to its next alternative, or has it call.             *)
CallsFact ==
  /\ HasGoal /\ InBackground /\ Top.next \in DOMAIN Solutions
  /\ Enter(Tail(Top.goals), Solutions[Top.next], [goal |-> Current.atom, via |-> "background"])

CallsClause ==
  /\ HasGoal /\ MayExpand /\ Fits /\ Unified # Null
  /\ Enter(Body \o Tail(Top.goals), Unified, [goal |-> Current.atom, via |-> "clause"])

LEMMA StepShapes ==
  ASSUME [Next]_vars
  PROVE  /\ task' = task
         /\ \/ UNCHANGED stack
            \/ stack' = <<>>
            \/ stack # <<>> /\ stack' = Front(stack)
            \/ stack # <<>> /\ stack' = Advanced
            \/ CallsFact
            \/ CallsClause
<1>1. CASE SkipClause \/ MissClause
  BY <1>1 DEF SkipClause, MissClause, MayExpand, HasGoal
<1>2. CASE CallBackground
  BY <1>2 DEF CallBackground, CallsFact, InBackground
<1>3. CASE EnterClause
  BY <1>3 DEF EnterClause, CallsClause, MayExpand
<1>4. CASE YieldSolution \/ Backtrack
  BY <1>4 DEF YieldSolution, Backtrack, HasGoal
<1>5. CASE Return \/ BackgroundThrows
  BY <1>5 DEF Return, BackgroundThrows
<1>6. CASE UNCHANGED vars \/ Pull \/ Finish
  BY <1>6 DEF vars, Pull, Finish
<1> QED  BY <1>1, <1>2, <1>3, <1>4, <1>5, <1>6 DEF Next, Step

LEMMA CallsStep ==
  ASSUME CallInv, [Next]_vars
  PROVE  \A n \in DOMAIN stack' : stack'[n].next \in Nat \ {0} /\ IsSeq(stack'[n].trace)
<1> DEFINE P(f) == f.next \in Nat \ {0} /\ IsSeq(f.trace)
<1>1. IInv /\ \A n \in DOMAIN stack : P(stack[n])  BY DEF CallInv
<1>2. ASSUME stack # <<>>
      PROVE  P(Top) /\ \A n \in 1 .. Len(stack) : P(Advanced[n])
  <2>1. /\ Len(stack) \in Nat \ {0} /\ DOMAIN stack = 1 .. Len(stack)
        /\ Top = stack[Len(stack)]
    BY <1>1, <1>2, StackShape
  <2>2. P(Top)  BY <1>1, <2>1
  <2>3. /\ \A n \in 1 .. Len(stack) - 1 : Advanced[n] = stack[n]
        /\ SameCall(Advanced[Len(stack)], Top)
        /\ Advanced[Len(stack)].next = Top.next + 1
    BY <1>1, <1>2, AdvancedShape
  <2>4. P(Advanced[Len(stack)])  BY <2>2, <2>3 DEF SameCall
  <2> HIDE DEF P
  <2> QED  BY <1>1, <2>1, <2>2, <2>3, <2>4
<1>3. ASSUME HasGoal, NEW goals, NEW sub, NEW node, Enter(goals, sub, node)
      PROVE  \A n \in DOMAIN stack' : P(stack'[n])
  <2> DEFINE trace == Append(Top.trace, node)
  <2>1. stack # <<>>  BY <1>3 DEF HasGoal
  <2>2. /\ DOMAIN stack' = 1 .. Len(stack) + 1
        /\ \A n \in 1 .. Len(stack) : stack'[n] = Advanced[n]
        /\ stack'[Len(stack) + 1] = Frame(goals, sub, trace)
    BY <1>1, <1>3, EnterShape
  <2>3. IsSeq(trace)  BY <1>2, <2>1, AppendFacts
  <2> HIDE DEF trace
  <2>4. P(Frame(goals, sub, trace))  BY <2>3, NewFrame
  <2>5. Len(stack) \in Nat  BY <1>1, <2>1, StackShape
  <2> HIDE DEF P
  <2> QED  BY <1>2, <2>1, <2>2, <2>4, <2>5
<1>4. CASE stack # <<>> /\ stack' = Front(stack)
  <2>1. \A n \in DOMAIN stack' : n \in DOMAIN stack /\ stack'[n] = stack[n]
    BY <1>1, <1>4, PopShape, StackShape
  <2> QED  BY <1>1, <2>1
<1>5. CASE stack # <<>> /\ stack' = Advanced
  BY <1>1, <1>2, <1>5, AdvancedShape
<1>6. CASE UNCHANGED stack \/ stack' = <<>>
  BY <1>1, <1>6
<1>7. CASE CallsFact \/ CallsClause
  BY <1>3, <1>7 DEF CallsFact, CallsClause
<1> QED  BY <1>4, <1>5, <1>6, <1>7, StepShapes

LEMMA CallInit ==
  ASSUME NoInventedIds, Init
  PROVE  CallInv
<1> DEFINE g == Goal(task.query, NoExpansions(task))
           f == Frame(<<g>>, InitialSub, <<>>)
<1>1. IInv /\ task \in Task  BY InitInv DEF Init
<1>2. AtomIds(task.query) \subseteq 0 .. fresh - 1
  <2>1. fresh = MaxId(task) + 1  BY DEF Init
  <2> QED  BY <1>1, <2>1, MaxIdBounds
<1>3. stack = <<f>> /\ answers = <<>> /\ pc = "created"  BY DEF Init
<1>4. f.next = 1 /\ f.trace = <<>>  BY NewFrame
<1> HIDE DEF f
<1>5. IsSeq(<<>>)
  <2>1. <<>> \in Seq({})  OBVIOUS
  <2> QED  BY <2>1 DEF IsSeq
<1>6. \A n \in DOMAIN stack : stack[n] = f  BY <1>3
<1> QED  BY <1>1, <1>2, <1>3, <1>4, <1>5, <1>6 DEF CallInv

LEMMA CallStep ==
  ASSUME NoInventedIds, RenameShifts, CallInv, [Next]_vars
  PROVE  CallInv'
<1>1. IInv /\ IInv'  BY StepInv DEF CallInv
<1>2. task' = task  BY StepShapes
<1>3. fresh' >= fresh /\ fresh \in Nat /\ fresh' \in Nat
  <2>1. fresh \in Nat /\ fresh' \in Nat  BY <1>1 DEF IInv
  <2>2. ASSUME MayExpand PROVE Clause.width \in Nat
    BY <1>1, <2>2, TaskAssumption DEF MayExpand, Clause, IInv
  <2>3. CASE fresh' = fresh  BY <2>1, <2>3
  <2>4. CASE MissClause \/ EnterClause
    <3>1. MayExpand /\ fresh' = fresh + Clause.width
      BY <2>4 DEF MissClause, EnterClause
    <3> QED  BY <2>1, <2>2, <3>1
  <2> QED
    BY <2>3, <2>4 DEF Next, Step, vars, Pull, Return, YieldSolution, CallBackground,
       BackgroundThrows, SkipClause, Backtrack, Finish
<1>4. AtomIds(task'.query) \subseteq 0 .. fresh' - 1
  <2>1. AtomIds(task.query) \subseteq 0 .. fresh - 1  BY DEF CallInv
  <2>2. \A m, n \in Nat : m <= n => 0 .. m - 1 \subseteq 0 .. n - 1  OBVIOUS
  <2>3. 0 .. fresh - 1 \subseteq 0 .. fresh' - 1  BY <1>3, <2>2
  <2> QED  BY <1>2, <2>1, <2>3
<1>5. pc' = "done" => stack' = <<>>
  BY DEF CallInv, Next, Step, vars, Pull, Return, YieldSolution, CallBackground, InBackground,
     BackgroundThrows, SkipClause, MissClause, EnterClause, MayExpand, HasGoal, Backtrack, Finish
<1>6. IsSeq(answers')
  <2>1. CASE YieldSolution  BY <2>1, AnswerShape
  <2>2. CASE UNCHANGED answers  BY <2>2 DEF CallInv
  <2> QED
    BY <2>1, <2>2 DEF Next, Step, vars, Pull, Return, CallBackground, BackgroundThrows,
       SkipClause, MissClause, EnterClause, Backtrack, Finish
<1> QED  BY <1>1, <1>4, <1>5, <1>6, CallsStep DEF CallInv

---------------------------------------------------------------------------
(* Soundness and evidence.                                                 *)

GoalHolds(t, g, v) == Derivable(t, Ground(g.atom, v), g.counts)

AllHold(t, goals, v) == \A m \in DOMAIN goals : GoalHolds(t, goals[m], v)

QueryHolds(t, v) == Derivable(t, Ground(t.query, v), NoExpansions(t))

(* If the goals left to prove hold then so does the query, and a trace that*)
(* proves them continues the frame's to one that proves the query.         *)
FrameMeans(f, t) ==
  \A v \in Valuation : Respects(v, f.sub) =>
    /\ AllHold(t, f.goals, v) => QueryHolds(t, v)
    /\ \A rest : IsSeq(rest) /\ Replays(t, GoalAtoms(f.goals, v), rest) =>
         Replays(t, <<Ground(t.query, v)>>, GroundTrace(f.trace, v) \o rest)

AnswerMeans(a, t) ==
  \A v \in Valuation : Respects(v, a.sub) =>
    /\ QueryHolds(t, v)
    /\ Replays(t, <<Ground(t.query, v)>>, GroundTrace(a.trace, v))

MeaningInv ==
  /\ CallInv
  /\ \A n \in DOMAIN stack : FrameMeans(stack[n], task)
  /\ pc = "yielded" => IsSeq(Last(answers).trace) /\ AnswerMeans(Last(answers), task)

LEMMA AllHoldOfCons ==
  ASSUME NEW t, NEW goals, IsSeq(goals), goals # <<>>, NEW v
  PROVE  AllHold(t, goals, v) <=> GoalHolds(t, Head(goals), v) /\ AllHold(t, Tail(goals), v)
<1>1. /\ Len(goals) \in Nat /\ DOMAIN goals = 1 .. Len(goals)
      /\ 1 \in DOMAIN goals /\ Head(goals) = goals[1]
      /\ DOMAIN Tail(goals) = 1 .. Len(goals) - 1
      /\ \A i \in DOMAIN Tail(goals) : Tail(goals)[i] = goals[i + 1]
  BY SeqFacts, TailFacts
<1>2. ASSUME AllHold(t, goals, v)
      PROVE  GoalHolds(t, Head(goals), v) /\ AllHold(t, Tail(goals), v)
  <2>1. \A i \in DOMAIN Tail(goals) : i + 1 \in DOMAIN goals  BY <1>1
  <2>2. \A i \in DOMAIN Tail(goals) : GoalHolds(t, Tail(goals)[i], v)
    BY <1>1, <1>2, <2>1 DEF AllHold
  <2> QED  BY <1>1, <1>2, <2>2 DEF AllHold
<1>3. ASSUME GoalHolds(t, Head(goals), v), AllHold(t, Tail(goals), v)
      PROVE  AllHold(t, goals, v)
  <2> SUFFICES ASSUME NEW m \in DOMAIN goals PROVE GoalHolds(t, goals[m], v)
    BY DEF AllHold
  <2>1. CASE m = 1  BY <1>1, <1>3, <2>1
  <2>2. CASE m # 1
    <3> DEFINE j == m - 1
    <3>1. j \in DOMAIN Tail(goals) /\ j + 1 = m  BY <1>1, <2>2
    <3> HIDE DEF j
    <3>2. Tail(goals)[j] = goals[m]  BY <1>1, <3>1
    <3> QED  BY <1>3, <3>1, <3>2 DEF AllHold
  <2> QED  BY <2>1, <2>2
<1> QED  BY <1>2, <1>3

LEMMA AllHoldOfConcat ==
  ASSUME NEW t, NEW s, IsSeq(s), NEW u, IsSeq(u), NEW v
  PROVE  AllHold(t, s \o u, v) <=> AllHold(t, s, v) /\ AllHold(t, u, v)
<1> DEFINE c == s \o u
<1>1. Joins(c, s, u) /\ IsSeq(c)  BY ConcatSeq DEF Joins
<1> HIDE DEF c
<1>2. /\ DOMAIN c = 1 .. Len(s) + Len(u) /\ DOMAIN s = 1 .. Len(s) /\ DOMAIN u = 1 .. Len(u)
      /\ Len(s) \in Nat /\ Len(u) \in Nat
      /\ \A i \in 1 .. Len(s) : c[i] = s[i]
      /\ \A i \in 1 .. Len(u) : c[Len(s) + i] = u[i]
  BY <1>1, SeqFacts DEF Joins
<1>3. ASSUME AllHold(t, c, v) PROVE AllHold(t, s, v) /\ AllHold(t, u, v)
  <2>1. \A i \in DOMAIN s : i \in DOMAIN c  BY <1>2
  <2>2. \A i \in DOMAIN u : Len(s) + i \in DOMAIN c  BY <1>2
  <2>3. AllHold(t, s, v)  BY <1>2, <1>3, <2>1 DEF AllHold
  <2>4. \A i \in DOMAIN u : GoalHolds(t, c[Len(s) + i], v)
    BY <1>3, <2>2 DEF AllHold
  <2>5. AllHold(t, u, v)  BY <1>2, <2>4 DEF AllHold
  <2> QED  BY <2>3, <2>5
<1>4. ASSUME AllHold(t, s, v), AllHold(t, u, v) PROVE AllHold(t, c, v)
  <2> SUFFICES ASSUME NEW m \in DOMAIN c PROVE GoalHolds(t, c[m], v)
    BY DEF AllHold
  <2>1. CASE m \in DOMAIN s
    <3>1. c[m] = s[m]  BY <1>2, <2>1
    <3> QED  BY <1>4, <2>1, <3>1 DEF AllHold
  <2>2. CASE m \notin DOMAIN s
    <3> DEFINE j == m - Len(s)
    <3>1. j \in DOMAIN u /\ Len(s) + j = m  BY <1>2, <2>2
    <3> HIDE DEF j
    <3>2. c[m] = u[j]  BY <1>2, <3>1
    <3> QED  BY <1>4, <3>1, <3>2 DEF AllHold
  <2> QED  BY <2>1, <2>2
<1>5. AllHold(t, c, v) <=> AllHold(t, s, v) /\ AllHold(t, u, v)  BY <1>3, <1>4
<1> QED  BY <1>5 DEF c

(* The call that is about to move: its goals, what is known of the first.  *)
LEMMA CallFacts ==
  ASSUME CallInv, HasGoal
  PROVE  /\ task \in Task /\ fresh \in Nat
         /\ IsSeq(Top.goals) /\ Top.goals # <<>> /\ Head(Top.goals) = Current
         /\ IsSeq(Tail(Top.goals)) /\ IsSeq(Top.trace)
         /\ Top.next \in Nat \ {0}
         /\ AtomIds(Current.atom) \subseteq 0 .. fresh - 1
         /\ IdsInSub(Top.sub) \subseteq 0 .. fresh - 1
         /\ Current.atom.predicate \in task.predicates
         /\ Current.counts \in [task.predicates -> Nat]
         /\ \A m \in DOMAIN Tail(Top.goals) :
              AtomIds(Tail(Top.goals)[m].atom) \subseteq 0 .. fresh - 1
<1>1. IInv /\ stack # <<>> /\ Top.goals # <<>> /\ task \in Task /\ fresh \in Nat
  BY DEF CallInv, HasGoal, IInv
<1>2. Len(stack) \in DOMAIN stack /\ Top = stack[Len(stack)] /\ FrameOK(Top, fresh, task)
  BY <1>1, TopOK
<1>3. IsSeq(Top.trace) /\ Top.next \in Nat \ {0}
  BY <1>2 DEF CallInv
<1>4. /\ GoalOK(Current, fresh, task)
      /\ GoalsOK(Tail(Top.goals), fresh, task)
      /\ IdsInSub(Top.sub) \subseteq 0 .. fresh - 1
  BY <1>1, CurrentOK
<1>5. IsSeq(Top.goals)  BY <1>2 DEF FrameOK, GoalsOK
<1>6. task.maxDepth \in Nat  BY <1>1, TaskAssumption
<1>7. Current.counts \in [task.predicates -> Nat]  BY <1>4, <1>6 DEF GoalOK
<1>8. /\ IsSeq(Tail(Top.goals))
      /\ \A m \in DOMAIN Tail(Top.goals) :
           AtomIds(Tail(Top.goals)[m].atom) \subseteq 0 .. fresh - 1
  BY <1>4 DEF GoalsOK, GoalOK
<1> QED  BY <1>1, <1>3, <1>4, <1>5, <1>7, <1>8 DEF GoalOK, Current

LEMMA TopMeans ==
  ASSUME MeaningInv, stack # <<>>
  PROVE  FrameMeans(Top, task) /\ IsSeq(Top.trace)
<1>1. IInv  BY DEF MeaningInv, CallInv
<1>2. Len(stack) \in DOMAIN stack /\ Top = stack[Len(stack)]  BY <1>1, StackShape
<1> QED  BY <1>2 DEF MeaningInv, CallInv

(* A goal that is proved in one step, by a fact or a clause, lets the goals*)
(* that replace it stand for the query.                                    *)
LEMMA NodeMeans ==
  ASSUME MeaningInv, HasGoal, NEW goals, IsSeq(goals), NEW sub, NEW via,
         \A v \in Valuation : Respects(v, sub) =>
           /\ Respects(v, Top.sub)
           /\ AllHold(task, goals, v) => AllHold(task, Top.goals, v)
           /\ \A rest : IsSeq(rest) /\ Replays(task, GoalAtoms(goals, v), rest) =>
                Replays(task, GoalAtoms(Top.goals, v),
                        <<[goal |-> Ground(Current.atom, v), via |-> via]>> \o rest)
  PROVE  FrameMeans(Frame(goals, sub, Append(Top.trace, [goal |-> Current.atom, via |-> via])), task)
<1> DEFINE node == [goal |-> Current.atom, via |-> via]
           trace == Append(Top.trace, node)
           f == Frame(goals, sub, trace)
<1>1. FrameMeans(Top, task) /\ IsSeq(Top.trace)  BY TopMeans DEF HasGoal
<1>2. f.goals = goals /\ f.sub = sub /\ f.trace = trace
  <2> HIDE DEF trace
  <2> QED  BY NewFrame
<1> HIDE DEF f
<1>3. ASSUME NEW v \in Valuation, Respects(v, sub)
      PROVE  /\ AllHold(task, goals, v) => QueryHolds(task, v)
             /\ \A rest : IsSeq(rest) /\ Replays(task, GoalAtoms(goals, v), rest) =>
                  Replays(task, <<Ground(task.query, v)>>, GroundTrace(trace, v) \o rest)
  <2>1. Respects(v, Top.sub)  BY <1>3
  <2>2. AllHold(task, goals, v) => QueryHolds(task, v)
    BY <1>1, <1>3, <2>1 DEF FrameMeans
  <2>3. ASSUME NEW rest, IsSeq(rest), Replays(task, GoalAtoms(goals, v), rest)
        PROVE  Replays(task, <<Ground(task.query, v)>>, GroundTrace(trace, v) \o rest)
    <3> DEFINE e == GroundNode(node, v)
               r == <<e>> \o rest
    <3>1. e = [goal |-> Ground(Current.atom, v), via |-> via]  BY DEF GroundNode
    <3>2. Replays(task, GoalAtoms(Top.goals, v), r)
      <4>1. Replays(task, GoalAtoms(Top.goals, v),
                    <<[goal |-> Ground(Current.atom, v), via |-> via]>> \o rest)
        BY <1>3, <2>3
      <4> QED  BY <3>1, <4>1
    <3>3. IsSeq(r)  BY <2>3, ConsFacts
    <3>4. GroundTrace(trace, v) \o rest = GroundTrace(Top.trace, v) \o r
      <4> HIDE DEF node
      <4> QED  BY <1>1, <2>3, GroundTraceGrows
    <3> HIDE DEF r, trace
    <3>5. Replays(task, <<Ground(task.query, v)>>, GroundTrace(Top.trace, v) \o r)
      BY <1>1, <2>1, <3>2, <3>3, Zenon DEF FrameMeans
    <3> QED  BY <3>4, <3>5, Zenon
  <2> QED  BY <2>2, <2>3
<1> HIDE DEF trace
<1>4. FrameMeans(f, task)  BY <1>2, <1>3, Zenon DEF FrameMeans
<1> QED  BY <1>4 DEF f, trace, node

LEMMA FactMeans ==
  ASSUME MeaningInv, BackgroundIsSound, DerivableUnfolds, ReplaysUnfolds,
         HasGoal, InBackground, Top.next \in DOMAIN Solutions
  PROVE  FrameMeans(Frame(Tail(Top.goals), Solutions[Top.next],
                          Append(Top.trace, [goal |-> Current.atom, via |-> "background"])), task)
<1> DEFINE sub == Solutions[Top.next]
           rem == Tail(Top.goals)
<1>1. /\ task \in Task /\ Current.atom.predicate \in task.background
      /\ IsSeq(Top.goals) /\ Top.goals # <<>> /\ Head(Top.goals) = Current /\ IsSeq(rem)
      /\ Current.atom.predicate \in task.predicates
      /\ Current.counts \in [task.predicates -> Nat]
  BY CallFacts DEF MeaningInv, InBackground
<1>2. ASSUME NEW v \in Valuation, Respects(v, sub)
      PROVE  /\ Respects(v, Top.sub)
             /\ AllHold(task, rem, v) => AllHold(task, Top.goals, v)
             /\ \A rest : IsSeq(rest) /\ Replays(task, GoalAtoms(rem, v), rest) =>
                  Replays(task, GoalAtoms(Top.goals, v),
                          <<[goal |-> Ground(Current.atom, v), via |-> "background"]>> \o rest)
  <2> DEFINE g == Ground(Current.atom, v)
  <2>1. Respects(v, Top.sub) /\ Fact(task, g)
    BY <1>1, <1>2 DEF BackgroundIsSound, Solutions
  <2>2. g.predicate = Current.atom.predicate  BY GroundPredicate
  <2> HIDE DEF g
  <2>3. Derivable(task, g, Current.counts)
    BY <1>1, <2>1, <2>2 DEF DerivableUnfolds
  <2>4. GoalHolds(task, Current, v)  BY <2>3 DEF GoalHolds, g
  <2>5. AllHold(task, rem, v) => AllHold(task, Top.goals, v)
    BY <1>1, <2>4, AllHoldOfCons
  <2>6. ASSUME NEW rest, IsSeq(rest), Replays(task, GoalAtoms(rem, v), rest)
        PROVE  Replays(task, GoalAtoms(Top.goals, v),
                       <<[goal |-> g, via |-> "background"]>> \o rest)
    <3> HIDE DEF rem
    <3>1. IsSeq(GoalAtoms(rem, v))  BY <1>1, GoalAtomsSeq
    <3>2. Replays(task, <<g>> \o GoalAtoms(rem, v),
                  <<[goal |-> g, via |-> "background"]>> \o rest)
      BY <1>1, <2>1, <2>2, <2>6, <3>1, Zenon DEF ReplaysUnfolds
    <3>3. GoalAtoms(Top.goals, v) = <<g>> \o GoalAtoms(rem, v)
      BY <1>1, GoalAtomsOfCons DEF rem, g
    <3> QED  BY <3>2, <3>3, Zenon
  <2> QED  BY <2>1, <2>5, <2>6 DEF g
<1> HIDE DEF sub, rem
<1>3. FrameMeans(Frame(rem, sub, Append(Top.trace, [goal |-> Current.atom, via |-> "background"])), task)
  BY <1>1, <1>2, NodeMeans
<1> QED  BY <1>3 DEF rem, sub

LEMMA BodySeq ==
  ASSUME CallInv, MayExpand
  PROVE  IsSeq(Body) /\ DOMAIN Body = DOMAIN Clause.body
<1>1. task \in Task /\ Top.next \in DOMAIN task.program
  BY DEF CallInv, IInv, MayExpand
<1>2. Clause.body \in Seq({Clause.body[m] : m \in DOMAIN Clause.body})
  BY <1>1, TaskAssumption DEF Clause
<1>3. Len(Clause.body) \in Nat /\ DOMAIN Clause.body = 1 .. Len(Clause.body)
  BY <1>2
<1>4. Body = [m \in 1 .. Len(Clause.body) |-> Body[m]]  BY <1>3 DEF Body
<1> QED  BY <1>3, <1>4, IsSeqOf DEF Body

(* The body of the clause under a valuation is the clause's own under the  *)
(* shifted one.                                                            *)
LEMMA BodyGround ==
  ASSUME CallInv, RenameShifts, RenameKeepsValues, MayExpand, NEW v \in Valuation
  PROVE  /\ IsSeq(Body)
         /\ GoalAtoms(Body, v) = Grounds(Clause.body, Shifted(v, fresh))
         /\ DOMAIN Body = DOMAIN Clause.body
         /\ \A m \in DOMAIN Clause.body :
              /\ Ground(Body[m].atom, v) = Ground(Clause.body[m], Shifted(v, fresh))
              /\ Body[m].counts = ChildCounts
<1> DEFINE w == Shifted(v, fresh)
<1>1. task \in Task /\ fresh \in Nat /\ Top.next \in DOMAIN task.program
  BY DEF CallInv, IInv, MayExpand
<1>2. IsSeq(Body) /\ DOMAIN Body = DOMAIN Clause.body  BY BodySeq
<1>3. \A m \in DOMAIN Clause.body :
        /\ Body[m].atom = Rename(Clause.body[m], fresh)
        /\ Body[m].counts = ChildCounts
  BY DEF Body, Goal
<1>4. \A m \in DOMAIN Clause.body : Ground(Body[m].atom, v) = Ground(Clause.body[m], w)
  BY <1>1, <1>3, RenamedGround
<1>5. GoalAtoms(Body, v) = Grounds(Clause.body, w)
  BY <1>2, <1>4 DEF GoalAtoms, Grounds
<1> QED  BY <1>2, <1>3, <1>4, <1>5

LEMMA ClauseMeans ==
  ASSUME MeaningInv, RenameShifts, RenameKeepsValues, UnifierIsSound, DerivableUnfolds,
         ReplaysUnfolds, HasGoal, MayExpand, Fits, Unified # Null
  PROVE  FrameMeans(Frame(Body \o Tail(Top.goals), Unified,
                          Append(Top.trace, [goal |-> Current.atom, via |-> "clause"])), task)
<1> DEFINE rem == Tail(Top.goals)
           goals == Body \o rem
           k == Top.next
<1>1. /\ task \in Task /\ fresh \in Nat /\ Current.atom.predicate \notin task.background
      /\ IsSeq(Top.goals) /\ Top.goals # <<>> /\ Head(Top.goals) = Current /\ IsSeq(rem)
      /\ Current.atom.predicate \in task.predicates
      /\ Current.counts \in [task.predicates -> Nat]
      /\ k \in DOMAIN task.program /\ Clause = task.program[k]
  BY CallFacts DEF MeaningInv, MayExpand, InBackground, Clause
<1>2. Current.counts[Current.atom.predicate] < task.maxDepth
  <2>1. task.maxDepth \in Nat  BY <1>1, TaskAssumption
  <2>2. Current.counts[Current.atom.predicate] \in Nat  BY <1>1
  <2> QED  BY <2>1, <2>2 DEF MayExpand, AtBound, Expansions
<1>3. CallInv  BY DEF MeaningInv
<1>4. ASSUME NEW v \in Valuation, Respects(v, Unified)
      PROVE  /\ Respects(v, Top.sub)
             /\ AllHold(task, goals, v) => AllHold(task, Top.goals, v)
             /\ \A rest : IsSeq(rest) /\ Replays(task, GoalAtoms(goals, v), rest) =>
                  Replays(task, GoalAtoms(Top.goals, v),
                          <<[goal |-> Ground(Current.atom, v), via |-> "clause"]>> \o rest)
  <2> DEFINE g == Ground(Current.atom, v)
             w == Shifted(v, fresh)
  <2>1. /\ Respects(v, Top.sub)
        /\ Value(Current.atom.args, v) = Value(Rename(Clause.head, fresh).args, v)
    BY <1>4 DEF UnifierIsSound, Unified
  <2>2. w \in Valuation  BY <1>1, ShiftedValue
  <2>3. Ground(Clause.head, w) = g
    <3>1. Ground(Rename(Clause.head, fresh), v) = Ground(Clause.head, w)
      BY <1>1, RenamedGround
    <3>2. Rename(Clause.head, fresh).predicate = Current.atom.predicate
      BY <1>1 DEF RenameShifts, Fits
    <3> QED  BY <2>1, <3>1, <3>2 DEF Ground
  <2>4. g.predicate = Current.atom.predicate  BY GroundPredicate
  <2>5. /\ IsSeq(Body) /\ DOMAIN Body = DOMAIN Clause.body
        /\ GoalAtoms(Body, v) = Grounds(Clause.body, w)
        /\ \A m \in DOMAIN Clause.body :
             Ground(Body[m].atom, v) = Ground(Clause.body[m], w) /\ Body[m].counts = ChildCounts
    BY <1>3, BodyGround
  <2> HIDE DEF g, w
  <2>6. ASSUME AllHold(task, goals, v) PROVE AllHold(task, Top.goals, v)
    <3>1. AllHold(task, Body, v) /\ AllHold(task, rem, v)
      <4> HIDE DEF rem
      <4> QED  BY <1>1, <2>5, <2>6, AllHoldOfConcat
    <3>2. \A m \in DOMAIN Clause.body : Derivable(task, Ground(Clause.body[m], w), ChildCounts)
      BY <2>5, <3>1 DEF AllHold, GoalHolds
    <3>3. ChildCounts = [Current.counts EXCEPT ![g.predicate] = @ + 1]
      BY <2>4 DEF ChildCounts
    <3>4. Supports(task, k, w, g, Current.counts)
      BY <1>1, <2>3, <3>2, <3>3 DEF Supports
    <3>5. Derivable(task, g, Current.counts)
      BY <1>1, <1>2, <2>2, <2>4, <3>4 DEF DerivableUnfolds
    <3>6. GoalHolds(task, Current, v)  BY <3>5 DEF GoalHolds, g
    <3> QED  BY <1>1, <3>1, <3>6, AllHoldOfCons
  <2>7. ASSUME NEW rest, IsSeq(rest), Replays(task, GoalAtoms(goals, v), rest)
        PROVE  Replays(task, GoalAtoms(Top.goals, v), <<[goal |-> g, via |-> "clause"]>> \o rest)
    <3> HIDE DEF rem
    <3>1. IsSeq(GoalAtoms(rem, v))  BY <1>1, GoalAtomsSeq
    <3>2. GoalAtoms(goals, v) = Grounds(Clause.body, w) \o GoalAtoms(rem, v)
      <4>1. GoalAtoms(Body \o rem, v) = GoalAtoms(Body, v) \o GoalAtoms(rem, v)
        BY <1>1, <2>5, GoalAtomsOfConcat
      <4> QED  BY <2>5, <4>1
    <3>3. Replays(task, Grounds(task.program[k].body, w) \o GoalAtoms(rem, v), rest)
      BY <1>1, <2>7, <3>2, Zenon
    <3>4. Replays(task, <<g>> \o GoalAtoms(rem, v), <<[goal |-> g, via |-> "clause"]>> \o rest)
      BY <1>1, <2>2, <2>3, <2>4, <2>7, <3>1, <3>3, Zenon DEF ReplaysUnfolds
    <3>5. GoalAtoms(Top.goals, v) = <<g>> \o GoalAtoms(rem, v)
      BY <1>1, GoalAtomsOfCons DEF rem, g
    <3> QED  BY <3>4, <3>5, Zenon
  <2> QED  BY <2>1, <2>6, <2>7 DEF g
<1>5. IsSeq(goals)
  <2>1. IsSeq(Body)  BY <1>3, BodySeq
  <2> HIDE DEF rem
  <2> QED  BY <1>1, <2>1, ConcatFacts
<1> HIDE DEF goals
<1>6. FrameMeans(Frame(goals, Unified, Append(Top.trace, [goal |-> Current.atom, via |-> "clause"])), task)
  BY <1>1, <1>4, <1>5, NodeMeans
<1> QED  BY <1>6 DEF goals, rem

LEMMA EmptyFacts ==
  ASSUME NEW v
  PROVE  /\ IsSeq(<<>>) /\ GoalAtoms(<<>>, v) = <<>> /\ GroundTrace(<<>>, v) = <<>>
         /\ \A s : IsSeq(s) => <<>> \o s = s /\ s \o <<>> = s
<1>1. <<>> \in Seq({}) /\ DOMAIN <<>> = {} /\ Len(<<>>) = 0  OBVIOUS
<1>2. IsSeq(<<>>)  BY <1>1 DEF IsSeq
<1>3. GoalAtoms(<<>>, v) = <<>>
  <2>1. IsSeq(GoalAtoms(<<>>, v)) /\ Len(GoalAtoms(<<>>, v)) = Len(<<>>)
    BY <1>2, GoalAtomsSeq
  <2> HIDE DEF GoalAtoms
  <2> QED  BY <1>1, <1>2, <2>1, SameSeq
<1>4. GroundTrace(<<>>, v) = <<>>
  <2>1. IsSeq(GroundTrace(<<>>, v)) /\ Len(GroundTrace(<<>>, v)) = Len(<<>>)
    BY <1>2, GroundTraceSeq
  <2> QED  BY <1>1, <1>2, <2>1, SameSeq
<1>5. ASSUME NEW s, IsSeq(s) PROVE <<>> \o s = s /\ s \o <<>> = s
  <2>1. PICK S : s \in Seq(S)  BY <1>5 DEF IsSeq
  <2> QED  BY <2>1
<1> QED  BY <1>2, <1>3, <1>4, <1>5

LEMMA MeaningInit ==
  ASSUME NoInventedIds, Init
  PROVE  MeaningInv
<1> DEFINE g == Goal(task.query, NoExpansions(task))
           f == Frame(<<g>>, InitialSub, <<>>)
<1>1. CallInv  BY CallInit
<1>2. stack = <<f>> /\ pc = "created"  BY DEF Init
<1>3. g.atom = task.query /\ g.counts = NoExpansions(task)  BY DEF Goal
<1>4. f.goals = <<g>> /\ f.sub = InitialSub /\ f.trace = <<>>
  <2> HIDE DEF g
  <2> QED  BY NewFrame
<1> HIDE DEF g, f
<1>5. ASSUME NEW v \in Valuation
      PROVE  /\ AllHold(task, f.goals, v) => QueryHolds(task, v)
             /\ \A rest : IsSeq(rest) /\ Replays(task, GoalAtoms(f.goals, v), rest) =>
                  Replays(task, <<Ground(task.query, v)>>, GroundTrace(f.trace, v) \o rest)
  <2>1. AllHold(task, f.goals, v) => QueryHolds(task, v)
    <3>1. 1 \in DOMAIN f.goals /\ f.goals[1] = g  BY <1>4
    <3> QED  BY <1>3, <3>1 DEF AllHold, GoalHolds, QueryHolds
  <2>2. GoalAtoms(f.goals, v) = <<Ground(task.query, v)>>
    <3>1. DOMAIN f.goals = {1} /\ f.goals[1].atom = task.query  BY <1>3, <1>4
    <3>2. GoalAtoms(f.goals, v) = [m \in {1} |-> Ground(task.query, v)]
      BY <3>1 DEF GoalAtoms
    <3> DEFINE e == Ground(task.query, v)
    <3>3. GoalAtoms(f.goals, v) = [m \in {1} |-> e]  BY <3>2
    <3> HIDE DEF e
    <3>4. [m \in {1} |-> e] = <<e>>  OBVIOUS
    <3> QED  BY <3>3, <3>4 DEF e
  <2>3. \A rest : IsSeq(rest) => GroundTrace(f.trace, v) \o rest = rest
    BY <1>4, EmptyFacts, Zenon
  <2> QED  BY <2>1, <2>2, <2>3, Zenon
<1>6. FrameMeans(f, task)  BY <1>5 DEF FrameMeans
<1>7. \A n \in DOMAIN stack : stack[n] = f  BY <1>2
<1> QED  BY <1>1, <1>2, <1>6, <1>7 DEF MeaningInv

LEMMA MeaningYield ==
  ASSUME MeaningInv, ReplaysUnfolds, YieldSolution
  PROVE  IsSeq(Last(answers').trace) /\ AnswerMeans(Last(answers'), task)
<1>1. stack # <<>> /\ Top.goals = <<>> /\ task \in Task
  BY DEF YieldSolution, MeaningInv, CallInv, IInv
<1>2. FrameMeans(Top, task) /\ IsSeq(Top.trace)  BY <1>1, TopMeans
<1>3. Last(answers') = [sub |-> Top.sub, trace |-> Top.trace]
  BY AnswerShape DEF MeaningInv
<1>4. Last(answers').sub = Top.sub /\ Last(answers').trace = Top.trace  BY <1>3
<1>5. ASSUME NEW v \in Valuation, Respects(v, Top.sub)
      PROVE  /\ QueryHolds(task, v)
             /\ Replays(task, <<Ground(task.query, v)>>, GroundTrace(Top.trace, v))
  <2>1. AllHold(task, Top.goals, v)  BY <1>1 DEF AllHold
  <2>2. /\ IsSeq(<<>>) /\ GoalAtoms(Top.goals, v) = <<>>
        /\ GroundTrace(Top.trace, v) \o <<>> = GroundTrace(Top.trace, v)
    <3>1. IsSeq(GroundTrace(Top.trace, v))  BY <1>2, GroundTraceSeq
    <3>2. IsSeq(<<>>) /\ GoalAtoms(<<>>, v) = <<>>  BY EmptyFacts
    <3>3. \A s : IsSeq(s) => s \o <<>> = s  BY EmptyFacts
    <3>4. GroundTrace(Top.trace, v) \o <<>> = GroundTrace(Top.trace, v)  BY <3>1, <3>3, Zenon
    <3> QED  BY <1>1, <3>2, <3>4
  <2>3. Replays(task, GoalAtoms(Top.goals, v), <<>>)
    BY <1>1, <2>2, Zenon DEF ReplaysUnfolds
  <2>4. Replays(task, <<Ground(task.query, v)>>, GroundTrace(Top.trace, v) \o <<>>)
    BY <1>2, <1>5, <2>2, <2>3, Zenon DEF FrameMeans
  <2> QED  BY <1>2, <1>5, <2>1, <2>2, <2>4, Zenon DEF FrameMeans
<1> QED  BY <1>2, <1>4, <1>5 DEF AnswerMeans

LEMMA MeaningFrames ==
  ASSUME MeaningInv, RenameShifts, RenameKeepsValues, UnifierIsSound, BackgroundIsSound,
         DerivableUnfolds, ReplaysUnfolds, [Next]_vars
  PROVE  \A n \in DOMAIN stack' : FrameMeans(stack'[n], task)
<1>1. IInv /\ \A n \in DOMAIN stack : FrameMeans(stack[n], task)
  BY DEF MeaningInv, CallInv
<1>2. ASSUME stack # <<>>
      PROVE  /\ Len(stack) \in Nat /\ DOMAIN stack = 1 .. Len(stack)
             /\ \A n \in 1 .. Len(stack) : FrameMeans(Advanced[n], task)
  <2>1. /\ Len(stack) \in Nat \ {0} /\ DOMAIN stack = 1 .. Len(stack)
        /\ Top = stack[Len(stack)]
    BY <1>1, <1>2, StackShape
  <2>2. /\ \A n \in 1 .. Len(stack) - 1 : Advanced[n] = stack[n]
        /\ SameCall(Advanced[Len(stack)], Top)
    BY <1>1, <1>2, AdvancedShape
  <2>3. FrameMeans(Advanced[Len(stack)], task)
    BY <1>1, <2>1, <2>2 DEF SameCall, FrameMeans
  <2> QED  BY <1>1, <2>1, <2>2, <2>3
<1>3. ASSUME HasGoal, NEW goals, NEW sub, NEW node, Enter(goals, sub, node),
             FrameMeans(Frame(goals, sub, Append(Top.trace, node)), task)
      PROVE  \A n \in DOMAIN stack' : FrameMeans(stack'[n], task)
  <2>1. stack # <<>>  BY <1>3 DEF HasGoal
  <2>2. /\ DOMAIN stack' = 1 .. Len(stack) + 1
        /\ \A n \in 1 .. Len(stack) : stack'[n] = Advanced[n]
        /\ stack'[Len(stack) + 1] = Frame(goals, sub, Append(Top.trace, node))
    BY <1>1, <1>3, EnterShape
  <2> QED  BY <1>2, <1>3, <2>1, <2>2
<1>4. CASE stack # <<>> /\ stack' = Front(stack)
  <2>1. \A n \in DOMAIN stack' : n \in DOMAIN stack /\ stack'[n] = stack[n]
    BY <1>1, <1>4, PopShape, StackShape
  <2> QED  BY <1>1, <2>1
<1>5. CASE stack # <<>> /\ stack' = Advanced
  BY <1>1, <1>2, <1>5, AdvancedShape
<1>6. CASE UNCHANGED stack \/ stack' = <<>>
  BY <1>1, <1>6
<1>7. CASE CallsFact
  BY <1>3, <1>7, FactMeans DEF CallsFact
<1>8. CASE CallsClause
  BY <1>3, <1>8, ClauseMeans DEF CallsClause
<1> QED  BY <1>4, <1>5, <1>6, <1>7, <1>8, StepShapes

LEMMA MeaningStep ==
  ASSUME NoInventedIds, RenameShifts, RenameKeepsValues, UnifierIsSound, BackgroundIsSound,
         DerivableUnfolds, ReplaysUnfolds, MeaningInv, [Next]_vars
  PROVE  MeaningInv'
<1>1. CallInv'  BY CallStep DEF MeaningInv
<1>2. task' = task  BY StepShapes
<1>3. \A n \in DOMAIN stack' : FrameMeans(stack'[n], task')  BY <1>2, MeaningFrames
<1>4. pc' = "yielded" => IsSeq(Last(answers').trace) /\ AnswerMeans(Last(answers'), task')
  <2>1. CASE YieldSolution  BY <1>2, <2>1, MeaningYield
  <2>2. CASE UNCHANGED vars  BY <2>2 DEF vars, MeaningInv
  <2>3. CASE pc' # "yielded"  BY <2>3
  <2> QED
    BY <2>1, <2>2, <2>3 DEF Next, Step, Pull, Return, CallBackground, InBackground, HasGoal,
       BackgroundThrows, SkipClause, MissClause, EnterClause, MayExpand, Backtrack, Finish
<1> QED  BY <1>1, <1>3, <1>4 DEF MeaningInv

LEMMA MeaningHolds ==
  ASSUME NoInventedIds, RenameShifts, RenameKeepsValues, UnifierIsSound, BackgroundIsSound,
         DerivableUnfolds, ReplaysUnfolds
  PROVE  Spec => []MeaningInv
<1>1. Init => MeaningInv  BY MeaningInit
<1>2. MeaningInv /\ [Next]_vars => MeaningInv'  BY MeaningStep
<1> QED  BY <1>1, <1>2, PTL DEF Spec

(* The instances of the query, and of the query with what follows it.      *)
LEMMA QueryInstance ==
  ASSUME InstancesAreGroundings, NEW s, NEW g, NEW a, g \in Instances(task, <<a>>, s)
  PROVE  \E v \in Valuation : Respects(v, s) /\ g = Grounds(<<a>>, v) /\ g[1] = Ground(a, v)
<1>1. PICK v \in Valuation : Respects(v, s) /\ g = Grounds(<<a>>, v)
  BY DEF InstancesAreGroundings
<1>2. 1 \in DOMAIN <<a>> /\ <<a>>[1] = a  OBVIOUS
<1>3. Grounds(<<a>>, v)[1] = Ground(a, v)  BY <1>2 DEF Grounds
<1> QED  BY <1>1, <1>3

LEMMA TraceInstance ==
  ASSUME InstancesAreGroundings, NEW trace, IsSeq(trace), NEW s, NEW a,
         NEW g, g \in Instances(task, <<a>> \o GoalsOf(trace), s)
  PROVE  \E v \in Valuation : /\ Respects(v, s) /\ g[1] = Ground(a, v)
                              /\ WithGoals(trace, Tail(g)) = GroundTrace(trace, v)
<1> DEFINE n == Len(trace)
           gs == GoalsOf(trace)
           all == <<a>> \o gs
<1>1. n \in Nat /\ DOMAIN trace = 1 .. n  BY SeqFacts
<1>2. IsSeq(gs) /\ Len(gs) = n /\ \A i \in 1 .. n : gs[i] = trace[i].goal
  <2>1. gs = [i \in 1 .. n |-> trace[i].goal]  BY <1>1 DEF GoalsOf
  <2>2. \A i \in 1 .. n : gs[i] = trace[i].goal  BY <2>1
  <2>3. gs = [i \in 1 .. n |-> gs[i]]  BY <2>1, <2>2
  <2> HIDE DEF gs, n
  <2> QED  BY <1>1, <2>2, <2>3, IsSeqOf
<1>3. g \in Instances(task, all, s)  OBVIOUS
<1> HIDE DEF gs
<1>4. /\ IsSeq(all) /\ Len(all) = n + 1 /\ all[1] = a
      /\ \A i \in 1 .. n : all[i + 1] = gs[i]
  BY <1>2, ConsFacts
<1> HIDE DEF all, n
<1>5. PICK v \in Valuation : Respects(v, s) /\ g = Grounds(all, v)
  BY <1>3 DEF InstancesAreGroundings
<1>6. DOMAIN all = 1 .. n + 1  BY <1>4, SeqFacts
<1>7. g = [i \in 1 .. n + 1 |-> Ground(all[i], v)]  BY <1>5, <1>6 DEF Grounds
<1>8. \A i \in 1 .. n + 1 : g[i] = Ground(all[i], v)  BY <1>7
<1>9. IsSeq(g) /\ Len(g) = n + 1
  <2>1. g = [i \in 1 .. n + 1 |-> g[i]]  BY <1>7, <1>8
  <2>2. n + 1 \in Nat  BY <1>1
  <2> QED  BY <2>1, <2>2, IsSeqOf
<1>10. g[1] = Ground(a, v)  BY <1>1, <1>4, <1>8
<1>11. \A i \in 1 .. n : Tail(g)[i] = Ground(trace[i].goal, v)
  <2> TAKE i \in 1 .. n
  <2>1. g # <<>>  BY <1>1, <1>9
  <2>2. DOMAIN Tail(g) = 1 .. Len(g) - 1 /\ \A j \in DOMAIN Tail(g) : Tail(g)[j] = g[j + 1]
    BY <1>9, <2>1, TailFacts
  <2>3. i \in DOMAIN Tail(g) /\ i + 1 \in 1 .. n + 1  BY <1>1, <1>9, <2>2
  <2>4. Tail(g)[i] = g[i + 1] /\ g[i + 1] = Ground(all[i + 1], v)  BY <1>8, <2>2, <2>3
  <2> QED  BY <1>2, <1>4, <2>4
<1>12. WithGoals(trace, Tail(g)) = GroundTrace(trace, v)
  BY <1>1, <1>11 DEF WithGoals, GroundTrace, GroundNode
<1> QED  BY <1>5, <1>10, <1>12

(* What the interpreter proves follows from the program: every instance of *)
(* the query that a yielded substitution stands for is derivable within the*)
(* recursion bound (interpret of resolve.js).                              *)
THEOREM AnswersAreSoundHolds ==
  ASSUME NoInventedIds, RenameShifts, RenameKeepsValues, UnifierIsSound, BackgroundIsSound,
         DerivableUnfolds, ReplaysUnfolds, InstancesAreGroundings
  PROVE  Spec => []AnswersAreSound
<1>1. MeaningInv => AnswersAreSound
  <2> SUFFICES ASSUME MeaningInv, pc = "yielded",
                      NEW g \in Instances(task, <<task.query>>, Last(answers).sub)
               PROVE  Holds(g[1])
    BY DEF AnswersAreSound
  <2>1. PICK v \in Valuation : Respects(v, Last(answers).sub) /\ g[1] = Ground(task.query, v)
    BY QueryInstance
  <2>2. QueryHolds(task, v)  BY <2>1 DEF MeaningInv, AnswerMeans
  <2> QED  BY <2>1, <2>2 DEF QueryHolds, Holds
<1> QED  BY <1>1, MeaningHolds, PTL

(* The trace of an answer, grounded in any way its substitution allows, is *)
(* a proof of the query from facts and clauses (stepProof of resolve.js).  *)
THEOREM TracesAreEvidenceHolds ==
  ASSUME NoInventedIds, RenameShifts, RenameKeepsValues, UnifierIsSound, BackgroundIsSound,
         DerivableUnfolds, ReplaysUnfolds, InstancesAreGroundings
  PROVE  Spec => []TracesAreEvidence
<1>1. MeaningInv => TracesAreEvidence
  <2> DEFINE a == Last(answers)
  <2> SUFFICES ASSUME MeaningInv, pc = "yielded",
                      NEW g \in Instances(task, <<task.query>> \o GoalsOf(a.trace), a.sub)
               PROVE  Replays(task, <<g[1]>>, WithGoals(a.trace, Tail(g)))
    BY DEF TracesAreEvidence
  <2>1. IsSeq(a.trace) /\ AnswerMeans(a, task)  BY DEF MeaningInv
  <2> HIDE DEF a
  <2>2. PICK v \in Valuation :
          /\ Respects(v, a.sub) /\ g[1] = Ground(task.query, v)
          /\ WithGoals(a.trace, Tail(g)) = GroundTrace(a.trace, v)
    BY <2>1, TraceInstance
  <2>3. Replays(task, <<Ground(task.query, v)>>, GroundTrace(a.trace, v))
    BY <2>1, <2>2 DEF AnswerMeans
  <2> QED  BY <2>2, <2>3
<1> QED  BY <1>1, MeaningHolds, PTL

---------------------------------------------------------------------------
(* Completeness: an instance of the query that holds was answered, or some *)
(* call on the stack still has an alternative that leads to it.            *)

(* Solution, or clause, k of a call's first goal is a way to prove it.     *)
FactLeads(f, t, v, k) ==
  LET g == Head(f.goals) IN
    /\ k \in DOMAIN Solve(t, g.atom, f.sub)
    /\ Respects(v, Solve(t, g.atom, f.sub)[k])

ClauseLeads(f, t, v, k) ==
  LET g == Head(f.goals) IN
    /\ g.counts[g.atom.predicate] < t.maxDepth
    /\ k \in DOMAIN t.program
    /\ \E w \in Valuation : Supports(t, k, w, Ground(g.atom, v), g.counts)

WayOn(f, t, v, k) ==
  IF Head(f.goals).atom.predicate \in t.background
    THEN FactLeads(f, t, v, k) ELSE ClauseLeads(f, t, v, k)

(* What a call has left to try proves the instance of the query under v.   *)
Leads(f, t, v) ==
  /\ Respects(v, f.sub)
  /\ AllHold(t, f.goals, v)
  /\ f.goals # <<>> => \E k \in Nat : k >= f.next /\ WayOn(f, t, v, k)

Answered(a) ==
  \E n \in DOMAIN answers : \E v \in Valuation :
    Respects(v, answers[n].sub) /\ Ground(task.query, v) = a

Expected(a) ==
  \E n \in DOMAIN stack : \E v \in Valuation :
    Leads(stack[n], task, v) /\ Ground(task.query, v) = a

NothingMissed ==
  \A v \in Valuation : Respects(v, InitialSub) /\ QueryHolds(task, v) =>
    Answered(Ground(task.query, v)) \/ Expected(Ground(task.query, v))

(* A consumer that left, or an exception, ends the search early.           *)
CompleteInv ==
  /\ CallInv
  /\ AnswersAll(task) /\ pc \notin {"returned", "failed"} => NothingMissed

(* A call that was just made leads to whatever its goals hold for.         *)
LEMMA FrameLeads ==
  ASSUME task \in Task, AnswersAll(task), BackgroundIsComplete, DerivableUnfolds,
         NEW goals, NEW sub, NEW trace, NEW m, FrameOK(Frame(goals, sub, trace), m, task),
         NEW v \in Valuation, Respects(v, sub), AllHold(task, goals, v)
  PROVE  Leads(Frame(goals, sub, trace), task, v)
<1> DEFINE f == Frame(goals, sub, trace)
<1>1. f.goals = goals /\ f.sub = sub /\ f.next = 1  BY NewFrame
<1>2. GoalsOK(goals, m, task)  BY <1>1 DEF FrameOK
<1> HIDE DEF f
<1>3. ASSUME goals # <<>>
      PROVE  \E k \in Nat : k >= 1 /\ WayOn(f, task, v, k)
  <2> DEFINE g == Head(goals)
             a == Ground(g.atom, v)
  <2>1. IsSeq(goals)  BY <1>2 DEF GoalsOK
  <2>2. GoalHolds(task, g, v)  BY <1>3, <2>1, AllHoldOfCons
  <2>3. GoalOK(g, m, task)  BY <1>2, <1>3, <2>1, TailFacts DEF GoalsOK
  <2>4. task.maxDepth \in Nat  BY TaskAssumption
  <2>5. g.atom.predicate \in task.predicates /\ g.counts \in [task.predicates -> Nat]
    BY <2>3, <2>4 DEF GoalOK
  <2>6. Derivable(task, a, g.counts) /\ a.predicate = g.atom.predicate
    BY <2>2, GroundPredicate DEF GoalHolds
  <2>7. Head(f.goals) = g /\ f.sub = sub  BY <1>1
  <2> HIDE DEF g, a
  <2>8. CASE g.atom.predicate \in task.background
    <3>1. Fact(task, a)  BY <2>5, <2>6, <2>8 DEF DerivableUnfolds
    <3>2. /\ IsSeq(Solve(task, g.atom, sub))
          /\ \E k \in DOMAIN Solve(task, g.atom, sub) : Respects(v, Solve(task, g.atom, sub)[k])
      BY <2>8, <3>1 DEF BackgroundIsComplete, a
    <3>3. PICK k \in DOMAIN Solve(task, g.atom, sub) : Respects(v, Solve(task, g.atom, sub)[k])
      BY <3>2
    <3>4. k \in Nat /\ k >= 1  BY <3>2, <3>3, SeqFacts
    <3>5. WayOn(f, task, v, k)  BY <2>7, <2>8, <3>3 DEF WayOn, FactLeads
    <3> QED  BY <3>4, <3>5
  <2>9. CASE g.atom.predicate \notin task.background
    <3>1. /\ g.counts[g.atom.predicate] < task.maxDepth
          /\ \E k \in DOMAIN task.program : \E w \in Valuation : Supports(task, k, w, a, g.counts)
      BY <2>5, <2>6, <2>9, Zenon DEF DerivableUnfolds
    <3>2. PICK k \in DOMAIN task.program : \E w \in Valuation : Supports(task, k, w, a, g.counts)
      BY <3>1
    <3>3. k \in Nat /\ k >= 1
      <4>1. task.program \in Seq({task.program[j] : j \in DOMAIN task.program})
        BY TaskAssumption
      <4> QED  BY <3>2, <4>1
    <3>4. WayOn(f, task, v, k)  BY <2>7, <2>9, <3>1, <3>2 DEF WayOn, ClauseLeads, a
    <3> QED  BY <3>3, <3>4
  <2> QED  BY <2>8, <2>9
<1>4. Leads(f, task, v)  BY <1>1, <1>3 DEF Leads
<1> QED  BY <1>4 DEF f

(* The clause that supports the goal unifies with it, and what is left     *)
(* holds under a valuation that gives the clause's variables their values. *)
LEMMA ClauseFits ==
  ASSUME CallInv, NoInventedIds, RenameShifts, RenameKeepsValues, ValuesAreLocal,
         UnifierIsGeneral, MayExpand,
         NEW v \in Valuation, Respects(v, Top.sub), AllHold(task, Top.goals, v),
         NEW w \in Valuation,
         Supports(task, Top.next, w, Ground(Current.atom, v), Current.counts)
  PROVE  /\ Fits /\ Unified # Null
         /\ \E u \in Valuation :
              /\ Respects(u, Unified)
              /\ AllHold(task, Body \o Tail(Top.goals), u)
              /\ Ground(task.query, u) = Ground(task.query, v)
<1> DEFINE u == Merged(v, w, fresh)
           g == Ground(Current.atom, v)
           rem == Tail(Top.goals)
<1>1. /\ HasGoal /\ task \in Task /\ fresh \in Nat /\ Clause = task.program[Top.next]
      /\ IsSeq(Top.goals) /\ Top.goals # <<>> /\ Head(Top.goals) = Current /\ IsSeq(rem)
      /\ AtomIds(Current.atom) \subseteq 0 .. fresh - 1
      /\ IdsInSub(Top.sub) \subseteq 0 .. fresh - 1
      /\ \A m \in DOMAIN rem : AtomIds(rem[m].atom) \subseteq 0 .. fresh - 1
  BY CallFacts DEF MayExpand, Clause
<1>2. /\ u \in Valuation /\ Shifted(u, fresh) = w
      /\ \A i \in 0 .. fresh - 1 : u[i] = v[i]
  BY <1>1, MergedValue
<1> HIDE DEF u
<1>3. \A a : AtomIds(a) \subseteq 0 .. fresh - 1 => Ground(a, u) = Ground(a, v)
  BY <1>2, LocalGround
<1>4. Ground(Clause.head, w) = g /\ g.predicate = Current.atom.predicate
  BY <1>1, GroundPredicate DEF Supports
<1>5. Fits
  <2>1. /\ Clause.head.predicate = Current.atom.predicate
        /\ Value(Clause.head.args, w) = Value(Current.atom.args, v)
    BY <1>4, GroundPredicate
  <2>2. Len(Clause.head.args) = Len(Current.atom.args)
    BY <2>1 DEF ValuesAreLocal
  <2> QED  BY <2>1, <2>2 DEF Fits
<1>6. Respects(u, Top.sub)
  BY <1>1, <1>2 DEF ValuesAreLocal
<1>7. Value(Current.atom.args, u) = Value(Rename(Clause.head, fresh).args, u)
  <2>1. Ground(Current.atom, u) = g  BY <1>1, <1>3
  <2>2. Ground(Rename(Clause.head, fresh), u) = Ground(Clause.head, w)
    BY <1>1, <1>2, RenamedGround
  <2> QED  BY <1>4, <2>1, <2>2, GroundPredicate
<1>8. Unified # Null /\ Respects(u, Unified)
  BY <1>2, <1>6, <1>7 DEF UnifierIsGeneral, Unified
<1>9. AllHold(task, Body, u)
  <2>1. /\ DOMAIN Body = DOMAIN Clause.body
        /\ \A m \in DOMAIN Clause.body :
             Ground(Body[m].atom, u) = Ground(Clause.body[m], w) /\ Body[m].counts = ChildCounts
    BY <1>2, BodyGround
  <2>2. ChildCounts = [Current.counts EXCEPT ![g.predicate] = @ + 1]
    BY <1>4 DEF ChildCounts
  <2> HIDE DEF g
  <2>3. \A m \in DOMAIN Clause.body : Derivable(task, Ground(Clause.body[m], w), ChildCounts)
    BY <1>1, <2>2 DEF Supports, g
  <2> QED  BY <2>1, <2>3 DEF AllHold, GoalHolds
<1>10. AllHold(task, rem, u)
  <2>1. AllHold(task, rem, v)  BY <1>1, AllHoldOfCons
  <2> HIDE DEF rem
  <2>2. \A m \in DOMAIN rem : Ground(rem[m].atom, u) = Ground(rem[m].atom, v)
    BY <1>1, <1>3
  <2> QED  BY <2>1, <2>2 DEF AllHold, GoalHolds
<1>11. AllHold(task, Body \o rem, u)
  <2>1. IsSeq(Body)  BY BodySeq
  <2> HIDE DEF rem
  <2> QED  BY <1>1, <1>9, <1>10, <2>1, AllHoldOfConcat
<1>12. Ground(task.query, u) = Ground(task.query, v)
  BY <1>3 DEF CallInv
<1> QED  BY <1>2, <1>5, <1>8, <1>11, <1>12

(* Calls below the innermost one wait as they are.                         *)
LEMMA BelowWaits ==
  ASSUME CallInv, [Next]_vars, stack' # <<>>, NEW n \in 1 .. Len(stack) - 1
  PROVE  n \in DOMAIN stack' /\ stack'[n] = stack[n]
<1>1. IInv  BY DEF CallInv
<1>2. Len(stack) \in Nat /\ DOMAIN stack = 1 .. Len(stack)
  <2>1. IsSeq(stack)  BY <1>1 DEF IInv, FramesOK
  <2> QED  BY <2>1, SeqFacts
<1>3. stack # <<>>
  <2>1. n \in DOMAIN stack  BY <1>2
  <2>2. DOMAIN <<>> = {}  OBVIOUS
  <2> QED  BY <2>1, <2>2
<1>4. n \in 1 .. Len(stack) /\ Advanced[n] = stack[n] /\ DOMAIN Advanced = 1 .. Len(stack)
  BY <1>1, <1>2, <1>3, AdvancedShape
<1>5. ASSUME HasGoal, NEW goals, NEW sub, NEW node, Enter(goals, sub, node)
      PROVE  n \in DOMAIN stack' /\ stack'[n] = stack[n]
  <2>1. /\ DOMAIN stack' = 1 .. Len(stack) + 1
        /\ \A i \in 1 .. Len(stack) : stack'[i] = Advanced[i]
    BY <1>1, <1>5, EnterShape
  <2> QED  BY <1>2, <1>4, <2>1
<1>6. CASE UNCHANGED stack  BY <1>2, <1>6
<1>7. CASE stack' = Front(stack)  BY <1>1, <1>3, <1>7, PopShape
<1>8. CASE stack' = Advanced  BY <1>4, <1>8
<1>9. CASE CallsFact \/ CallsClause  BY <1>5, <1>9 DEF CallsFact, CallsClause
<1> QED  BY <1>6, <1>7, <1>8, <1>9, StepShapes

(* Only a call that ends empties the stack of a search that goes on.       *)
LEMMA StepIsPop ==
  ASSUME [Next]_vars, stack # <<>>, stack' = <<>>, pc' \notin {"returned", "failed"},
         CallInv
  PROVE  stack' = Front(stack)
<1>1. \A f : Append(Advanced, f) # <<>>
  <2> TAKE f
  <2>1. IsSeq(Advanced)  BY AdvancedShape DEF CallInv
  <2>2. DOMAIN Append(Advanced, f) = 1 .. Len(Advanced) + 1 /\ Len(Advanced) \in Nat
    BY <2>1, SeqFacts, AppendFacts
  <2>3. DOMAIN <<>> = {} /\ \A n \in Nat : 1 \in 1 .. n + 1  OBVIOUS
  <2> QED  BY <2>2, <2>3
<1>2. Advanced # <<>>
  <2>1. DOMAIN Advanced = 1 .. Len(stack) /\ Len(stack) \in Nat \ {0} /\ DOMAIN <<>> = {}
    BY AdvancedShape, StackShape DEF CallInv
  <2> QED  BY <2>1
<1> QED
  BY <1>1, <1>2 DEF Next, Step, vars, Pull, Return, YieldSolution, CallBackground, Enter,
     BackgroundThrows, SkipClause, MissClause, EnterClause, Backtrack, Finish

LEMMA AnsweredStays ==
  ASSUME CallInv, [Next]_vars, NEW a, Answered(a)
  PROVE  Answered(a)'
<1>1. task' = task  BY StepShapes
<1>2. PICK n \in DOMAIN answers : \E v \in Valuation :
        Respects(v, answers[n].sub) /\ Ground(task.query, v) = a
  BY DEF Answered
<1>3. n \in DOMAIN answers' /\ answers'[n] = answers[n]
  <2>1. CASE YieldSolution  BY <1>2, <2>1, AnswerShape
  <2>2. CASE UNCHANGED answers  BY <1>2, <2>2
  <2> QED
    BY <2>1, <2>2 DEF Next, Step, vars, Pull, Return, CallBackground, BackgroundThrows,
       SkipClause, MissClause, EnterClause, Backtrack, Finish
<1> QED  BY <1>1, <1>2, <1>3 DEF Answered

(* The innermost call goes on to its next alternative; the way on is one of*)
(* those that are left.                                                    *)
LEMMA AdvancedLeads ==
  ASSUME CallInv, [Next]_vars, stack # <<>>,
         NEW v \in Valuation, Leads(Top, task, v),
         NEW k \in Nat, k > Top.next, WayOn(Top, task, v, k),
         Len(stack) \in DOMAIN stack', stack'[Len(stack)] = Advanced[Len(stack)]
  PROVE  Expected(Ground(task.query, v))'
<1> DEFINE f == Advanced[Len(stack)]
<1>1. IInv /\ task' = task  BY StepShapes DEF CallInv
<1>2. SameCall(f, Top) /\ f.next = Top.next + 1  BY <1>1, AdvancedShape
<1>3. Top.next \in Nat
  <2>1. Len(stack) \in DOMAIN stack /\ Top = stack[Len(stack)]  BY <1>1, StackShape
  <2> QED  BY <2>1 DEF CallInv
<1> HIDE DEF f
<1>4. k >= f.next  BY <1>2, <1>3
<1>5. WayOn(f, task, v, k)  BY <1>2 DEF SameCall, WayOn, FactLeads, ClauseLeads
<1>6. Leads(f, task, v)  BY <1>2, <1>4, <1>5 DEF Leads, SameCall
<1> QED  BY <1>1, <1>6 DEF Expected, f

(* The innermost call makes another, which leads to the instance.          *)
LEMMA EnteredLeads ==
  ASSUME CallInv, NoInventedIds, RenameShifts, [Next]_vars, AnswersAll(task),
         BackgroundIsComplete, DerivableUnfolds, HasGoal,
         NEW goals, NEW sub, NEW node, Enter(goals, sub, node),
         NEW v \in Valuation, Respects(v, sub), AllHold(task, goals, v)
  PROVE  Expected(Ground(task.query, v))'
<1> DEFINE n == Len(stack) + 1
           trace == Append(Top.trace, node)
<1>1. IInv /\ IInv' /\ task' = task /\ task \in Task
  BY StepInv, StepShapes DEF CallInv, IInv
<1>2. stack # <<>>  BY DEF HasGoal
<1>3. DOMAIN stack' = 1 .. n /\ stack'[n] = Frame(goals, sub, trace)
  BY <1>1, EnterShape
<1>4. Len(stack) \in Nat  BY <1>1, <1>2, StackShape
<1>5. n \in DOMAIN stack'  BY <1>3, <1>4
<1> HIDE DEF n, trace
<1>6. FrameOK(Frame(goals, sub, trace), fresh', task)
  BY <1>1, <1>3, <1>5 DEF IInv, FramesOK
<1>7. Leads(Frame(goals, sub, trace), task, v)  BY <1>1, <1>6, FrameLeads
<1> QED  BY <1>1, <1>3, <1>5, <1>7 DEF Expected

LEMMA YieldAnswers ==
  ASSUME CallInv, YieldSolution, NEW v \in Valuation, Respects(v, Top.sub)
  PROVE  Answered(Ground(task.query, v))'
<1> DEFINE n == Len(answers) + 1
<1>1. /\ DOMAIN answers' = 1 .. n /\ Len(answers) \in Nat
      /\ answers'[n] = [sub |-> Top.sub, trace |-> Top.trace]
  BY AnswerShape
<1>2. n \in DOMAIN answers' /\ answers'[n].sub = Top.sub  BY <1>1
<1>3. task' = task  BY DEF YieldSolution
<1> HIDE DEF n
<1> QED  BY <1>2, <1>3 DEF Answered

LEMMA FactStep ==
  ASSUME CallInv, NoInventedIds, RenameShifts, [Next]_vars, AnswersAll(task),
         BackgroundIsComplete, DerivableUnfolds, CallBackground,
         NEW v \in Valuation, Leads(Top, task, v)
  PROVE  Expected(Ground(task.query, v))'
<1>1. /\ CallsFact /\ HasGoal /\ Current.atom.predicate \in task.background
      /\ Enter(Tail(Top.goals), Solutions[Top.next],
               [goal |-> Current.atom, via |-> "background"])
  BY DEF CallBackground, CallsFact, InBackground
<1>2. IInv /\ stack # <<>> /\ Top.goals # <<>>  BY <1>1 DEF CallInv, HasGoal
<1>3. /\ IsSeq(Top.goals) /\ Head(Top.goals) = Current /\ Top.next \in Nat
  BY <1>1, CallFacts
<1>4. PICK k \in Nat : k >= Top.next /\ WayOn(Top, task, v, k)
  BY <1>2 DEF Leads
<1>5. CASE k = Top.next
  <2>1. Respects(v, Solutions[Top.next])
    BY <1>1, <1>3, <1>4, <1>5 DEF WayOn, FactLeads, Solutions
  <2>2. AllHold(task, Tail(Top.goals), v)
    BY <1>2, <1>3, AllHoldOfCons DEF Leads
  <2> QED  BY <1>1, <2>1, <2>2, EnteredLeads
<1>6. CASE k # Top.next
  <2>1. k > Top.next  BY <1>3, <1>4, <1>6
  <2>2. Len(stack) \in DOMAIN stack' /\ stack'[Len(stack)] = Advanced[Len(stack)]
    BY <1>1, <1>2, EnterShape, StackShape
  <2> QED  BY <1>2, <1>4, <2>1, <2>2, AdvancedLeads
<1> QED  BY <1>5, <1>6

(* The clause that is skipped or missed, or the one that is entered, with  *)
(* the one the instance needs.                                             *)
LEMMA ClauseStep ==
  ASSUME CallInv, NoInventedIds, RenameShifts, RenameKeepsValues, ValuesAreLocal,
         UnifierIsGeneral, [Next]_vars, AnswersAll(task),
         BackgroundIsComplete, DerivableUnfolds,
         SkipClause \/ MissClause \/ EnterClause,
         NEW v \in Valuation, Leads(Top, task, v)
  PROVE  Expected(Ground(task.query, v))'
<1>1. MayExpand /\ HasGoal /\ Current.atom.predicate \notin task.background
  BY DEF SkipClause, MissClause, EnterClause, MayExpand, InBackground
<1>2. IInv /\ stack # <<>> /\ Top.goals # <<>>  BY <1>1 DEF CallInv, HasGoal
<1>3. /\ IsSeq(Top.goals) /\ Head(Top.goals) = Current /\ Top.next \in Nat
  BY <1>1, CallFacts
<1>4. PICK k \in Nat : k >= Top.next /\ WayOn(Top, task, v, k)
  BY <1>2 DEF Leads
<1>5. CASE k = Top.next
  <2>1. PICK w \in Valuation : Supports(task, Top.next, w, Ground(Current.atom, v), Current.counts)
    BY <1>1, <1>3, <1>4, <1>5 DEF WayOn, ClauseLeads
  <2>2. /\ Fits /\ Unified # Null
        /\ \E u \in Valuation :
             /\ Respects(u, Unified)
             /\ AllHold(task, Body \o Tail(Top.goals), u)
             /\ Ground(task.query, u) = Ground(task.query, v)
    BY <1>1, <2>1, ClauseFits DEF Leads
  <2>3. Enter(Body \o Tail(Top.goals), Unified, [goal |-> Current.atom, via |-> "clause"])
    BY <2>2 DEF SkipClause, MissClause, EnterClause
  <2>4. PICK u \in Valuation :
          /\ Respects(u, Unified)
          /\ AllHold(task, Body \o Tail(Top.goals), u)
          /\ Ground(task.query, u) = Ground(task.query, v)
    BY <2>2
  <2>5. Expected(Ground(task.query, u))'  BY <1>1, <2>3, <2>4, EnteredLeads
  <2>6. task' = task  BY StepShapes
  <2> QED  BY <2>4, <2>5, <2>6 DEF Expected
<1>6. CASE k # Top.next
  <2>1. k > Top.next  BY <1>3, <1>4, <1>6
  <2>2. Len(stack) \in DOMAIN stack' /\ stack'[Len(stack)] = Advanced[Len(stack)]
    <3>1. Len(stack) \in 1 .. Len(stack) /\ DOMAIN Advanced = 1 .. Len(stack)
      BY <1>2, StackShape, AdvancedShape
    <3>2. CASE stack' = Advanced  BY <3>1, <3>2
    <3>3. CASE EnterClause
      <4>1. Enter(Body \o Tail(Top.goals), Unified, [goal |-> Current.atom, via |-> "clause"])
        BY <3>3 DEF EnterClause
      <4>2. /\ DOMAIN stack' = 1 .. Len(stack) + 1
            /\ \A i \in 1 .. Len(stack) : stack'[i] = Advanced[i]
        BY <1>1, <1>2, <4>1, EnterShape
      <4>3. Len(stack) \in Nat  BY <1>2, StackShape
      <4> QED  BY <3>1, <4>2, <4>3
    <3> QED  BY <3>2, <3>3 DEF SkipClause, MissClause
  <2> QED  BY <1>2, <1>4, <2>1, <2>2, AdvancedLeads
<1> QED  BY <1>5, <1>6

(* A call that has no alternative left leads nowhere.                      *)
LEMMA NoWayBack ==
  ASSUME CallInv, AnswersAll(task), BackgroundIsComplete, Backtrack,
         NEW v \in Valuation
  PROVE  ~Leads(Top, task, v)
<1> SUFFICES ASSUME Leads(Top, task, v) PROVE FALSE
  OBVIOUS
<1>1. HasGoal /\ Top.goals # <<>>  BY DEF Backtrack, HasGoal
<1>2. /\ task \in Task /\ Head(Top.goals) = Current /\ Top.next \in Nat \ {0}
      /\ Current.atom.predicate \in task.predicates
      /\ Current.counts \in [task.predicates -> Nat]
  BY <1>1, CallFacts
<1>3. PICK k \in Nat : k >= Top.next /\ WayOn(Top, task, v, k)
  BY <1>1 DEF Leads
<1>4. CASE Current.atom.predicate \in task.background
  <2>1. k \in DOMAIN Solutions /\ Top.next \notin DOMAIN Solutions
    BY <1>1, <1>2, <1>3, <1>4 DEF WayOn, FactLeads, Solutions, Backtrack, InBackground
  <2>2. IsSeq(Solutions)  BY <1>2, <1>4 DEF BackgroundIsComplete, Solutions
  <2>3. Len(Solutions) \in Nat /\ DOMAIN Solutions = 1 .. Len(Solutions)  BY <2>2, SeqFacts
  <2> HIDE DEF Solutions
  <2> QED  BY <1>2, <1>3, <2>1, <2>3
<1>5. CASE Current.atom.predicate \notin task.background
  <2>1. /\ Current.counts[Current.atom.predicate] < task.maxDepth
        /\ k \in DOMAIN task.program
    BY <1>2, <1>3, <1>5 DEF WayOn, ClauseLeads
  <2>2. AtBound \/ Top.next \notin DOMAIN task.program
    BY <1>5 DEF Backtrack, InBackground
  <2>3. ~AtBound
    <3>1. task.maxDepth \in Nat  BY <1>2, TaskAssumption
    <3>2. Current.counts[Current.atom.predicate] \in Nat  BY <1>2
    <3> QED  BY <2>1, <3>1, <3>2 DEF AtBound, Expansions
  <2>4. task.program \in Seq({task.program[j] : j \in DOMAIN task.program})
    BY <1>2, TaskAssumption
  <2>5. Len(task.program) \in Nat /\ DOMAIN task.program = 1 .. Len(task.program)
    BY <2>4
  <2> QED  BY <1>2, <1>3, <2>1, <2>2, <2>3, <2>5
<1> QED  BY <1>4, <1>5

LEMMA CompleteInit ==
  ASSUME NoInventedIds, BackgroundIsComplete, DerivableUnfolds, Init
  PROVE  CompleteInv
<1> DEFINE g == Goal(task.query, NoExpansions(task))
           f == Frame(<<g>>, InitialSub, <<>>)
<1>1. CallInv /\ IInv /\ task \in Task  BY CallInit DEF CallInv, IInv
<1>2. stack = <<f>>  BY DEF Init
<1>3. 1 \in DOMAIN stack /\ stack[1] = f  BY <1>2
<1>4. FrameOK(f, fresh, task)  BY <1>1, <1>3 DEF IInv, FramesOK
<1>5. g.atom = task.query /\ g.counts = NoExpansions(task)  BY DEF Goal
<1>6. DOMAIN <<g>> = {1} /\ <<g>>[1] = g  OBVIOUS
<1> HIDE DEF g
<1>7. ASSUME AnswersAll(task), NEW v \in Valuation, Respects(v, InitialSub), QueryHolds(task, v)
      PROVE  Expected(Ground(task.query, v))
  <2>1. GoalHolds(task, g, v)  BY <1>5, <1>7 DEF GoalHolds, QueryHolds
  <2>2. AllHold(task, <<g>>, v)  BY <1>6, <2>1 DEF AllHold
  <2>3. Leads(f, task, v)  BY <1>1, <1>4, <1>7, <2>2, FrameLeads
  <2> HIDE DEF f
  <2> QED  BY <1>3, <2>3 DEF Expected
<1> QED  BY <1>1, <1>7 DEF CompleteInv, NothingMissed

(* An instance that the call at frame n leads to is not lost by a step.    *)
LEMMA ExpectedStays ==
  ASSUME CallInv, NoInventedIds, RenameShifts, RenameKeepsValues, ValuesAreLocal,
         UnifierIsGeneral, [Next]_vars, AnswersAll(task),
         BackgroundIsComplete, DerivableUnfolds, pc' \notin {"returned", "failed"},
         NEW n \in DOMAIN stack, NEW v \in Valuation, Leads(stack[n], task, v)
  PROVE  Answered(Ground(task.query, v))' \/ Expected(Ground(task.query, v))'
<1>1. IInv /\ task' = task  BY StepShapes DEF CallInv
<1>2. stack # <<>>
  <2>1. DOMAIN <<>> = {}  OBVIOUS
  <2> QED  BY <2>1
<1>3. /\ Len(stack) \in Nat \ {0} /\ DOMAIN stack = 1 .. Len(stack)
      /\ Top = stack[Len(stack)]
  BY <1>1, <1>2, StackShape
<1>4. CASE UNCHANGED stack
  BY <1>1, <1>4 DEF Expected
<1>5. CASE n # Len(stack)
  <2>1. n \in 1 .. Len(stack) - 1  BY <1>3, <1>5
  <2>2. stack' # <<>>
    <3>1. CASE stack' = <<>>
      <4>1. stack' = Front(stack)  BY <1>2, <3>1, StepIsPop
      <4>2. DOMAIN stack' = 1 .. Len(stack) - 1  BY <1>1, <1>2, <4>1, PopShape
      <4>3. DOMAIN <<>> = {}  OBVIOUS
      <4> QED  BY <2>1, <3>1, <4>2, <4>3
    <3> QED  BY <3>1
  <2>3. n \in DOMAIN stack' /\ stack'[n] = stack[n]  BY <2>1, <2>2, BelowWaits
  <2> QED  BY <1>1, <2>3 DEF Expected
<1>6. CASE n = Len(stack) /\ ~UNCHANGED stack
  <2>1. Leads(Top, task, v)  BY <1>3, <1>6
  <2>2. CASE YieldSolution
    <3>1. Respects(v, Top.sub)  BY <2>1 DEF Leads
    <3> QED  BY <2>2, <3>1, YieldAnswers
  <2>3. CASE CallBackground  BY <2>1, <2>3, FactStep
  <2>4. CASE SkipClause \/ MissClause \/ EnterClause  BY <2>1, <2>4, ClauseStep
  <2>5. CASE Backtrack  BY <2>1, <2>5, NoWayBack
  <2> QED
    BY <1>6, <2>2, <2>3, <2>4, <2>5
       DEF Next, Step, vars, Pull, Return, BackgroundThrows, Finish
<1> QED  BY <1>4, <1>5, <1>6

LEMMA CompleteStep ==
  ASSUME NoInventedIds, RenameShifts, RenameKeepsValues, ValuesAreLocal,
         UnifierIsGeneral, BackgroundIsComplete, DerivableUnfolds, CompleteInv, [Next]_vars
  PROVE  CompleteInv'
<1>1. CallInv /\ CallInv'  BY CallStep DEF CompleteInv
<1>2. task' = task  BY StepShapes
<1>3. ASSUME AnswersAll(task), pc' \notin {"returned", "failed"},
             NEW v \in Valuation, Respects(v, InitialSub), QueryHolds(task, v)
      PROVE  Answered(Ground(task.query, v))' \/ Expected(Ground(task.query, v))'
  <2> DEFINE a == Ground(task.query, v)
  <2>1. pc \notin {"returned", "failed"}
    BY <1>3 DEF Next, Step, vars, Pull, Return, YieldSolution, CallBackground, InBackground,
       BackgroundThrows, SkipClause, MissClause, EnterClause, MayExpand, HasGoal, Backtrack,
       Finish, Suspended
  <2>2. Answered(a) \/ Expected(a)  BY <1>3, <2>1 DEF CompleteInv, NothingMissed
  <2>3. CASE Answered(a)  BY <1>1, <1>2, <2>3, AnsweredStays
  <2>4. CASE Expected(a)
    <3>1. PICK n \in DOMAIN stack, u \in Valuation :
            Leads(stack[n], task, u) /\ Ground(task.query, u) = a
      BY <2>4 DEF Expected
    <3>2. Answered(Ground(task.query, u))' \/ Expected(Ground(task.query, u))'
      BY <1>1, <1>3, <3>1, ExpectedStays
    <3>3. Ground(task.query, u)' = Ground(task.query, v)'  BY <1>2, <3>1
    <3> QED  BY <3>2, <3>3 DEF Answered, Expected
  <2> QED  BY <2>2, <2>3, <2>4
<1>4. AnswersAll(task') /\ pc' \notin {"returned", "failed"} => NothingMissed'
  BY <1>2, <1>3 DEF NothingMissed, QueryHolds
<1> QED  BY <1>1, <1>4 DEF CompleteInv

(* A consumer that drained the generator has seen every instance of the    *)
(* query that holds within the recursion bound, for a background that gives*)
(* every solution: backtracking through the suspended calls skips none, and*)
(* neither the bound nor the fresh names of a clause lose one (interpret of*)
(* resolve.js).                                                            *)
THEOREM AnswersAreCompleteHolds ==
  ASSUME NoInventedIds, RenameShifts, RenameKeepsValues, ValuesAreLocal,
         UnifierIsGeneral, BackgroundIsComplete, DerivableUnfolds, InstancesAreGroundings
  PROVE  Spec => []AnswersAreComplete
<1>1. Init => CompleteInv  BY CompleteInit
<1>2. CompleteInv /\ [Next]_vars => CompleteInv'  BY CompleteStep
<1>3. CompleteInv => AnswersAreComplete
  <2> SUFFICES ASSUME CompleteInv, pc = "done", AnswersAll(task),
                      NEW g \in Instances(task, <<task.query>>, InitialSub), Holds(g[1])
               PROVE  \E n \in DOMAIN answers :
                        g \in Instances(task, <<task.query>>, answers[n].sub)
    BY DEF AnswersAreComplete
  <2> DEFINE q == task.query
  <2>1. PICK v \in Valuation :
          Respects(v, InitialSub) /\ g = Grounds(<<q>>, v) /\ g[1] = Ground(q, v)
    BY QueryInstance
  <2>2. QueryHolds(task, v)  BY <2>1 DEF Holds, QueryHolds
  <2>3. stack = <<>>  BY DEF CompleteInv, CallInv
  <2>4. ~Expected(Ground(q, v))
    <3>1. DOMAIN <<>> = {}  OBVIOUS
    <3> QED  BY <2>3, <3>1 DEF Expected
  <2>5. Answered(Ground(q, v))
    BY <2>1, <2>2, <2>4 DEF CompleteInv, NothingMissed
  <2>6. PICK n \in DOMAIN answers, u \in Valuation :
          Respects(u, answers[n].sub) /\ Ground(q, u) = Ground(q, v)
    BY <2>5 DEF Answered
  <2>7. Grounds(<<q>>, u) = Grounds(<<q>>, v)
    <3>1. \A k \in DOMAIN <<q>> : <<q>>[k] = q  OBVIOUS
    <3> HIDE DEF q
    <3> QED  BY <2>6, <3>1 DEF Grounds
  <2>8. g \in Instances(task, <<q>>, answers[n].sub)
    BY <2>1, <2>6, <2>7 DEF InstancesAreGroundings
  <2> QED  BY <2>8
<1> QED  BY <1>1, <1>2, <1>3, PTL DEF Spec

=============================================================================
