---------------------------- MODULE MCLowering ----------------------------
(***************************************************************************)
(* The code a program is lowered to against the interpreter, which is the  *)
(* reference: every solution is pulled from the interpreter and compared   *)
(* with what the emitted code computes on the same facts.                  *)
(***************************************************************************)
EXTENDS MCResolve

MCPrimitive(t, a) == MCSolve(t, a, T!EmptySub)

L == INSTANCE Lowering WITH Primitive <- MCPrimitive

---------------------------------------------------------------------------
(* Programs without compound terms.                                        *)

LoopFacts == <<At("edge", <<A, B>>), At("edge", <<B, B>>), At("edge", <<B, C>>), At("edge", <<A, C>>)>>
Chain     == <<At("next", <<A, B>>), At("next", <<B, C>>), At("stop", <<C>>)>>

Edge(t, u) == At("edge", <<t, u>>)
Next2(t, u) == At("next", <<t, u>>)
Fact(t, u) == At("f", <<t, u>>)
Stop(t) == At("stop", <<t>>)

(* One clause of one or two goals, with constants and repeated variables.  *)
OneClause ==
  {<<Rule(h, b)>> : h \in {Fact(X, Y), Fact(X, X)},
     b \in {<<Edge(t, u)>> : t, u \in {X, Y, A}} \cup
           {<<Edge(t, u), Edge(v, w)>> : t \in {X, A}, u \in {Y, Z}, v \in {Y, Z}, w \in {Y, Z, C}}}

(* Clauses that call one another.                                          *)
Calling ==
  {p \o q : p \in Paths,
     q \in {<<Rule(Fact(X, Y), <<At("path", <<A, X>>), At("path", <<X, Y>>)>>)>>,
            <<Rule(Fact(X, Y), <<At("path", <<A, Y>>), At("path", <<X, Y>>)>>)>>,
            <<Rule(Fact(X, Y), <<At("path", <<X, Y>>), At("path", <<Y, Y>>)>>),
              Rule(Fact(X, Y), <<At("path", <<Y, X>>), Edge(X, C)>>)>>}}

(* Functions of a chain, to the end of it and with a choice on the way.    *)
EndOfChain ==
  <<Rule(Fact(X, Y), <<Next2(X, Y), Stop(Y)>>),
    Rule(Fact(X, Y), <<Next2(X, Z), Fact(Z, Y)>>)>>

Steps ==
  <<Rule(At("hop", <<X, Y>>), <<Next2(X, Y)>>),
    Rule(At("hop", <<X, Y>>), <<Next2(X, Z), Next2(Z, Y)>>)>>

Functional ==
  {EndOfChain, Steps \o <<Rule(Fact(X, Y), <<At("hop", <<X, Y>>)>>)>>,
   <<Rule(Fact(X, Y), <<Next2(X, Z), Next2(Z, Y)>>)>>}

Choosing == {Steps \o <<Rule(Fact(X, Y), <<At("hop", <<X, Y>>), Stop(Y)>>)>>}

Directions == {<<m, n>> : m, n \in {"in", "out"}}

FlatTask(program, facts, fm, pm, depth) ==
  LET base == MkTask(program, facts, {"edge", "next", "stop"}, {A, B, C},
                     Fact(IF fm[1] = "in" THEN A ELSE Q, IF fm[2] = "in" THEN C ELSE R), depth)
  IN base @@ [modes |-> [p \in base.predicates |->
                           IF p = "f" THEN fm ELSE IF p = "stop" THEN <<"in">> ELSE pm],
              nondet |-> {"edge"}]

Lowerable(tasks) == {t \in tasks : L!Feasible(t) \/ L!SqlFeasible(t)}

FlatTasks ==
  Lowerable(
    {FlatTask(p, LoopFacts, fm, pm, 2) : p \in OneClause, fm \in Directions, pm \in Directions}
    \cup {FlatTask(p, f, fm, pm, d) : p \in Calling, f \in {Fork, Cycle}, fm \in Directions,
            pm \in {<<"in", "out">>, <<"out", "out">>}, d \in MaxDepths}
    \cup {FlatTask(p, Chain, fm, <<"in", "out">>, 3) :
            p \in Functional \cup Choosing, fm \in {<<"in", "out">>, <<"in", "in">>}})

(* Clauses the enumerator does not make, or that break the emitted code.   *)
Irregular(t) ==
  \E k \in DOMAIN t.program : LET c == t.program[k] IN
    \/ L!RepeatsInput(t, c)
    \/ \E m \in DOMAIN c.body : \E x \in L!FreshAt(t, c, m) :
         Cardinality({n \in L!At(t, c.body[m], "out") : c.body[m].args[n] = T!Var(x)}) > 1

MCAllTask == MCTask \cup {t \in FlatTasks : L!Feasible(t) => ~Irregular(t)}

---------------------------------------------------------------------------
(* Properties.                                                             *)

Drained == pc = "done" /\ "modes" \in DOMAIN task

(* What an answer gives the caller of the lowered entry point.             *)
OutsOf(n) == [k \in L!At(task, task.query, "out") |-> T!Apply(task.query.args[k], answers[n].sub)]

Interpreted == [n \in DOMAIN answers |-> OutsOf(n)]

(* "lowered code must produce the same solutions on the same inputs": the  *)
(* emitted generators yield the interpreter's solutions, one for one and in*)
(* its order, unless a call nests deeper than the interpreter goes.        *)
GeneratorsAgree ==
  Drained /\ L!Feasible(task) => \A lang \in {"javascript", "python"} :
    LET r == L!Lowered(task, lang) IN ~r.deep => ~r.threw /\ r.outs = Interpreted

(* The C function answers with the interpreter's first solution, or fails  *)
(* when there is none, as long as no call of the program has a choice.     *)
CFunctionAgrees ==
  Drained /\ L!CFeasible(task) =>
    LET r == L!Lowered(task, "javascript") IN
      ~r.deep /\ ~r.several =>
        LET c == L!LoweredC(task) IN
          /\ c.holds <=> Interpreted # <<>>
          /\ c.holds => c.outs = Interpreted[1]

(* A view has the rows of the predicate, all of them when the interpreter  *)
(* goes deep enough.                                                       *)
Found == {ApplyAtom(task.query, answers[n].sub).args : n \in DOMAIN answers}

Asked == {row \in L!LoweredSql(task)[task.query.predicate] :
            \A k \in DOMAIN row : T!IsConst(task.query.args[k]) => row[k] = task.query.args[k]}

ViewAgrees ==
  Drained /\ L!SqlFeasible(task) =>
    /\ Found \subseteq Asked
    /\ task.maxDepth >= Cardinality(task.universe) => Asked \subseteq Found

(* What the C and SQL targets answer is what the interpreter answers, where*)
(* "the targets agree with one another" (overview.md) can hold: for C the  *)
(* first solution of a call without choices, for SQL rows without an order.*)
FunctionsAndViewsAgree == CFunctionAgrees /\ ViewAgrees

---------------------------------------------------------------------------
(* Programs whose emitted code goes wrong.                                 *)

MCRepeating == {t \in FlatTasks : L!Feasible(t) /\ Irregular(t) /\ \A k \in DOMAIN t.program : ~L!RepeatsInput(t, t.program[k])}

MCChoosing == {t \in FlatTasks : t.authored \in Choosing}

(* "The JSON interpreter is still the reference semantics" (c.js).         *)
CFunctionsAlwaysAgree ==
  Drained /\ L!CFeasible(task) /\ ~L!Lowered(task, "javascript").deep =>
    (L!LoweredC(task).holds <=> Interpreted # <<>>)

=============================================================================
