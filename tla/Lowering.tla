----------------------------- MODULE Lowering -----------------------------
(***************************************************************************)
(* Lowering a program to source code: the shared analysis of               *)
(* src/core/lowering/analyze.js and what the source that javascript.js,    *)
(* python.js, c.js and sql.js emit computes when it runs.                  *)
(*                                                                         *)
(* A task t is a record as in Resolve with also t.modes, the merged modes  *)
(* of the predicates.  A clause's variables are its ids, which stand for   *)
(* the names v_X of the emitted code.  An environment is what these hold.  *)
(***************************************************************************)
EXTENDS Terms, FiniteSets, FiniteSetsExt

CONSTANT Primitive(_, _)   \* the solutions of a background goal of a task

---------------------------------------------------------------------------
(* analyze.js                                                              *)

HeadPredicates(t) == {t.program[k].head.predicate : k \in DOMAIN t.program}

HasCompoundArg(a) == \E k \in DOMAIN a.args : IsCompound(a.args[k])

At(t, a, mode) == {k \in DOMAIN a.args : t.modes[a.predicate][k] = mode}

VarsAt(a, ks) == {a.args[k][2] : k \in {n \in ks : IsVar(a.args[n])}}

Ins(t, a)  == VarsAt(a, At(t, a, "in"))
Outs(t, a) == VarsAt(a, At(t, a, "out"))

Moded(t, a) == a.predicate \in DOMAIN t.modes /\ Len(t.modes[a.predicate]) = Len(a.args)

(* The variables bound when goal m of the body is reached.                 *)
BoundBefore(t, c, m) == Ins(t, c.head) \cup UNION {Outs(t, c.body[n]) : n \in 1 .. m - 1}

Flat(c) ==
  /\ \A m \in DOMAIN c.body : ~HasCompoundArg(c.body[m])
  /\ \A k \in DOMAIN c.head.args : IsVar(c.head.args[k])

(* modeError finds nothing wrong with the clause.                          *)
WellModed(t, c) ==
  /\ Flat(c)
  /\ Moded(t, c.head)
  /\ \A m \in DOMAIN c.body :
       Moded(t, c.body[m]) /\ Ins(t, c.body[m]) \subseteq BoundBefore(t, c, m)
  /\ Outs(t, c.head) \subseteq BoundBefore(t, c, Len(c.body) + 1)

Feasible(t) == \A k \in DOMAIN t.program : WellModed(t, t.program[k])

(* The clauses of one generator, in the order of the program.              *)
Group(t, p) == SelectSeq(t.program, LAMBDA c : c.head.predicate = p)

RepeatsInput(t, c) == Cardinality(Ins(t, c.head)) < Cardinality(At(t, c.head, "in"))

FirstAt(a, ks, x) == Min({k \in ks : a.args[k] = Var(x)})

FreshAt(t, c, m) == Outs(t, c.body[m]) \ BoundBefore(t, c, m)

---------------------------------------------------------------------------
(* JavaScript and Python.  A generator's run is what it yielded, whether   *)
(* it threw, whether a call nested deeper than t.maxDepth (the emitted code*)
(* has no such bound) and whether a call of it had several solutions.      *)

Extend(env, more) == [x \in DOMAIN env \cup DOMAIN more |-> IF x \in DOMAIN more THEN more[x] ELSE env[x]]

Render(a, env) == IF IsVar(a) THEN env[a[2]] ELSE a

TermEqual(a, b) == a = b

(* The emitted head: a parameter for every input, a variable for each name;*)
(* a name that is assigned twice keeps its last value.                     *)
HeadEnv(t, c, ins) ==
  [x \in Ins(t, c.head) |-> ins[Max({k \in At(t, c.head, "in") : c.head.args[k] = Var(x)})]]

Yielded(t, c, env) == [k \in At(t, c.head, "out") |-> env[c.head.args[k][2]]]

(* A goal that calls a generator takes a tuple: an output binds a fresh    *)
(* variable the first time and is compared otherwise.                      *)
TakeTuple(t, c, m, o, env) ==
  LET g == c.body[m]
  IN Extend(env, [x \in FreshAt(t, c, m) |-> o[FirstAt(g, At(t, g, "out"), x)]])

(* Faulty variant: an output that is bound or constant is not compared.    *)
TakesAnyTuple(t, c, m, o, env) == TRUE

AgreesWithTuple(t, c, m, o, env) ==
  \A k \in DOMAIN o : TermEqual(o[k], Render(c.body[m].args[k], env))

(* A goal that calls a primitive hands it a variable at the first place of *)
(* every fresh name, and the value of the name everywhere else.            *)
IsFirst(t, c, m, k) ==
  LET g == c.body[m]
  IN IsVar(g.args[k]) /\ g.args[k][2] \in FreshAt(t, c, m)
     /\ k = FirstAt(g, At(t, g, "out"), g.args[k][2])

NameUndefined(t, c, m, env) ==
  \E k \in DOMAIN c.body[m].args :
    ~IsFirst(t, c, m, k) /\ IsVar(c.body[m].args[k]) /\ c.body[m].args[k][2] \notin DOMAIN env

Request(t, c, m, env) ==
  [c.body[m] EXCEPT !.args =
     [k \in DOMAIN @ |-> IF IsFirst(t, c, m, k) THEN @[k] ELSE Render(@[k], env)]]

ReadSolution(t, c, m, s, env) ==
  Extend(env, [x \in FreshAt(t, c, m) |-> Apply(Var(x), s)])

EmptyRun == [env |-> << >>, outs |-> <<>>, threw |-> FALSE, deep |-> FALSE, several |-> FALSE]

(* A JavaScript block forgets its variables, a Python function keeps them. *)
Scope(lang, env, inner) == IF lang = "javascript" THEN env ELSE inner

RECURSIVE Generate(_, _, _, _, _), Nest(_, _, _, _, _, _)

(* Goal m of the body and those nested in its loop, from run r.            *)
Nest(t, lang, c, m, depth, r) ==
  IF m > Len(c.body) THEN [r EXCEPT !.outs = Append(@, Yielded(t, c, r.env))]
  ELSE LET
    g     == c.body[m]
    calls == g.predicate \in HeadPredicates(t)
    inner == IF calls
      THEN Generate(t, lang, g.predicate, [k \in At(t, g, "in") |-> Render(g.args[k], r.env)], depth)
      ELSE [EmptyRun EXCEPT !.threw = NameUndefined(t, c, m, r.env),
              !.outs = IF NameUndefined(t, c, m, r.env) THEN <<>> ELSE Primitive(t, Request(t, c, m, r.env))]
    turn(acc, o) ==
      LET base == Scope(lang, r.env, acc.env)
          env  == IF calls THEN TakeTuple(t, c, m, o, base) ELSE ReadSolution(t, c, m, o, base)
      IN IF acc.threw THEN acc
         ELSE IF calls /\ ~AgreesWithTuple(t, c, m, o, env) THEN [acc EXCEPT !.env = env]
         ELSE Nest(t, lang, c, m + 1, depth, [acc EXCEPT !.env = env])
    all   == FoldLeft(turn, r, inner.outs)
  IN [env |-> Scope(lang, r.env, all.env), outs |-> all.outs,
      threw |-> all.threw \/ inner.threw, deep |-> all.deep \/ inner.deep,
      several |-> all.several \/ inner.several \/ (calls /\ Len(inner.outs) > 1)]

(* The generator of a head predicate, drained.                             *)
Generate(t, lang, p, ins, depth) ==
  IF depth[p] >= t.maxDepth THEN [EmptyRun EXCEPT !.deep = TRUE]
  ELSE FoldLeft(LAMBDA r, c : IF r.threw THEN r
                  ELSE Nest(t, lang, c, 1, [depth EXCEPT ![p] = @ + 1],
                            [r EXCEPT !.env = Extend(Scope(lang, << >>, @), HeadEnv(t, c, ins))]),
                EmptyRun, Group(t, p))

(* A JavaScript module that declares a name twice in a block does not load.*)
Loads(t, lang) == lang = "javascript" => \A k \in DOMAIN t.program : ~RepeatsInput(t, t.program[k])

CallerIns(t) == [k \in At(t, t.query, "in") |-> t.query.args[k]]

NoCalls(t) == [p \in HeadPredicates(t) |-> 0]

(* The entry point of the query's predicate, called on the query's inputs. *)
Lowered(t, lang) ==
  IF Loads(t, lang) THEN Generate(t, lang, t.query.predicate, CallerIns(t), NoCalls(t))
  ELSE [EmptyRun EXCEPT !.threw = TRUE]

---------------------------------------------------------------------------
(* C.  A predicate is a function that answers once: the first clause whose *)
(* conditions hold, each condition with its first answer.                  *)

CFeasible(t) ==
  /\ Feasible(t)
  /\ \A k \in DOMAIN t.program : \A m \in DOMAIN t.program[k].body :
       LET p == t.program[k].body[m].predicate IN p \in HeadPredicates(t) \/ p \notin t.nondet

(* The pointers a call writes through: one for every output.               *)
Pointers(t, g, env) ==
  [g EXCEPT !.args = [k \in DOMAIN @ |-> IF k \in At(t, g, "out") THEN Var(-k) ELSE Render(@[k], env)]]

Fails == [holds |-> FALSE, outs |-> << >>]

RECURSIVE CallC(_, _, _)
CallC(t, p, ins) ==
  LET
    answer(g, env) ==
      IF g.predicate \in HeadPredicates(t)
        THEN CallC(t, g.predicate, [k \in At(t, g, "in") |-> Render(g.args[k], env)])
        ELSE LET sols == Primitive(t, Pointers(t, g, env)) IN
          IF sols = <<>> THEN Fails
          ELSE [holds |-> TRUE, outs |-> [k \in At(t, g, "out") |-> Apply(Var(-k), sols[1])]]
    condition(c, acc, m) ==
      IF ~acc.holds THEN acc
      ELSE LET r   == answer(c.body[m], acc.env)
               env == IF r.holds THEN TakeTuple(t, c, m, r.outs, acc.env) ELSE acc.env
           IN [holds |-> r.holds /\ AgreesWithTuple(t, c, m, r.outs, env), env |-> env]
    body(c) == FoldLeft(LAMBDA acc, m : condition(c, acc, m),
                        [holds |-> TRUE, env |-> HeadEnv(t, c, ins)], [m \in DOMAIN c.body |-> m])
    try(r, c) ==
      IF r.holds THEN r
      ELSE LET b == body(c) IN
        IF b.holds THEN [holds |-> TRUE, outs |-> Yielded(t, c, b.env)] ELSE Fails
  IN FoldLeft(try, Fails, Group(t, p))

LoweredC(t) == CallC(t, t.query.predicate, CallerIns(t))

---------------------------------------------------------------------------
(* SQL.  A predicate is a view, a clause a SELECT over one row of every    *)
(* goal's relation, linear recursion a recursive common table expression.  *)

BodyVars(c) == UNION {VarsAt(c.body[m], DOMAIN c.body[m].args) : m \in DOMAIN c.body}

Calls(c, p) == {m \in DOMAIN c.body : c.body[m].predicate = p}

Reads(t, p) ==
  HeadPredicates(t) \cap
    UNION {{c.body[m].predicate : m \in DOMAIN c.body} : c \in Range(Group(t, p))}

(* The heads that p reads, directly or not.                                *)
Below(t, p) ==
  LET step[n \in 0 .. Cardinality(HeadPredicates(t))] ==
        IF n = 0 THEN Reads(t, p) ELSE step[n - 1] \cup UNION {Reads(t, q) : q \in step[n - 1]}
  IN step[Cardinality(HeadPredicates(t))]

MutuallyRecursive(t) ==
  \E p, q \in HeadPredicates(t) : p # q /\ q \in Below(t, p) /\ p \in Below(t, q)

SqlFeasible(t) ==
  /\ \A c \in Range(t.program) :
       /\ Flat(c)
       /\ VarsAt(c.head, DOMAIN c.head.args) \subseteq BodyVars(c)
       /\ Cardinality(Calls(c, c.head.predicate)) <= 1
  /\ ~MutuallyRecursive(t)
  /\ \A p \in HeadPredicates(t) : \E c \in Range(Group(t, p)) : Calls(c, p) = {}

(* A place is a goal and a column; a variable is read at its first one.    *)
Places(c, x) ==
  {mk \in UNION {{m} \X DOMAIN c.body[m].args : m \in DOMAIN c.body} :
     c.body[mk[1]].args[mk[2]] = Var(x)}

FirstPlace(c, x) ==
  CHOOSE p \in Places(c, x) : \A q \in Places(c, x) : p[1] < q[1] \/ (p[1] = q[1] /\ p[2] <= q[2])

(* Faulty variant: a repeated variable makes no join.                      *)
UnjoinedWhere(c, row) ==
  \A m \in DOMAIN c.body : \A k \in DOMAIN c.body[m].args :
    IsConst(c.body[m].args[k]) => row[m][k] = c.body[m].args[k]

Cell(c, row, x) == LET p == FirstPlace(c, x) IN row[p[1]][p[2]]

Where(c, row) ==
  \A m \in DOMAIN c.body : \A k \in DOMAIN c.body[m].args :
    LET a == c.body[m].args[k]
    IN row[m][k] = IF IsConst(a) THEN a ELSE Cell(c, row, a[2])

Select(c, rel) ==
  {[k \in DOMAIN c.head.args |-> Cell(c, row, c.head.args[k][2])] :
     row \in {r \in [DOMAIN c.body -> UNION Range(rel)] :
                /\ \A m \in DOMAIN r : r[m] \in rel[c.body[m].predicate]
                /\ Where(c, r)}}

(* The rows of a view: those of the clauses that do not recurse, and what  *)
(* the others add until nothing is new.                                    *)
RECURSIVE Close(_, _, _, _)
Close(t, p, rel, rows) ==
  LET more == UNION {Select(c, [rel EXCEPT ![p] = rows]) : c \in Range(Group(t, p))}
  IN IF more \subseteq rows THEN rows ELSE Close(t, p, rel, rows \cup more)

(* A view is created after the views it reads.                             *)
Order(t) ==
  CHOOSE o \in SetToSeqs(HeadPredicates(t)) :
    \A i, j \in DOMAIN o : i < j => o[j] \notin Reads(t, o[i])

Tables(t) == [p \in t.predicates |-> {t.facts[k].args : k \in {n \in DOMAIN t.facts : t.facts[n].predicate = p}}]

LoweredSql(t) ==
  FoldLeft(LAMBDA rel, p : [rel EXCEPT ![p] = Close(t, p, rel, {})], Tables(t), Order(t))

=============================================================================
