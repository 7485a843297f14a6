----------------------------- MODULE MCResolve -----------------------------
(***************************************************************************)
(* The interpreter with the unification of Terms, on programs that recurse *)
(* to the left and to the right, mutually and on structure, over cyclic    *)
(* data, against what the programs mean.                                   *)
(***************************************************************************)
EXTENDS Resolve, FiniteSets

CONSTANT MaxDepths   \* the values of max_recursion_depth

T == INSTANCE Normalize

MCUnifyAll(as, bs, s) == T!UnifyAll(as, bs, s)
MCArgIds(args)        == UNION {T!TermIds(args[k]) : k \in DOMAIN args}
MCSubIds(s)           == T!SubIds(s)
MCEmptySub            == T!EmptySub

ApplyAtom(a, s) == [a EXCEPT !.args = [k \in DOMAIN a.args |-> T!Apply(a.args[k], s)]]

RECURSIVE ShiftTerm(_, _)
ShiftTerm(t, by) ==
  IF T!IsVar(t) THEN T!Var(t[2] + by)
  ELSE IF T!IsCompound(t)
    THEN T!Compound(t[2], [k \in DOMAIN t[3] |-> ShiftTerm(t[3][k], by)])
    ELSE t

MCRename(a, by) == [a EXCEPT !.args = [k \in DOMAIN a.args |-> ShiftTerm(a.args[k], by)]]

(* A background predicate tries its facts in order, as the fixtures of the *)
(* tests do; a moded one gives up when its input is not bound.  A          *)
(* generator yields a substitution for each fact that fits, a plain        *)
(* function returns the first or none at all.                              *)
NeedsInput(t, a, s) ==
  a.predicate \in t.moded /\ T!TermIds(T!Apply(a.args[1], s)) # {}

MCSolve(t, a, s) ==
  IF NeedsInput(t, a, s) THEN <<>>
  ELSE LET facts == SelectSeq(t.facts, LAMBDA f : f.predicate = a.predicate)
           fits == SelectSeq([k \in DOMAIN facts |-> T!UnifyAll(a.args, facts[k].args, s)],
                             LAMBDA r : r # Null)
       IN IF a.predicate \in t.plain /\ fits # <<>> THEN <<Head(fits)>> ELSE fits

---------------------------------------------------------------------------
(* Programs.                                                               *)

At(p, args) == [predicate |-> p, args |-> args]
Rule(head, body) == [head |-> head, body |-> body]

X == T!Var("X")
Y == T!Var("Y")
Z == T!Var("Z")
Q == T!Var(7)
R == T!Var(9)
A == T!Const("a")
B == T!Const("b")
C == T!Const("c")
O == T!Const("0")
S(t) == T!Compound("s", <<t>>)
N(k) == CASE k = 0 -> O [] k = 1 -> S(O) [] k = 2 -> S(S(O)) [] OTHER -> S(S(S(O)))

Cycle == <<At("edge", <<A, B>>), At("edge", <<B, C>>), At("edge", <<C, A>>)>>
Fork  == <<At("edge", <<A, B>>), At("edge", <<A, C>>), At("stop", <<B>>)>>

Base  == Rule(At("path", <<X, Y>>), <<At("edge", <<X, Y>>)>>)
Right == Rule(At("path", <<X, Y>>), <<At("edge", <<X, Z>>), At("path", <<Z, Y>>)>>)
Left  == Rule(At("path", <<X, Y>>), <<At("path", <<X, Z>>), At("edge", <<Z, Y>>)>>)

Paths == {<<Base, Right>>, <<Right, Base>>, <<Base, Left>>, <<Left, Base>>}

(* ping and pong call each other; p needs two ping's side by side.         *)
PingPong ==
  <<Rule(At("ping", <<X>>), <<At("stop", <<X>>)>>),
    Rule(At("ping", <<X>>), <<At("pong", <<X>>)>>),
    Rule(At("pong", <<X>>), <<At("edge", <<X, Y>>), At("ping", <<Y>>)>>),
    Rule(At("p", <<X, Y>>), <<At("ping", <<X>>), At("ping", <<Y>>)>>)>>

Numbers ==
  <<Rule(At("nat", <<O>>), <<>>),
    Rule(At("nat", <<S(X)>>), <<At("nat", <<X>>)>>),
    Rule(At("plus", <<O, X, X>>), <<>>),
    Rule(At("plus", <<S(X), Y, S(Z)>>), <<At("plus", <<X, Y, Z>>)>>),
    Rule(At("same", <<X, X>>), <<>>)>>

MkTask(program, facts, background, universe, query, depth) ==
  [authored |-> program, program |-> T!Normalize(program), facts |-> facts,
   background |-> background, moded |-> {}, plain |-> {},
   throws |-> {}, universe |-> universe, query |-> query, maxDepth |-> depth,
   predicates |-> background \cup {program[k].head.predicate : k \in DOMAIN program}]

PathTasks ==
  {MkTask(p, f, {"edge", "stop"}, {A, B, C}, At("path", q), d) :
     p \in Paths, f \in {Cycle, Fork}, q \in {<<A, C>>, <<A, Q>>, <<Q, Q>>, <<Q, R>>},
     d \in MaxDepths}

PingTasks ==
  {MkTask(PingPong, f, {"edge", "stop"}, {A, B, C}, q, d) :
     f \in {Cycle \o <<At("stop", <<C>>)>>, Fork}, d \in MaxDepths,
     q \in {At("ping", <<A>>), At("ping", <<Q>>), At("p", <<Q, B>>), At("p", <<Q, R>>)}}

NumberTasks ==
  {MkTask(Numbers, <<>>, {}, {N(k) : k \in 0 .. 3}, q, d) :
     d \in MaxDepths,
     q \in {At("nat", <<N(2)>>), At("nat", <<Q>>), At("plus", <<Q, R, N(2)>>),
            At("plus", <<Q, Q, R>>), At("same", <<Q, S(Q)>>), At("same", <<S(Q), S(R)>>),
            At("none", <<Q>>), At("nat", <<Q, R>>)}}

(* edge needs its first argument; plain functions in the place of          *)
(* generators; and a predicate that throws.                                *)
ModedTasks == {[t EXCEPT !.moded = {"edge"}] : t \in PathTasks}
PlainTasks ==
  {[t EXCEPT !.plain = {"edge"}] : t \in PathTasks} \cup
  {[t EXCEPT !.plain = {"stop"}] : t \in PingTasks}
ThrowTasks == {[t EXCEPT !.throws = {"stop"}] : t \in PingTasks}

MCTask ==
  {[t EXCEPT !.predicates = @ \cup {t.query.predicate}] :
     t \in PathTasks \cup PingTasks \cup NumberTasks \cup ModedTasks
                  \cup PlainTasks \cup ThrowTasks}

---------------------------------------------------------------------------
(* What an authored program means: which ground atoms hold with derivations*)
(* that nest no predicate deeper than the bound, from the given counts.    *)

Groundings(t, ids) == [ids -> t.universe]

IsFact(t, a) == \E k \in DOMAIN t.facts : t.facts[k] = a

RECURSIVE MCDerivable(_, _, _)
MCDerivable(t, a, counts) ==
  IF a.predicate \in t.background
    THEN IsFact(t, a)
    ELSE /\ counts[a.predicate] < t.maxDepth
         /\ \E k \in DOMAIN t.authored : LET c == t.authored[k] IN
              /\ c.head.predicate = a.predicate
              /\ \E v \in Groundings(t, Range(T!ClauseNames(c))) :
                   /\ ApplyAtom(c.head, v) = a
                   /\ \A m \in DOMAIN c.body :
                        MCDerivable(t, ApplyAtom(c.body[m], v),
                                    [counts EXCEPT ![a.predicate] = @ + 1])

(* The joint instances of atoms under a substitution, as far as they are in*)
(* the universe.                                                           *)
InUniverse(t, a) == \A k \in DOMAIN a.args : a.args[k] \in t.universe

MCInstances(t, atoms, s) ==
  LET bs == [k \in DOMAIN atoms |-> ApplyAtom(atoms[k], s)]
      ids == UNION {AtomIds(bs[k]) : k \in DOMAIN bs}
      all == {[k \in DOMAIN bs |-> ApplyAtom(bs[k], v)] : v \in Groundings(t, ids)}
  IN {g \in all : \A k \in DOMAIN g : InUniverse(t, g[k])}

(* A plain function is the whole predicate when it has one fact to give.   *)
SaysAll(t, p) ==
  p \in t.plain => Len(SelectSeq(t.facts, LAMBDA f : f.predicate = p)) <= 1

MCAnswersAll(t) == t.moded = {} /\ \A p \in t.background : SaysAll(t, p)

RECURSIVE MCReplays(_, _, _)
MCReplays(t, goals, trace) ==
  IF goals = <<>> \/ trace = <<>> THEN goals = trace
  ELSE /\ Head(goals) = Head(trace).goal
       /\ IF Head(trace).via = "background"
            THEN IsFact(t, Head(goals)) /\ MCReplays(t, Tail(goals), Tail(trace))
            ELSE \E k \in DOMAIN t.authored : LET c == t.authored[k] IN
                   \E v \in Groundings(t, Range(T!ClauseNames(c))) :
                     /\ ApplyAtom(c.head, v) = Head(goals)
                     /\ MCReplays(t, [m \in DOMAIN c.body |-> ApplyAtom(c.body[m], v)]
                                       \o Tail(goals), Tail(trace))

=============================================================================
