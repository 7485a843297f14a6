------------------------------ MODULE MCUnify ------------------------------
(***************************************************************************)
(* Both unifications of the repository on every pair of a family of terms: *)
(* the precise one against what equations mean, the packed one against the *)
(* precise one, through memory that earlier terms have used.               *)
(***************************************************************************)
EXTENDS Structural, UnifyPacked

---------------------------------------------------------------------------
(* Terms.  A candidate and an example are atoms of two arguments.          *)

X == Var(0)
Y == Var(1)
A == Const("a")
B == Const("b")
F(t)    == Compound("f", <<t>>)
G(t, u) == Compound("g", <<t, u>>)
P(t, u) == Compound("p", <<t, u>>)

Open   == {X, Y, A, F(X), F(Y), G(X, Y), G(Y, F(X)), G(X, X)}
Closed == {A, B, F(A), F(F(A)), G(A, A), G(A, F(A)), Compound("g", <<>>), Compound("g", <<A>>)}

Atoms(S) == {P(t, u) : t, u \in S}

(* Too wide, too deep, and terms that fill the region.                     *)
Large == {Compound("p", <<A, A, A>>), P(G(A, A), G(A, F(A))), P(G(A, A), G(A, A))}

RECURSIVE Shifted(_)
Shifted(t) ==
  IF IsVar(t) THEN Var(t[2] + 2)
  ELSE IF IsCompound(t) THEN Compound(t[2], [k \in DOMAIN t[3] |-> Shifted(t[3][k])]) ELSE t

(* A candidate and an example are independent variable scopes.             *)
Covers(c, e) == Unify(c, Shifted(e), EmptySub) # Null

Layout == TermLayout(2, 4)

(* What an earlier batch left in a pooled buffer.                          *)
Used == PackTermInto(Layout, Fresh(Layout), <<>>, P(G(A, B), F(F(A)))).view

(* The oracle packs into new memory, a kernel reads recycled memory.       *)
Memory == [cpu |-> Fresh(Layout), gpu |-> Used]

PackBoth(backend, c, e) ==
  LET pc == PackTermInto(Layout, Memory[backend], <<>>, c)
      pe == PackTermInto(Layout, Memory[backend], pc.symbols, e)
  IN [A |-> pc.view, B |-> pe.view, symbols |-> pe.symbols, ok |-> pc.ok /\ pe.ok,
      candidate |-> c, example |-> e, others |-> {}, backend |-> backend, layout |-> Layout]

Calls(pairs) == {PackBoth(b, ce[1], ce[2]) : b \in DOMAIN Memory, ce \in pairs}

RECURSIVE Size(_), Widest(_), Occurrences(_)
Size(t) == IF IsCompound(t) THEN FoldLeft(LAMBDA n, u : n + Size(u), 1, t[3]) ELSE 1
Widest(t) ==
  IF IsCompound(t) THEN FoldLeft(LAMBDA n, u : IF Widest(u) > n THEN Widest(u) ELSE n, Len(t[3]), t[3])
  ELSE 0
Occurrences(t) ==
  IF IsCompound(t) THEN FoldLeft(LAMBDA n, u : n + Occurrences(u), 0, t[3])
  ELSE IF IsVar(t) THEN 1 ELSE 0

(* No variable twice: ground, or nothing for an occurs check to find.      *)
IsLinear(t) == Occurrences(t) = Cardinality(TermIds(t))

(* Linear examples, and others that unify.                                 *)
MCPairs ==
  (Atoms(Open) \X {e \in Atoms(Closed \cup Open) : IsLinear(e)})
  \cup {ce \in Atoms(Open) \X Atoms(Open) : Covers(ce[1], ce[2])}
  \cup (Large \X Large)

(* Examples of one or two places: flat, nested with room for the layout,   *)
(* too many slots for it, and wider inside than outside.                   *)
Lists == {<<P(A, B), P(A, A), P(B, B)>>, <<P(F(A), B), P(A, F(F(A)))>>,
          <<P(G(A, A), B)>>, <<P(G(A, A), G(A, B))>>,
          <<Compound("p", <<A>>), Compound("p", <<F(B)>>)>>, <<Compound("p", <<G(A, B)>>)>>}

StructuralTasks ==
  UNION {StructuralCells(FactPatterns("p", Arity(s[1]), s), s) : s \in Lists}

MCTask == Calls(MCPairs) \cup StructuralTasks

(* The ids of symbols depend on the terms; a variable's value may be one of*)
(* their constants or a compound that holds one.                           *)
Atom(id) == [tag |-> "const", fid |-> id, kids |-> <<>>]

MCGroundValue == {Atom(1), Atom(2), [tag |-> "compound", fid |-> 1, kids |-> <<Atom(2), Absent>>]}

---------------------------------------------------------------------------
(* Properties.                                                             *)

Starting == verdict = "running" /\ Len(stack) = 1 /\ stack[1] = <<Ref("A", 0), Ref("B", 0)>>

Cand == task.candidate
Exmp == task.example

(* A unifier has no cycle, so walking and applying it end: of    *)
(* every set of bound variables, one is bound to a term that mentions none *)
(* of them.  And it speaks of no variable that the terms do not, which is  *)
(* what keeps the ids of renamed clauses fresh.                            *)
SolvedForm(s) ==
  /\ \A S \in (SUBSET DOMAIN s) \ {{}} : \E i \in S : TermIds(s[i]) \cap S = {}
  /\ SubIds(s) \subseteq TermIds(Cand) \cup TermIds(Exmp)

(* A finite part of the ground terms: terms of the family that unify at all*)
(* do so under the same assignments of these as their unifier allows.      *)
Ground == {A, B, F(A), F(F(A)), G(A, A), G(A, F(A)), G(F(A), F(A)), F(G(A, A))}

Respects(v, s) == \A i \in DOMAIN s : v[i] = Apply(s[i], v)

(* The precise unifier is in solved form and means what the equation means,*)
(* no more and no less; it is null only when the equation has no solution. *)
UnifierIsMostGeneral ==
  Starting => LET s == Unify(Cand, Exmp, EmptySub) IN
    /\ s # Null => SolvedForm(s)
    /\ \A v \in [0 .. 1 -> Ground] : Apply(Cand, v) = Apply(Exmp, v) <=> s # Null /\ Respects(v, s)

FitsLayout(t) == Size(t) <= task.layout.slotsPerTerm /\ Widest(t) <= task.layout.maxArity

(* Unpacking undoes packing, whatever the memory held before: "a recycled  *)
(* pool buffer is not [zeroed] - so packing must never assume              *)
(* zero-initialized memory" (pack.js).  And packing throws exactly when one*)
(* of the terms is too large or too wide; structuralCoverage, which makes  *)
(* its own layout, never does for atoms without compounds.                 *)
RoundTrip ==
  Starting \/ verdict = "threw" =>
    IF task.ok
      THEN /\ WellPacked(task)
           /\ UnpackFrom(task.A, task.symbols, 0) = Cand
           /\ UnpackFrom(task.B, task.symbols, 0) = Exmp
           /\ FitsLayout(Cand) /\ FitsLayout(Exmp)
      ELSE /\ \E t \in {Cand, Exmp} \cup task.others : ~FitsLayout(t)
           /\ task \in StructuralTasks => \E t \in {Exmp} \cup task.others : Depth(t) > 1

(* The pairs that wait while t is taken apart, its last argument first.    *)
RECURSIVE Frontier(_)
Frontier(t) ==
  IF IsCompound(t) THEN Max({1, Len(t[3])} \cup {k - 1 + Frontier(t[3][k]) : k \in DOMAIN t[3]})
  ELSE 1

(* A variable that occurs twice compares two parts of the example.         *)
Waiting ==
  IF IsLinear(Cand) THEN Min({Frontier(Cand), Frontier(Exmp)})
  ELSE Frontier(Cand) + Frontier(Exmp) - 1

(* The packed verdict is the precise one, for every linear example (ground *)
(* ones are) and for every other that unifies.  A kernel gives the same as *)
(* long as its stack can hold the pairs, and a full stack never makes it   *)
(* claim a coverage that is none.                                          *)
VerdictIsExact ==
  verdict \in {"covered", "missed"} =>
    /\ verdict = "covered" => Covers(Cand, Exmp)
    /\ Covers(Cand, Exmp) /\ (task.backend = "cpu" \/ Waiting <= MaxStack) => verdict = "covered"

=============================================================================
