----------------------------- MODULE MCSearch -----------------------------
(***************************************************************************)
(* Search on every problem of a small family.  A clause is a set of body   *)
(* literals; a literal holds of a set of examples, a clause covers what    *)
(* all of its literals hold of and a program what any of its clauses       *)
(* covers.  The body {a, b} comes in two renamings with one canonical key, *)
(* as src/engine/enumerate.js yields renamed variants of one clause.       *)
(***************************************************************************)
EXTENDS Search

(* The target gates tried: the sets of keys a target cannot lower.         *)
MCGates == {{}, {{"a"}}, {{"a"}, {"b"}, {"a", "b"}}}

CONSTANT Negatives

Positives == {1, 2}
Examples  == Positives \cup Negatives

(* Clauses, in the order the enumerator yields them, with their keys.      *)
ClauseKey == [h |-> {}, a |-> {"a"}, b |-> {"b"}, ab |-> {"a", "b"}, ba |-> {"a", "b"}]

Singles == <<<<"h">>, <<"a">>, <<"b">>, <<"ab">>, <<"ba">>>>
Pairs   == <<<<"h", "a">>, <<"a", "b">>, <<"a", "ab">>, <<"b", "ba">>>>
Space   == Singles \o Pairs

Covers(ext, c) == {e \in Examples : \A l \in ClauseKey[c] : e \in ext[l]}

CoversProgram(ext, prog) == UNION {Covers(ext, prog[m]) : m \in DOMAIN prog}

Lowers(gate, prog) == \A m \in DOMAIN prog : ClauseKey[prog[m]] \notin gate

MkProblem(space, ext, target, noise, gate, max, time, constrained, throws) ==
  [clauses |-> space,
   covered |-> [i \in DOMAIN space |-> CoversProgram(ext, space[i])],
   lowers  |-> [i \in DOMAIN space |-> Lowers(gate, space[i])],
   key |-> ClauseKey,
   subsumes |-> {cd \in (DOMAIN ClauseKey) \X (DOMAIN ClauseKey) :
                   ClauseKey[cd[1]] \subseteq ClauseKey[cd[2]]},
   illTyped |-> {}, moded |-> FALSE, throws |-> throws,
   pos |-> Positives, neg |-> Negatives, targetPct |-> target, noise |-> noise,
   maxCandidates |-> max, maxTime |-> time, constrained |-> constrained]

Extensions == [{"a", "b"} -> SUBSET Examples]

Unbounded == 99

(* Every extension, with and without a target gate and the learner.        *)
Ordinary ==
  {MkProblem(Space, ext, goal[1], goal[2], gate, max, Unbounded, constrained, {}) :
     ext \in Extensions, goal \in {<<100, 0>>, <<100, 1>>, <<50, 0>>}, gate \in MCGates,
     max \in {3, Unbounded}, constrained \in BOOLEAN}

(* An evaluation that throws, and a time budget.                           *)
Failing ==
  {MkProblem(Space, ext, 100, 0, {}, Unbounded, time, TRUE, throws) :
     ext \in Extensions, time \in {1, Unbounded}, throws \in {{}, {3}, {6}}}

(* Moded background: a body that binds an input can cover more, so the     *)
(* two-literal clause is free of its literals' coverage.                   *)
WithBody(p, cov) ==
  [p EXCEPT !.moded = TRUE, !.covered =
     [i \in DOMAIN p.covered |->
        IF \E m \in DOMAIN p.clauses[i] : p.clauses[i][m] \in {"ab", "ba"}
          THEN p.covered[i] \cup cov ELSE p.covered[i]]]

Moded == {WithBody(MkProblem(Space, ext, target, 0, {}, Unbounded, Unbounded, TRUE, {}), cov) :
            ext \in Extensions, target \in {50, 100}, cov \in SUBSET Examples}

(* A type clash: literal b holds of nothing and its clauses are ill-typed. *)
Mistyped ==
  {[MkProblem(Space, ext, 100, 0, {}, Unbounded, Unbounded, TRUE, {})
      EXCEPT !.illTyped = {"b", "ab", "ba"}] :
     ext \in {x \in Extensions : x["b"] = {}}}

MCProblem == Ordinary \cup Failing \cup Moded \cup Mistyped

---------------------------------------------------------------------------
(* A target below 100%: half of the positives are enough.                  *)
MCPartial == {MkProblem(Space, ext, 50, 0, {}, Unbounded, Unbounded, TRUE, {}) :
                ext \in Extensions}

(* "Constraints are sound: a pruned candidate provably can't be a solution *)
(* that an already-considered or simpler candidate isn't" (constrain.js):  *)
(* a search that exhausts the space leaves no solution behind in it.       *)
PruningKeepsSolutions ==
  pc = "exhausted" => \A i \in Index(problem) : ~Solution(problem, i)

=============================================================================
