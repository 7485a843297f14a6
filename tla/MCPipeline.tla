---------------------------- MODULE MCPipeline ----------------------------
(***************************************************************************)
(* The search over the candidates the enumerator really yields, with the   *)
(* learner's real canonical forms, subsumption and types, and the coverage *)
(* the programs have over small backgrounds.                               *)
(***************************************************************************)
EXTENDS Pipeline

---------------------------------------------------------------------------
(* Biases.                                                                 *)

Decl(name, arity) == [name |-> name, arity |-> arity]

NoMap == [x \in {} |-> <<>>]

P == Decl("p", 1)
Q == Decl("q", 2)

Relational(heads, bodies, constants, recursion, maxBody, maxVars, maxClauses) ==
  [heads |-> heads, bodies |-> bodies, modes |-> NoMap, types |-> NoMap,
   constants |-> constants, recursion |-> recursion,
   maxBody |-> maxBody, maxVars |-> maxVars, maxClauses |-> maxClauses]

One  == <<Decl("f", 1)>>
Pair == <<Decl("f", 2)>>
Two  == <<Decl("f", 2), Decl("g", 1)>>

Typed   == <<[value |-> 1, type |-> "t"], [value |-> 2, type |-> "u"]>>
Unsorted == <<[value |-> 1, type |-> Untyped]>>

Modes(head) == {NoMap, [q |-> <<"in", "out">>], [f |-> head, q |-> <<"in", "out">>],
                [f |-> head, q |-> <<"out", "in">>, p |-> <<"in">>]}

Types == {NoMap, [p |-> <<"t">>, q |-> <<"t", "u">>], [q |-> <<"t", "t">>, p |-> <<"u">>],
          [f |-> <<"u", "t">>, q |-> <<"t">>]}

WithModes(bs, head) == {[b EXCEPT !.modes = m] : b \in bs, m \in Modes(head)}
WithTypes(bs) == {[b EXCEPT !.types = t] : b \in bs, t \in Types}

PQ == <<P, Q>>

TypedBiases ==
  WithTypes({Relational(h, PQ, cs, FALSE, 2, 2, 1) : h \in {One, Pair}, cs \in {<<>>, Typed, Unsorted}})

ModedBiases ==
  WithModes({Relational(One, PQ, cs, r, 2, 3, 1) : cs \in {<<>>, Unsorted}, r \in BOOLEAN}, <<"in">>)
  \cup WithModes({Relational(Pair, PQ, <<>>, FALSE, 2, 3, 1)}, <<"in", "out">>)
  \cup {[Relational(Pair, PQ, <<>>, FALSE, 3, 3, 1) EXCEPT !.modes = m] :
          m \in Modes(<<"in", "out">>) \ {NoMap, [q |-> <<"in", "out">>]}}

SeveralClauses == {Relational(h, PQ, <<>>, r, 1, 2, 2) : h \in {One, Pair, Two}, r \in BOOLEAN}

---------------------------------------------------------------------------

(* The sequence itself, with its elements computed once.                   *)
Table(s) == SubSeq(s, 1, Len(s))

(* What the background does not change.                                    *)
Known(bias, progs, clauses) ==
  LET id(c) == CHOOSE n \in DOMAIN clauses : clauses[n] = c
  IN
  [bias |-> bias,
   clauses |-> Table([i \in DOMAIN progs |-> Table([m \in DOMAIN progs[i] |-> id(progs[i][m])])]),
   covered |-> [i \in DOMAIN progs |-> {}],
   lowers  |-> [i \in DOMAIN progs |-> TRUE],
   key |-> Keys(clauses), subsumes |-> Subsuming(clauses), illTyped |-> IllTyped(clauses, bias.types),
   moded |-> IsModed(bias),
   facts |-> {}, throws |-> {}, pos |-> {}, neg |-> {}, targetPct |-> 100, noise |-> 0,
   maxCandidates |-> 999, maxTime |-> 1, constrained |-> TRUE]

(* A question is what the program should cover, what it should not, over   *)
(* which background, and whether the search learns.                        *)
Ask(pos, neg, facts, learner) == [pos |-> pos, neg |-> neg, facts |-> facts, learner |-> learner]

Problems(bias, questions) ==
  LET progs == Programs(bias)
      known == Known(bias, progs, EnumerateClauses(bias))
      covered(facts) == Table([i \in DOMAIN progs |-> CoveredBy(bias, facts, Range(progs[i]))])
  IN {[known EXCEPT !.pos = q.pos, !.neg = q.neg, !.constrained = q.learner,
                    !.facts = q.facts, !.covered = covered(q.facts)] : q \in questions}

Binary(S) == SUBSET (S \X S)

Backgrounds(ps, qs) == {({"p"} \X x) \cup ({"q"} \X y) : x \in ps, y \in qs}

Small(bodies, recursion, maxVars, maxClauses) ==
  Relational(One, bodies, <<>>, recursion, 2, maxVars, maxClauses)

T(x) == <<x>>

OneOfQ  == Small(<<Q>>, FALSE, 3, 1)
OneOfPQ == Small(PQ, FALSE, 2, 1)
TwoOfQ  == Small(<<Q>>, TRUE, 2, 2)

Several  == TypedBiases \cup ModedBiases \cup SeveralClauses
MCBiases == Several \cup {OneOfQ, OneOfPQ, TwoOfQ}

(* A background that tells the programs apart.                             *)
Facts == {<<"p", T(1)>>, <<"q", <<1, 2>>>>, <<"q", <<2, 3>>>>}

Example(bias) == [k \in 1 .. bias.heads[1].arity |-> k]
Another(bias) == [k \in 1 .. bias.heads[1].arity |-> 4 - k]

(* Every bias without the learner, asked for what cannot be, so that the  *)
(* whole space is tried; every bias without input modes with it; and over  *)
(* every background of two or three constants, one clause of two literals, *)
(* and two clauses with recursion.                                         *)
Questions(bias) ==
  {Ask({Example(bias)}, {Example(bias)}, {}, FALSE)}
  \cup {Ask({Example(b)}, {Another(b)}, Facts, TRUE) : b \in {x \in {bias} : ~IsModed(x)}}
  \cup {Ask({T(1)}, {T(2)}, f, TRUE) :
           f \in CASE bias = OneOfQ  -> Backgrounds({{}}, Binary(D))
                  [] bias = OneOfPQ -> Backgrounds({{T(1)}, {T(2)}}, Binary({1, 2}))
                  [] OTHER          -> {}}
  \cup {Ask({T(1)} \cup more, {T(2)} \ more, f, TRUE) :
           more \in {{}, {T(2)}},
           f \in IF bias = TwoOfQ THEN Backgrounds({{}}, Binary({1, 2})) ELSE {}}

MCProblem == {p : p \in UNION {Problems(b, Questions(b)) : b \in MCBiases}}

(* The run over this family is one the theorems about Pipeline speak of.   *)
ASSUME FamilyAssumption ==
  Biases = MCBiases => PlainQuestions

=============================================================================
