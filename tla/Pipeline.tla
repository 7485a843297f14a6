------------------------------ MODULE Pipeline ------------------------------
(***************************************************************************)
(* The search over the candidates the enumerator really yields, with the   *)
(* learner's real canonical forms, subsumption and types, and the coverage *)
(* that the programs have over a background.                               *)
(*                                                                         *)
(* The clauses of a problem are numbered as the enumerator yields them.  A *)
(* background, or a model, is a set of facts <<predicate, arguments>>.     *)
(***************************************************************************)
EXTENDS Search, ProgramSpace

CONSTANTS
  Biases,   \* the biases a problem may have
  D         \* the constants of the background

---------------------------------------------------------------------------
(* Coverage.  A body is solved from left to right; a moded predicate of the*)
(* background fails when an input is not bound.                            *)

Val(t, g) == IF IsVar(t) THEN g[t] ELSE t[2]

Grounded(a, g) == <<a.predicate, [k \in DOMAIN a.args |-> Val(a.args[k], g)]>>

External(bias, a) == \E m \in DOMAIN bias.bodies : bias.bodies[m].name = a.predicate

(* The head is bound when its clause is entered: examples are ground.      *)
Runs(bias, c) ==
  \A m \in DOMAIN c.body : External(bias, c.body[m]) =>
    Inputs(bias, c.body[m]) \subseteq
      AtomVars(c.head) \cup UNION {AtomVars(c.body[n]) : n \in 1 .. m - 1}

Solutions(facts, c) ==
  {g \in [ClauseVars(c) -> D] : \A m \in DOMAIN c.body : Grounded(c.body[m], g) \in facts}

Consequences(bias, facts, prog) ==
  UNION {{Grounded(c.head, g) : g \in Solutions(facts, c)} : c \in {d \in prog : Runs(bias, d)}}

(* The least model is reached in as many rounds as there are ground heads  *)
(* when the program recurses.                                              *)
GroundHeads(bias) ==
  UNION {{p.name} \X [1 .. p.arity -> D] : p \in Range(bias.heads)}

Rounds(bias) == IF bias.recursion THEN Cardinality(GroundHeads(bias)) ELSE 1

Rise(bias, facts, prog) ==
  LET model[k \in 0 .. Rounds(bias)] ==
        IF k = 0 THEN facts ELSE facts \cup Consequences(bias, model[k - 1], prog)
  IN model

Model(bias, facts, prog) == Rise(bias, facts, prog)[Rounds(bias)]

(* The examples are those of the first head predicate.                     *)
CoveredBy(bias, facts, prog) ==
  {f[2] : f \in {g \in Model(bias, facts, prog) : g[1] = bias.heads[1].name}}

---------------------------------------------------------------------------
(* What the learner finds out about the clauses of a bias.                 *)

ClausesOf  == [b \in Biases |-> EnumerateClauses(b)]
Candidates == [b \in Biases |-> Programs(b)]

(* The memo: the form of a clause is known by the first one that has it.   *)
Keys(clauses) ==
  LET forms == [n \in DOMAIN clauses |-> CanonicalClause(clauses[n])]
  IN [n \in DOMAIN clauses |-> CHOOSE m \in DOMAIN clauses : forms[m] = forms[n]]

Subsuming(clauses) ==
  {e \in (DOMAIN clauses) \X (DOMAIN clauses) : Subsumes(clauses[e[1]], clauses[e[2]])}

IllTyped(clauses, types) ==
  {n \in DOMAIN clauses : IsTypeUnsatisfiable(clauses[n], types)}

IsModed(b) ==
  \E m \in DOMAIN b.bodies : LET p == b.bodies[m].name IN
    p \in DOMAIN b.modes /\ \E k \in DOMAIN b.modes[p] : b.modes[p][k] = "in"

Rules(p, clauses, i) == {clauses[n] : n \in Range(p.clauses[i])}

(* A bias declares each predicate and each constant once.                  *)
ASSUME BiasAssumption ==
  \A b \in Biases :
    /\ b.heads \in Seq(Range(b.heads)) /\ b.bodies \in Seq(Range(b.bodies))
    /\ b.constants \in Seq(Range(b.constants))
    /\ \A p \in Range(b.heads) \cup Range(b.bodies) : p.arity \in Nat
    /\ b.maxBody \in Nat /\ b.maxVars \in Nat /\ b.maxClauses \in Nat /\ Rounds(b) \in Nat
    /\ \A m, n \in DOMAIN b.heads : b.heads[m].name = b.heads[n].name => m = n
    /\ LET ps == BodyPredicates(b) IN
         \A m, n \in DOMAIN ps : ps[m].name = ps[n].name => m = n
    /\ \A m, n \in DOMAIN b.constants : b.constants[m].value = b.constants[n].value => m = n
    /\ \A p \in DOMAIN b.types : \A k \in DOMAIN b.types[p] : b.types[p][k] # Untyped

(* The candidates of a problem are what its bias yields.                   *)
IsYielded(p, clauses, candidates) ==
  /\ Len(p.clauses) = Len(candidates)
  /\ \A i \in Index(p) :
       /\ Len(p.clauses[i]) = Len(candidates[i])
       /\ \A m \in DOMAIN p.clauses[i] : clauses[p.clauses[i][m]] = candidates[i][m]

(* What a problem says of its clauses is what they are, and a program      *)
(* covers what follows from it and from the background p.facts.            *)
ASSUME ClausesAssumption ==
  LET problems == Problem IN
  /\ \A p \in problems : p.bias \in Biases /\ \A i \in Index(p) : p.clauses[i] # <<>>
  /\ \A b \in Biases :
       LET clauses    == ClausesOf[b]
           candidates == Candidates[b]
           keys       == Keys(clauses)
           subsuming  == Subsuming(clauses)
       IN \A p \in {q \in problems : q.bias = b} :
            /\ IsYielded(p, clauses, candidates)
            /\ p.key = keys
            /\ p.subsumes = subsuming
            /\ p.illTyped = IllTyped(clauses, b.types)
            /\ p.moded = IsModed(b)
            /\ \A i \in Index(p) : p.covered[i] = CoveredBy(b, p.facts, Rules(p, clauses, i))

---------------------------------------------------------------------------
(* The searches the theorems are about: those that learn are asked for     *)
(* every positive, no predicate of the background declares an input, and   *)
(* the target gate, which knows no names of body variables, judges programs*)
(* of the same keys alike.                                                 *)
PlainQuestions ==
  \A p \in Problem : p.constrained =>
    /\ ~p.moded /\ p.targetPct >= 100
    /\ \A i, j \in Index(p) : p.lowers[i] # p.lowers[j] => ProgramKey(p, i) # ProgramKey(p, j)

---------------------------------------------------------------------------
(* Properties.                                                             *)

(* Whatever the enumerator yields is a clause of its bias.                 *)
EnumeratorIsSound ==
  \A b \in Biases : \A n \in DOMAIN ClausesOf[b] :
    IsClause(b, ClausesOf[b][n]) /\ ~IsTypeUnsatisfiable(ClausesOf[b][n], b.types)

(* The enumeration is judged by the searches without a learner, which      *)
(* evaluate all they pull.                                                 *)
Judged  == ~problem.constrained
Pulled  == next - 1
Bias    == problem.bias
Yielded == Candidates[Bias]

Singles == {Yielded[i][1] : i \in {n \in 1 .. Pulled : Len(Yielded[n]) = 1}}

(* "Completeness holds up to renaming": a search that reports the space    *)
(* exhausted evaluated a variant of every clause of it, and any two of the *)
(* clauses it pulled as a candidate when a program may have two.           *)
SpaceIsCovered ==
  Judged /\ pc = "exhausted" =>
    /\ Bias.maxClauses > 0 => LET found == {AsSet(d) : d \in Singles}
       IN \A c \in Space(Bias) : Variants(Bias, c) \cap found # {}
    /\ Bias.maxClauses > 1 => \A c, d \in Singles : c # d =>
         \E i \in 1 .. Pulled : Range(Yielded[i]) = {c, d}

(* Nothing outside the space is ever proposed.                             *)
CandidateIsInSpace ==
  Judged /\ Pulled > 0 => \A c \in Range(Yielded[Pulled]) :
    InSpace(Bias, c) /\ Len(c.body) <= Bias.maxBody /\ Cardinality(ClauseVars(c)) <= Bias.maxVars

(* No candidate is evaluated twice, neither with its body nor with its     *)
(* clauses in another order.                                               *)
EachCandidateIsNew ==
  Judged => \A i \in 1 .. Pulled - 1 : Unordered(Yielded[i]) # Unordered(Yielded[Pulled])

(* The stream is the space of the bias: all of it, nothing else, and no    *)
(* candidate twice.                                                        *)
StreamIsTheSpace == SpaceIsCovered /\ CandidateIsInSpace /\ EachCandidateIsNew

(* A simple explanation is never delayed: with one head predicate, single  *)
(* clauses come in order of complexity, and programs of more after them.   *)
SimplestFirst ==
  Judged /\ Pulled > 1 /\ Len(Bias.heads) = 1 =>
    LET x == Yielded[Pulled - 1]
        y == Yielded[Pulled]
    IN Len(y) = 1 => ~Below(Complexity(y), Complexity(x)) /\ Len(x) = 1

(* The redundant check of the learner: two clauses have one key exactly    *)
(* when they differ in the names of body variables and the order of the    *)
(* body.                                                                   *)
KeysTellVariants ==
  Judged /\ Pulled > 0 => \A i \in 1 .. Pulled - 1 :
    LET n == problem.clauses[i][1]
        m == problem.clauses[Pulled][1]
    IN problem.key[n] = problem.key[m] <=>
         AsSet(ClausesOf[Bias][m]) \in Variants(Bias, ClausesOf[Bias][n])

(* What the proofs that pruning loses nothing assume of keys, subsumption  *)
(* and types holds of the real ones, over every background.                *)
PruningIsSound ==
  pc = "created" /\ problem.constrained => SoundPruning(problem) /\ WellTypedFirst(problem)

=============================================================================
