----------------------------- MODULE Enumerate -----------------------------
(***************************************************************************)
(* The candidate enumerator of src/engine/enumerate.js.  Its generators    *)
(* share no state with their consumer, so they are the sequences they      *)
(* yield.                                                                  *)
(*                                                                         *)
(* A bias is a record: heads and bodies, sequences of declarations         *)
(* [name, arity]; modes and types, the maps of biasModes and biasTypes from*)
(* declared predicates to sequences; constants, a sequence of              *)
(* [value, type] with type Untyped for none; recursion; and the bounds     *)
(* maxBody, maxVars and maxClauses.                                        *)
(***************************************************************************)
EXTENDS Clauses, SequencesExt

CONSTANT Untyped

V(n) == <<"V", n>>

VarPool(n) == [k \in 1 .. n |-> V(k - 1)]

(* The elements of s at the positions K, in order: a row of 16 at a time,  *)
(* which keeps TLC's recursion shallow.                                    *)
Only(s, K) ==
  LET row(m) == [i \in 1 .. 16 |-> IF 16 * m + i \in K THEN <<s[16 * m + i]>> ELSE <<>>]
  IN FlattenSeq([m \in 1 .. Len(s) \div 16 + 1 |-> FlattenSeq(row(m - 1))])

(* What a loop yields that skips the elements failing a test.              *)
Sift(s, Test(_)) == Only(s, {j \in DOMAIN s : Test(s[j])})

(* Every choice of one element per pool, the first position fastest: each  *)
(* choice from the other pools, after each element of the first.           *)
Times(pool, tails) ==
  FlattenSeq([j \in DOMAIN tails |-> [i \in DOMAIN pool |-> <<pool[i]>> \o tails[j]]])

ProductPerPos(pools) ==
  LET product[k \in 0 .. Len(pools)] ==
        IF k = 0 THEN <<<<>>>> ELSE Times(pools[Len(pools) + 1 - k], product[k - 1])
  IN product[Len(pools)]

TypeAt(bias, p, k) ==
  IF p \in DOMAIN bias.types /\ k \in DOMAIN bias.types[p] THEN bias.types[p][k] ELSE Untyped

Fitting(bias, p, k, constants) ==
  LET fits(c) == \/ TypeAt(bias, p, k) = Untyped
                 \/ c.type \in {Untyped, TypeAt(bias, p, k)}
      kept == Sift(constants, fits)
  IN [j \in DOMAIN kept |-> <<"c", kept[j].value>>]

AtomsOver(bias, predicates, n, constants) ==
  FlattenSeq([m \in DOMAIN predicates |->
    LET p == predicates[m]
        tuples == ProductPerPos([k \in 1 .. p.arity |->
                                   VarPool(n) \o Fitting(bias, p.name, k, constants)])
    IN [j \in DOMAIN tuples |-> [predicate |-> p.name, args |-> tuples[j]]]])

(* The k-element combinations of a sequence, in lexicographic order of     *)
(* their positions.                                                        *)
Longer(n, acc) ==
  FlattenSeq([j \in DOMAIN acc |->
    LET first == (IF acc[j] = <<>> THEN 0 ELSE Last(acc[j])) + 1
    IN [i \in 1 .. n + 1 - first |-> Append(acc[j], first + i - 1)]])

Positions(n, k) ==
  LET positions[i \in 0 .. k] == IF i = 0 THEN <<<<>>>> ELSE Longer(n, positions[i - 1])
  IN positions[k]

Combinations(s, k) ==
  LET ps == Positions(Len(s), k)
  IN [j \in DOMAIN ps |-> [i \in 1 .. k |-> s[ps[j][i]]]]

---------------------------------------------------------------------------
(* The language biases.                                                    *)

UsesExactly(c, n) == ClauseVars(c) = Range(VarPool(n))

(* Faulty variant: one round of absorption.                                *)
ConnectedDirectly(c) == \A a \in Range(c.body) : AtomVars(a) \cap AtomVars(c.head) # {}

(* What the head's variables reach after k rounds; a round more per atom   *)
(* is the fixpoint.                                                        *)
Connected(c) ==
  LET reach[k \in 0 .. Len(c.body)] ==
        IF k = 0 THEN AtomVars(c.head)
        ELSE reach[k - 1] \cup
             UNION {AtomVars(a) : a \in {b \in Range(c.body) : AtomVars(b) \cap reach[k - 1] # {}}}
  IN \A a \in Range(c.body) : AtomVars(a) \cap reach[Len(c.body)] # {}

Inputs(bias, a) ==
  IF a.predicate \notin DOMAIN bias.modes THEN {}
  ELSE {a.args[k] : k \in {n \in DOMAIN a.args \cap DOMAIN bias.modes[a.predicate] :
                             bias.modes[a.predicate][n] = "in" /\ IsVar(a.args[n])}}

(* Head inputs, or all of the head's variables when it declares no mode.   *)
Seed(bias, c) ==
  IF c.head.predicate \in DOMAIN bias.modes THEN Inputs(bias, c.head) ELSE AtomVars(c.head)

(* Some order of the body binds every input before it is read.             *)
WellModedFeasible(bias, c) ==
  LET bound[k \in 0 .. Len(c.body)] ==
        IF k = 0 THEN Seed(bias, c)
        ELSE bound[k - 1] \cup
             UNION {AtomVars(a) : a \in {b \in Range(c.body) : Inputs(bias, b) \subseteq bound[k - 1]}}
  IN \A a \in Range(c.body) : Inputs(bias, a) \subseteq bound[Len(c.body)]

TypeConsistent(bias, c) ==
  \A a, b \in Atoms(c) : \A k \in DOMAIN a.args, j \in DOMAIN b.args :
    IsVar(a.args[k]) /\ a.args[k] = b.args[j] =>
      \/ Untyped \in {TypeAt(bias, a.predicate, k), TypeAt(bias, b.predicate, j)}
      \/ TypeAt(bias, a.predicate, k) = TypeAt(bias, b.predicate, j)

Keep(bias, c, n) ==
  UsesExactly(c, n) /\ Connected(c) /\ WellModedFeasible(bias, c) /\ TypeConsistent(bias, c)

---------------------------------------------------------------------------

HasConst(c) == \E a \in Range(c.body) : \E k \in DOMAIN a.args : ~IsVar(a.args[k])

BodyPredicates(bias) == bias.bodies \o (IF bias.recursion THEN bias.heads ELSE <<>>)

HeadAtom(p) == [predicate |-> p.name, args |-> VarPool(p.arity)]

(* One turn of the inner loops: the clauses of a head and a size, those    *)
(* without constants first.                                                *)
OfSize(bias, p, n, length) ==
  LET clauses(constants) ==
        LET bodies == Combinations(AtomsOver(bias, BodyPredicates(bias), n, constants), length)
        IN [j \in DOMAIN bodies |-> [head |-> HeadAtom(p), body |-> bodies[j]]]
      kept(s) == Sift(s, LAMBDA c : Keep(bias, c, n))
  IN kept(clauses(<<>>)) \o
     (IF bias.constants = <<>> THEN <<>>
      ELSE Sift(kept(clauses(bias.constants)), HasConst))

(* Faulty variant: the body's length is the innermost loop.                *)
LongBodiesFirst(bias) ==
  FlattenSeq([h \in DOMAIN bias.heads |->
    LET p == bias.heads[h] IN
      FlattenSeq([n \in 1 .. bias.maxVars + 1 - p.arity |->
        FlattenSeq([length \in 1 .. bias.maxBody + 1 |->
                      OfSize(bias, p, p.arity + n - 1, length - 1)])])])

EnumerateClauses(bias) ==
  FlattenSeq([length \in 1 .. bias.maxBody + 1 |->
    FlattenSeq([h \in DOMAIN bias.heads |->
      LET p == bias.heads[h] IN
        FlattenSeq([n \in 1 .. bias.maxVars + 1 - p.arity |->
                      OfSize(bias, p, p.arity + n - 1, length - 1)])])])

(* The programs, as sequences of clauses: single clauses, then combinations*)
(* of them.                                                                *)
Programs(bias) ==
  LET clauses == EnumerateClauses(bias)
  IN FlattenSeq([count \in 1 .. bias.maxClauses |-> Combinations(clauses, count)])

=============================================================================
