---------------------------- MODULE Constraints ----------------------------
(***************************************************************************)
(* The constraint learner of src/engine/constrain.js: the store that       *)
(* makeConstraints() closes over, its prune() and its learn().             *)
(*                                                                         *)
(* A problem is a record p.  Its candidates are numbered in the order the  *)
(* enumerator yields them; candidate i has                                 *)
(*   p.clauses[i]   its clauses, a sequence                                *)
(*   p.covered[i]   the examples (positive and negative) it covers         *)
(*   p.lowers[i]    does the target gate accept it                         *)
(* and the clause-level facts are                                          *)
(*   p.key[c]       the canonical form of clause c                         *)
(*   p.subsumes     the pairs <<c, d>> where c theta-subsumes d            *)
(*   p.illTyped     the clauses with a variable of two types               *)
(*   p.moded        does a body predicate declare an input position        *)
(***************************************************************************)
EXTENDS Integers, Sequences, FiniteSets

Index(p) == DOMAIN p.clauses

CovP(p, i) == Cardinality(p.covered[i] \cap p.pos)
CovN(p, i) == Cardinality(p.covered[i] \cap p.neg)

KeySet(p, i) == {p.key[p.clauses[i][m]] : m \in DOMAIN p.clauses[i]}

(* The joined, sorted clause keys: how often each key occurs.              *)
ProgramKey(p, i) ==
  [k \in KeySet(p, i) |->
     Cardinality({m \in DOMAIN p.clauses[i] : p.key[p.clauses[i][m]] = k})]

HasIllTyped(p, i) == \E m \in DOMAIN p.clauses[i] : p.clauses[i][m] \in p.illTyped

IsSingle(p, i) == Len(p.clauses[i]) = 1

---------------------------------------------------------------------------

EmptyStore == [seen |-> {}, tooGeneral |-> {}, tooSpecific |-> {}]

Redundant(p, st, i) == ProgramKey(p, i) \in st.seen

TooGeneral(p, st, i) == \E g \in st.tooGeneral : g \subseteq KeySet(p, i)

TooSpecific(p, st, i) ==
  /\ IsSingle(p, i)
  /\ \E c \in st.tooSpecific : <<c, p.clauses[i][1]>> \in p.subsumes

Prune(p, st, i) ==
  \/ HasIllTyped(p, i)
  \/ Redundant(p, st, i)
  \/ TooGeneral(p, st, i)
  \/ TooSpecific(p, st, i)

(* Faulty variant: learns from a moded background too.                     *)
LearnsTooSpecificModed(p, i) ==
  /\ CovP(p, i) < Cardinality(p.pos)
  /\ IsSingle(p, i)

(* A single clause that misses a positive condemns its specializations,    *)
(* whatever target_coverage asks for.                                      *)
LearnsTooSpecific(p, i) ==
  /\ ~p.moded
  /\ CovP(p, i) < Cardinality(p.pos)
  /\ IsSingle(p, i)

Learn(p, st, i) ==
  [seen        |-> st.seen \cup {ProgramKey(p, i)},
   tooGeneral  |-> st.tooGeneral \cup
                     (IF CovN(p, i) > p.noise THEN {KeySet(p, i)} ELSE {}),
   tooSpecific |-> st.tooSpecific \cup
                     (IF LearnsTooSpecific(p, i) THEN {p.clauses[i][1]} ELSE {})]

=============================================================================
