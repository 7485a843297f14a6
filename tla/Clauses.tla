------------------------------ MODULE Clauses ------------------------------
(***************************************************************************)
(* What the constraint learner knows about clauses: the canonical forms,   *)
(* theta-subsumption and the type check of src/engine/constrain.js.        *)
(*                                                                         *)
(* A clause is [head, body]: an atom and a sequence of atoms.  An atom is  *)
(* [predicate, args]; an argument is a variable <<"V", n>>, a canonical    *)
(* variable <<"W", n>> or a constant <<"c", value>>.  The enumerator makes *)
(* no compound arguments.                                                  *)
(***************************************************************************)
EXTENDS Integers, Sequences, FiniteSets, Functions

IsVar(t) == t[1] # "c"

AtomVars(a) == {a.args[k] : k \in {n \in DOMAIN a.args : IsVar(a.args[n])}}

BodyVars(c)   == UNION {AtomVars(c.body[m]) : m \in DOMAIN c.body}
BodyOnly(c)   == BodyVars(c) \ AtomVars(c.head)
ClauseVars(c) == BodyVars(c) \cup AtomVars(c.head)

(* renameAtom: what the map does not mention stays.                        *)
RenameAtom(a, map) ==
  [a EXCEPT !.args = [k \in DOMAIN @ |-> IF @[k] \in DOMAIN map THEN map[@[k]] ELSE @[k]]]

RenameBody(c, map) == [m \in DOMAIN c.body |-> RenameAtom(c.body[m], map)]

(* A sorted list, as how often each of its elements occurs.                *)
Sorted(s) == [x \in Range(s) |-> Cardinality({k \in DOMAIN s : s[k] = x})]

Rendering(c, map) == [head |-> RenameAtom(c.head, map), body |-> Sorted(RenameBody(c, map))]

CanonicalNames(c) == {<<"W", n>> : n \in 0 .. Cardinality(BodyOnly(c)) - 1}

(* Faulty variant: names variables in the order of the enumerated ones,    *)
(* which avoids the k! renderings.                                         *)
CanonicalByIndex(c) ==
  LET rank(v) == Cardinality({w \in BodyOnly(c) : w[2] < v[2]})
  IN Rendering(c, [v \in BodyOnly(c) |-> <<"W", rank(v)>>])

(* Faulty variant: one name for all of them.                               *)
CanonicalMerged(c) == Rendering(c, [v \in BodyOnly(c) |-> <<"W", 0>>])

(* The code takes the least of the renderings as strings; any rule that    *)
(* depends on their set alone tells the same clauses apart.                *)
CanonicalClause(c) ==
  CHOOSE r \in {Rendering(c, map) : map \in Bijection(BodyOnly(c), CanonicalNames(c))} : TRUE

---------------------------------------------------------------------------

(* Faulty variant: any variable of c may be mapped, head variables too.    *)
SubsumesUnaligned(c, d) ==
  /\ c.head.predicate = d.head.predicate
  /\ Len(c.head.args) = Len(d.head.args)
  /\ \E map \in [ClauseVars(c) -> ClauseVars(d)] : Range(RenameBody(c, map)) \subseteq Range(d.body)

(* c is more general: some substitution makes its head d's head and its    *)
(* body a part of d's body.  Head variables go to d's head arguments, the  *)
(* others are searched over d's variables only.                            *)
Subsumes(c, d) ==
  /\ c.head.predicate = d.head.predicate
  /\ Len(c.head.args) = Len(d.head.args)
  /\ \E map \in [ClauseVars(c) -> ClauseVars(d) \cup Range(d.head.args)] :
       /\ RenameAtom(c.head, map) = d.head
       /\ \A v \in BodyOnly(c) : map[v] \in ClauseVars(d)
       /\ Range(RenameBody(c, map)) \subseteq Range(d.body)

---------------------------------------------------------------------------

(* types: the declared argument types of a predicate, of a part of them or *)
(* of none.                                                                *)
Atoms(c) == {c.head} \cup Range(c.body)

VarTypes(c, types, v) ==
  UNION {{types[a.predicate][k] :
            k \in {n \in DOMAIN a.args \cap DOMAIN types[a.predicate] : a.args[n] = v}} :
         a \in {b \in Atoms(c) : b.predicate \in DOMAIN types}}

IsTypeUnsatisfiable(c, types) ==
  \E v \in ClauseVars(c) : Cardinality(VarTypes(c, types, v)) > 1

=============================================================================
