----------------------------- MODULE Normalize -----------------------------
(***************************************************************************)
(* Authored clauses name their variables; the executor numbers them:       *)
(* src/core/normalize.js.  The ids of a clause count its variables in the  *)
(* order in which they first appear, and each clause is a scope.           *)
(*                                                                         *)
(* An authored variable is <<"var", name>>.                                *)
(***************************************************************************)
EXTENDS Terms, FiniteSets

(* The names in a term, an atom and a clause, in the order of reading.     *)
RECURSIVE Names(_)
Names(t) ==
  IF IsVar(t) THEN <<t[2]>>
  ELSE IF IsCompound(t) THEN FlattenSeq([k \in DOMAIN t[3] |-> Names(t[3][k])]) ELSE <<>>

AtomNames(a) == FlattenSeq([k \in DOMAIN a.args |-> Names(a.args[k])])

ClauseNames(c) ==
  AtomNames(c.head) \o FlattenSeq([m \in DOMAIN c.body |-> AtomNames(c.body[m])])

(* A name's id: how many other names came before it.                       *)
IdOf(names, n) ==
  Cardinality({names[k] : k \in 1 .. SelectInSeq(names, LAMBDA x : x = n) - 1})

RECURSIVE AssignTerm(_, _)
AssignTerm(t, names) ==
  IF IsVar(t) THEN Var(IdOf(names, t[2]))
  ELSE IF IsCompound(t)
    THEN Compound(t[2], [k \in DOMAIN t[3] |-> AssignTerm(t[3][k], names)])
    ELSE t

AssignAtom(a, names) == [a EXCEPT !.args = [k \in DOMAIN @ |-> AssignTerm(@[k], names)]]

NormalizeClause(c) ==
  LET names == ClauseNames(c) IN
    [head |-> AssignAtom(c.head, names),
     body |-> [m \in DOMAIN c.body |-> AssignAtom(c.body[m], names)],
     width |-> Cardinality(Range(names))]

Normalize(clauses) == [k \in DOMAIN clauses |-> NormalizeClause(clauses[k])]

=============================================================================
