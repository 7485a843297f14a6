--------------------------- MODULE ProgramSpace ---------------------------
(***************************************************************************)
(* What the hypothesis space of a bias is, told without any enumeration:   *)
(* the reference the candidates of Enumerate are judged against.           *)
(***************************************************************************)
EXTENDS Enumerate

BodyAtoms(b) ==
  LET terms == {V(n) : n \in 0 .. b.maxVars - 1} \cup {<<"c", c.value>> : c \in Range(b.constants)}
  IN UNION {{[predicate |-> p.name, args |-> args] : args \in [1 .. p.arity -> terms]} :
            p \in Range(b.bodies) \cup (IF b.recursion THEN Range(b.heads) ELSE {})}

(* No part of the body is cut off from the head and from the rest.         *)
NoIsland(c) ==
  \A S \in SUBSET Range(c.body) : S # {} =>
    (UNION {AtomVars(a) : a \in S}) \cap
      (AtomVars(c.head) \cup UNION {AtomVars(a) : a \in Range(c.body) \ S}) # {}

Reads(b, a) ==
  {a.args[k] : k \in {n \in DOMAIN a.args :
     /\ a.predicate \in DOMAIN b.modes /\ n \in DOMAIN b.modes[a.predicate]
     /\ b.modes[a.predicate][n] = "in" /\ IsVar(a.args[n])}}

Given(b, c) == IF c.head.predicate \in DOMAIN b.modes THEN Reads(b, c.head) ELSE AtomVars(c.head)

(* Every input of the body, in the given order, is bound when it is read.  *)
InOrder(b, c, body) ==
  \A m \in DOMAIN body :
    Reads(b, body[m]) \subseteq Given(b, c) \cup UNION {AtomVars(body[n]) : n \in 1 .. m - 1}

SomeOrder(b, c) == \E order \in SetToSeqs(Range(c.body)) : InOrder(b, c, order)

(* A constant's type is known when every constant of its value declares it.*)
FitsType(b, t, type) ==
  \/ IsVar(t)
  \/ \E c \in Range(b.constants) : c.value = t[2] /\ c.type \in {Untyped, type}

ConstantsFit(b, c) ==
  \A a \in Range(c.body) : a.predicate \in DOMAIN b.types =>
    \A k \in DOMAIN a.args \cap DOMAIN b.types[a.predicate] :
      FitsType(b, a.args[k], b.types[a.predicate][k])

(* A declared head over its own variables, and a body of different atoms.  *)
IsClause(b, c) ==
  /\ \E h \in Range(b.heads) : c.head = HeadAtom(h)
  /\ c.body \in Seq(BodyAtoms(b))
  /\ IsInjective(c.body)

InSpace(b, c) ==
  /\ IsClause(b, c)
  /\ NoIsland(c)
  /\ SomeOrder(b, c)
  /\ ~IsTypeUnsatisfiable(c, b.types)
  /\ ConstantsFit(b, c)

(* The bodies of at most maxBody different atoms.                          *)
Bodies(b) == {{}} \cup {Range(t) : t \in [1 .. b.maxBody -> BodyAtoms(b)]}

Space(b) ==
  {c \in {[head |-> HeadAtom(h), body |-> SetToSeq(S)] : h \in Range(b.heads), S \in Bodies(b)} :
     InSpace(b, c) /\ Cardinality(ClauseVars(c)) <= b.maxVars}

AsSet(c) == [head |-> c.head, body |-> Range(c.body)]

(* A clause with its body variables renamed, its body a set.               *)
Variants(b, c) ==
  {[head |-> c.head, body |-> Range(RenameBody(c, map))] :
     map \in Injection(BodyOnly(c), Range(VarPool(b.maxVars)) \ AtomVars(c.head))}

Unordered(prog) == {AsSet(c) : c \in Range(prog)}

(* Clause count, body length, variable count and then constants.           *)
Complexity(prog) ==
  <<Len(prog), Len(prog[1].body), Cardinality(ClauseVars(prog[1])),
    IF HasConst(prog[1]) THEN 1 ELSE 0>>

Below(x, y) == \E k \in DOMAIN x : x[k] < y[k] /\ \A j \in 1 .. k - 1 : x[j] = y[j]

=============================================================================
