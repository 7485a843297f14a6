------------------------------- MODULE Terms -------------------------------
(***************************************************************************)
(* The term language and its unification: src/core/unify.js, and the       *)
(* argument-wise form of src/core/resolve.js.                              *)
(*                                                                         *)
(* A term is <<"var", id>>, <<"const", value>> or                          *)
(* <<"compound", functor, args>>.  A substitution is a function from ids   *)
(* to terms; the persistent radix trie that holds it in the code behaves   *)
(* as one, because no binding is ever changed in place.                    *)
(***************************************************************************)
EXTENDS Integers, Sequences, SequencesExt

CONSTANT Null   \* null, for no unifier

Var(i)         == <<"var", i>>
Const(c)       == <<"const", c>>
Compound(f, a) == <<"compound", f, a>>

IsVar(t)      == t[1] = "var"
IsConst(t)    == t[1] = "const"
IsCompound(t) == t[1] = "compound"

RECURSIVE TermIds(_)
TermIds(t) ==
  IF IsVar(t) THEN {t[2]}
  ELSE IF IsCompound(t) THEN UNION {TermIds(t[3][k]) : k \in DOMAIN t[3]} ELSE {}

EmptySub == [i \in {} |-> Null]

SubIds(s) == DOMAIN s \cup UNION {TermIds(s[i]) : i \in DOMAIN s}

Binding(s, i, t) == [j \in DOMAIN s \cup {i} |-> IF j = i THEN t ELSE s[j]]

(* Follow a variable to what it is bound to.                               *)
RECURSIVE Walk(_, _)
Walk(t, s) == IF IsVar(t) /\ t[2] \in DOMAIN s THEN Walk(s[t[2]], s) ELSE t

(* Faulty variant: looks at the term alone, not through the substitution.  *)
OccursAsWritten(i, t, s) == i \in TermIds(t)

RECURSIVE Occurs(_, _, _)
Occurs(i, t, s) ==
  LET w == Walk(t, s) IN
    \/ IsVar(w) /\ w[2] = i
    \/ IsCompound(w) /\ \E k \in DOMAIN w[3] : Occurs(i, w[3][k], s)

Bind(i, t, s) == IF Occurs(i, t, s) THEN Null ELSE Binding(s, i, t)

RECURSIVE Unify(_, _, _), UnifyAll(_, _, _)
Unify(t, u, s) ==
  LET a == Walk(t, s)
      b == Walk(u, s) IN
    IF IsVar(a) /\ a = b THEN s
    ELSE IF IsVar(a) THEN Bind(a[2], b, s)
    ELSE IF IsVar(b) THEN Bind(b[2], a, s)
    ELSE IF IsConst(a) /\ IsConst(b) THEN (IF a = b THEN s ELSE Null)
    ELSE IF /\ IsCompound(a) /\ IsCompound(b)
            /\ a[2] = b[2] /\ Len(a[3]) = Len(b[3])
         THEN UnifyAll(a[3], b[3], s)
         ELSE Null

(* Arguments are unified left to right, each under what the ones before it *)
(* bound; n, the substitution after the first pair, is computed once.      *)
UnifyAll(as, bs, s) ==
  IF as = <<>> \/ s = Null THEN s
  ELSE CHOOSE r \in {UnifyAll(Tail(as), Tail(bs), n) : n \in {Unify(Head(as), Head(bs), s)}} : TRUE

RECURSIVE Apply(_, _)
Apply(t, s) ==
  LET w == Walk(t, s) IN
    IF IsCompound(w) THEN Compound(w[2], [k \in DOMAIN w[3] |-> Apply(w[3][k], s)]) ELSE w

=============================================================================
