---------------------------- MODULE MCBatchOps ----------------------------
(***************************************************************************)
(* BatchOps with two calls and one other user of the pool.  Sizes are in   *)
(* units of a quarter of a term, and of the smallest bucket; << works on 5 *)
(* bits, so that two terms are the most whose size can be rounded.         *)
(***************************************************************************)
EXTENDS BatchOps

CONSTANTS c1, c2, h1

(* A variable unifies with everything, a constant with itself.             *)
MCPackable == {"x", "a", "b"}
MCUnifies  == {p \in MCPackable \X MCPackable : p[1] = p[2] \/ "x" \in {p[1], p[2]}}

Ask(op, left, right, backend) == [op |-> op, sides |-> <<left, right>>, backend |-> backend]

Asks ==
  << Ask("unify_batch", <<"a">>, <<"a", "b">>, "gpu"),
     Ask("unify_batch", <<"x", "b">>, <<"a", "b">>, "gpu"),
     Ask("unify_batch", <<"x", "b">>, <<"b", "large">>, "gpu"),
     Ask("coverage", <<"a">>, <<>>, "gpu"),
     Ask("coverage", <<"a">>, <<"b", "x">>, "gpu"),
     Ask("coverage", <<"a">>, <<"a", "b", "x">>, "gpu"),
     Ask("constraint_mask", <<"large">>, <<"x">>, "gpu"),
     Ask("constraint_mask", <<"x", "a">>, <<"x">>, "gpu"),
     Ask("unify_batch", <<"x", "b">>, <<"b", "a">>, "auto"),
     Ask("unify_batch", <<"x", "b">>, <<"b", "a">>, "cpu"),
     Ask("coverage", <<"b">>, <<"b", "large">>, "cpu") >>

(* Every pair of them: what the two calls are named makes no difference.   *)
MCRequests ==
  {[c \in {c1, c2} |-> IF c = c1 THEN Asks[i] ELSE Asks[j]] :
     <<i, j>> \in {p \in (DOMAIN Asks) \X (DOMAIN Asks) : p[1] <= p[2]}}

(* Complete, or built before there was a kernel for coverage.              *)
MCMetallibs == {{"unify_batch", "coverage", "constraint_mask"}, {"unify_batch", "constraint_mask"}}

=============================================================================
