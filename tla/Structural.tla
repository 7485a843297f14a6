----------------------------- MODULE Structural -----------------------------
(***************************************************************************)
(* Structural coverage (src/engine/structural.js): the facts of a program  *)
(* and the examples, packed with one layout and one symbol table, and the  *)
(* enumerator of fact patterns.  Atoms are compound terms here.            *)
(***************************************************************************)
EXTENDS Packing, FiniteSetsExt

RECURSIVE Depth(_)
Depth(t) == IF IsCompound(t) THEN 1 + Max({0} \cup {Depth(u) : u \in Range(t[3])}) ELSE 0

Arity(t) == IF IsCompound(t) THEN Len(t[3]) ELSE 0

(* The arity is that of the atoms, not of what is nested in them.          *)
StructuralLayout(terms) ==
  TermLayout(Max({1} \cup {Arity(t) : t \in terms}), Max({2} \cup {Depth(t) : t \in terms}) + 1)

(* Packs a sequence of terms one after the other; symbols pass on.         *)
PackTerms(layout, symbols, terms) ==
  FoldLeft(LAMBDA p, t :
             LET q == PackTermInto(layout, Fresh(layout), p.symbols, t)
             IN IF p.ok THEN [views |-> Append(p.views, q.view), symbols |-> q.symbols, ok |-> q.ok]
                ELSE p,
           [views |-> <<>>, symbols |-> symbols, ok |-> TRUE], terms)

(* Every cell that structuralCoverage unifies, or the call that throws.    *)
StructuralCells(heads, examples) ==
  LET layout == StructuralLayout(Range(heads) \cup Range(examples))
      c == PackTerms(layout, <<>>, heads)
      e == PackTerms(layout, c.symbols, examples)
      ok == c.ok /\ e.ok
  IN {[A |-> IF ok THEN c.views[h] ELSE Fresh(layout), B |-> IF ok THEN e.views[x] ELSE Fresh(layout),
       symbols |-> e.symbols, ok |-> ok, candidate |-> heads[h], example |-> examples[x],
       others |-> Range(heads) \cup Range(examples), backend |-> "cpu", layout |-> layout] :
        h \in DOMAIN heads, x \in DOMAIN examples}

---------------------------------------------------------------------------

(* The constants among the arguments of the examples, as they come.        *)
ExampleConstants(examples) ==
  FoldLeft(LAMBDA found, t : IF IsConst(t) /\ t \notin Range(found) THEN Append(found, t) ELSE found,
           <<>>, FlattenSeq([n \in DOMAIN examples |-> examples[n][3]]))

ConstCount(args) == Cardinality({k \in DOMAIN args : IsConst(args[k])})

(* The patterns of the head predicate: each argument a variable of its own *)
(* or a constant of the examples, fewest constants first; among those with *)
(* the same number, the last argument moves fastest.                       *)
FactPatterns(functor, arity, examples) ==
  LET consts == ExampleConstants(examples)
      choice(k, n) == IF n = 0 THEN Var(k - 1) ELSE consts[n]
      extended(acc, k) ==
        FlattenSeq([j \in DOMAIN acc |->
                      [n \in 1 .. Len(consts) + 1 |-> Append(acc[j], choice(k, n - 1))]])
      patterns == FoldLeft(extended, <<<<>>>>, [k \in 1 .. arity |-> k])
      having(n) == SelectSeq(patterns, LAMBDA args : ConstCount(args) = n)
      sorted == FlattenSeq([n \in 1 .. arity + 1 |-> having(n - 1)])
  IN [n \in DOMAIN sorted |-> Compound(functor, sorted[n])]

=============================================================================
