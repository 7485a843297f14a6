------------------------------ MODULE Packing ------------------------------
(***************************************************************************)
(* Terms in the flat slots of src/engine/buffer.js: packing (pack.js) and  *)
(* unpacking (unpack.js).                                                  *)
(*                                                                         *)
(* A region is a function from its slots to [tag, fid, kids]: the root is  *)
(* slot 0, a kid of 0 is no argument, and fid is the id of a variable or of*)
(* an interned symbol.                                                     *)
(***************************************************************************)
EXTENDS Terms

(* A layout is its argument places and slots per term.                     *)
TermLayout(maxArity, maxDepth) == [maxArity |-> maxArity, slotsPerTerm |-> maxDepth * maxArity]

Slots(layout) == 0 .. layout.slotsPerTerm - 1

EmptySlot(layout) == [tag |-> "empty", fid |-> 0, kids |-> [k \in 1 .. layout.maxArity |-> 0]]

Fresh(layout) == [s \in Slots(layout) |-> EmptySlot(layout)]

(* The symbols of a batch, in the order of their ids from 0.               *)
Intern(symbols, value) ==
  IF value \in Range(symbols) THEN symbols ELSE Append(symbols, value)

SymbolId(symbols, value) == (CHOOSE n \in DOMAIN symbols : symbols[n] = value) - 1

SymbolValue(symbols, id) == IF id + 1 \in DOMAIN symbols THEN symbols[id + 1] ELSE Null

---------------------------------------------------------------------------
(* A packing is [view, cursor, symbols, ok]; one that is not ok has thrown,*)
(* and what it wrote so far stays written.                                 *)

Write(p, slot, tag, fid) == [p EXCEPT !.view[slot].tag = tag, !.view[slot].fid = fid]

WriteSymbol(p, slot, tag, value) ==
  LET symbols == Intern(p.symbols, value)
  IN Write([p EXCEPT !.symbols = symbols], slot, tag, SymbolId(symbols, value))

HasRoom(layout, p) == p.cursor < layout.slotsPerTerm

(* A slot's kids beyond its arity are not written.                         *)
RECURSIVE PackAt(_, _, _, _)
PackAt(layout, p, slot, t) ==
  IF IsVar(t) THEN Write(p, slot, "var", t[2])
  ELSE IF IsConst(t) THEN WriteSymbol(p, slot, "const", t[2])
  ELSE FoldLeft(LAMBDA q, k :
                  IF q.ok /\ k <= layout.maxArity /\ HasRoom(layout, q)
                    THEN PackAt(layout,
                                [q EXCEPT !.cursor = @ + 1, !.view[slot].kids[k] = q.cursor],
                                q.cursor, t[3][k])
                    ELSE [q EXCEPT !.ok = FALSE],
                WriteSymbol(p, slot, "compound", t[2]),
                [k \in DOMAIN t[3] |-> k])

(* Faulty variant: trusts the memory to be zero.                           *)
AsFound(layout, view) == view

Zeroed(layout, view) == Fresh(layout)

PackTermInto(layout, view, symbols, t) ==
  PackAt(layout, [view |-> Zeroed(layout, view), cursor |-> 1, symbols |-> symbols, ok |-> TRUE], 0, t)

---------------------------------------------------------------------------

RECURSIVE UnpackFrom(_, _, _)
UnpackFrom(view, symbols, slot) ==
  LET s == view[slot] IN
    IF s.tag = "var" THEN Var(s.fid)
    ELSE IF s.tag = "const" THEN Const(SymbolValue(symbols, s.fid))
    ELSE IF s.tag = "compound"
      THEN LET kids == SelectSeq(s.kids, LAMBDA kid : kid # 0)
           IN Compound(SymbolValue(symbols, s.fid),
                       [k \in DOMAIN kids |-> UnpackFrom(view, symbols, kids[k])])
      ELSE Null

=============================================================================
