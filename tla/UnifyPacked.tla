---------------------------- MODULE UnifyPacked ----------------------------
(***************************************************************************)
(* Unification of two packed terms: an explicit stack of pairs, bindings   *)
(* per side, no occurs check.  The oracle of src/engine/ops/unify_packed.js*)
(* and the Metal kernels that transliterate it differ in one thing: a      *)
(* kernel's stack has a bound, and it answers 0 when a pair does not fit.  *)
(***************************************************************************)
EXTENDS Integers, Sequences, SequencesExt, FiniteSets

CONSTANTS
  Task,      \* the calls: records with the regions A and B of packed slots, the
             \* backend, and ok, whether both terms could be packed
  MaxStack,  \* COPPER_MAX_STACK, the pairs a kernel's stack holds: 128
  GroundValue  \* what a variable may stand for, in the properties

ASSUME StackAssumption == MaxStack \in Nat \ {0}

VARIABLES
  task,      \* the call
  stack,     \* pairs of refs [side, slot], the next one last
  bind,      \* per side, the refs bound to variable ids
  verdict    \* "running", then "covered" or "missed"; "threw" when packing did

vars == <<task, stack, bind, verdict>>

Side == {"A", "B"}

Ref(side, slot) == [side |-> side, slot |-> slot]

SlotOf(r) == task[r.side][r.slot]
Tag(r)    == SlotOf(r).tag
Fid(r)    == SlotOf(r).fid

Init ==
  /\ task \in Task
  /\ stack = <<<<Ref("A", 0), Ref("B", 0)>>>>
  /\ bind = [side \in Side |-> [i \in {} |-> Ref(side, 0)]]
  /\ verdict = IF task.ok THEN "running" ELSE "threw"

---------------------------------------------------------------------------

IsBound(r) == Tag(r) = "var" /\ Fid(r) \in DOMAIN bind[r.side]

(* One link of the chain; also the faulty variant of Resolve.              *)
Follow(r) == IF IsBound(r) THEN bind[r.side][Fid(r)] ELSE r

(* No chain of variables is longer than the bindings there are.            *)
Links == Cardinality(DOMAIN bind["A"]) + Cardinality(DOMAIN bind["B"])

Chain(r) ==
  LET chain[n \in 0 .. Links] == IF n = 0 THEN r ELSE Follow(chain[n - 1])
  IN chain

Resolve(r) == Chain(r)[Links]

Left  == Resolve(Last(stack)[1])
Right == Resolve(Last(stack)[2])

HasPair == verdict = "running" /\ stack # <<>>

(* Faulty variant: forgets that the sides are scopes of their own.         *)
SameName == Tag(Left) = "var" /\ Tag(Right) = "var" /\ Fid(Left) = Fid(Right)

SameVariable ==
  Tag(Left) = "var" /\ Tag(Right) = "var" /\ Left.side = Right.side /\ Fid(Left) = Fid(Right)

(* Faulty variant: looks at the pair without popping it.                   *)
PeekPair == UNCHANGED stack

DropPair == stack' = Front(stack)

SkipVariable ==
  /\ HasPair
  /\ SameVariable
  /\ DropPair
  /\ UNCHANGED <<task, bind, verdict>>

BindTo(r, target) ==
  bind' = [bind EXCEPT ![r.side] =
             [i \in DOMAIN @ \cup {Fid(r)} |-> IF i = Fid(r) THEN target ELSE @[i]]]

BindLeft ==
  /\ HasPair
  /\ Tag(Left) = "var"
  /\ ~SameVariable
  /\ BindTo(Left, Right)
  /\ DropPair
  /\ UNCHANGED <<task, verdict>>

BindRight ==
  /\ HasPair
  /\ Tag(Left) # "var"
  /\ Tag(Right) = "var"
  /\ BindTo(Right, Left)
  /\ DropPair
  /\ UNCHANGED <<task, verdict>>

Both(tag) == Tag(Left) = tag /\ Tag(Right) = tag /\ Fid(Left) = Fid(Right)

MatchConstants ==
  /\ HasPair
  /\ Both("const")
  /\ DropPair
  /\ UNCHANGED <<task, bind, verdict>>

Kid(r, k) == SlotOf(r).kids[k]

MaxArity == Len(SlotOf(Left).kids)

SameArity == \A k \in 1 .. MaxArity : Kid(Left, k) = 0 <=> Kid(Right, k) = 0

KidPair(k) == <<Ref(Left.side, Kid(Left, k)), Ref(Right.side, Kid(Right, k))>>

(* What the first k places push.                                           *)
Pushed ==
  LET pushed[k \in 0 .. MaxArity] ==
        IF k = 0 THEN <<>>
        ELSE IF Kid(Left, k) = 0 THEN pushed[k - 1]
        ELSE Append(pushed[k - 1], KidPair(k))
  IN pushed

Pairs == Pushed[MaxArity]

StackHolds == task.backend = "cpu" \/ Len(stack) - 1 + Len(Pairs) <= MaxStack

Descend ==
  /\ HasPair
  /\ Both("compound")
  /\ SameArity
  /\ StackHolds
  /\ stack' = Front(stack) \o Pairs
  /\ UNCHANGED <<task, bind, verdict>>

(* Two constants or functors that differ, two arities, a constant and a    *)
(* compound, or a full stack.                                              *)
Fail ==
  /\ HasPair
  /\ Tag(Left) # "var" /\ Tag(Right) # "var"
  /\ ~Both("const")
  /\ Both("compound") => ~(SameArity /\ StackHolds)
  /\ verdict' = "missed"
  /\ UNCHANGED <<task, stack, bind>>

Succeed ==
  /\ verdict = "running"
  /\ stack = <<>>
  /\ verdict' = "covered"
  /\ UNCHANGED <<task, stack, bind>>

Next ==
  \/ SkipVariable \/ BindLeft \/ BindRight \/ MatchConstants
  \/ Descend \/ Fail \/ Succeed

(* The loop runs on by itself.                                             *)
Spec == Init /\ [][Next]_vars /\ WF_vars(Next)

---------------------------------------------------------------------------

(* Every call returns ("the depth/slot bounds the packing already enforces *)
(* keep it total", unify_packed.js).  Nothing checks for cycles, and the   *)
(* layout bounds the terms and not what they are bound to: this holds of   *)
(* pairs in which no cycle forms, ground examples among them.              *)
Terminates == <>(verdict # "running")

(* What packTermInto writes: the root in slot 0 and every kid in a slot    *)
(* after its parent's, in regions of one layout.                           *)
WellPacked(t) ==
  LET width == Len(t.A[0].kids) IN
    /\ width \in Nat
    /\ \A side \in Side : LET region == t[side] IN
         /\ \E n \in DOMAIN region : DOMAIN region = 0 .. n
         /\ region[0].tag # "empty"
         /\ \A s \in DOMAIN region :
              /\ region[s].tag \in {"empty", "var", "const", "compound"}
              /\ region[s].kids \in [1 .. width -> Nat]
              /\ \A k \in 1 .. width : LET kid == region[s].kids[k] IN
                   kid # 0 => kid \in DOMAIN region /\ kid > s /\ region[kid].tag # "empty"

(* What a slot stands for when its variables have values: a value is a tag,*)
(* an id and one value per place, Absent where there is no argument.       *)
Absent == [tag |-> "absent", fid |-> 0, kids |-> <<>>]

ASSUME GroundAssumption == Absent \notin GroundValue

VarIds ==
  UNION {{task[side][s].fid : s \in {i \in DOMAIN task[side] : task[side][i].tag = "var"}} :
           side \in Side}

Valuation == [Side -> [VarIds -> GroundValue]]

Values(region, ground) ==
  LET value[s \in DOMAIN region] ==
        LET slot == region[s] IN
          IF slot.tag = "var" THEN ground[slot.fid]
          ELSE [tag |-> slot.tag, fid |-> slot.fid,
                kids |-> IF slot.tag = "compound"
                           THEN [k \in DOMAIN slot.kids |->
                                   IF slot.kids[k] = 0 THEN Absent ELSE value[slot.kids[k]]]
                           ELSE <<>>]
  IN value

Value(r, v) == Values(task[r.side], v[r.side])[r.slot]

Equal(pair, v) == Value(pair[1], v) = Value(pair[2], v)

Equation(v) == Equal(<<Ref("A", 0), Ref("B", 0)>>, v)

Obeys(v) ==
  \A side \in Side : \A i \in DOMAIN bind[side] : v[side][i] = Value(bind[side][i], v)

StackIsFull == stack # <<>> /\ Both("compound") /\ SameArity /\ ~StackHolds

(* The bindings of a call that covers are the equation of the two terms:   *)
(* they hold for the same values of the variables.  A call that misses had *)
(* an equation that no values solve, unless a kernel's stack was full.     *)
VerdictIsTheEquation ==
  /\ verdict = "covered" => \A v \in Valuation : Equation(v) <=> Obeys(v)
  /\ verdict = "missed" /\ ~StackIsFull => \A v \in Valuation : ~Equation(v)

=============================================================================
