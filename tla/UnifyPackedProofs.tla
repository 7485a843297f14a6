------------------------- MODULE UnifyPackedProofs -------------------------
(***************************************************************************)
(* Theorems about UnifyPacked, for any well packed terms, of any width and *)
(* depth, and for any set of ground values.                                *)
(***************************************************************************)
EXTENDS UnifyPacked, Induction, FiniteSetTheorems, SequenceTheorems, TLAPS

TasksArePacked == \A t \in Task : t.ok => WellPacked(t)

---------------------------------------------------------------------------
(* The invariant.                                                          *)

Refs == {r \in [side : Side, slot : Nat] :
           r.slot \in DOMAIN task[r.side] /\ Tag(r) # "empty"}

BindOK ==
  /\ DOMAIN bind = Side
  /\ \A side \in Side :
       /\ IsFiniteSet(DOMAIN bind[side])
       /\ DOMAIN bind[side] \subseteq VarIds
       /\ \A i \in DOMAIN bind[side] : bind[side][i] \in Refs

TypesOK ==
  /\ WellPacked(task)
  /\ stack \in Seq(Refs \X Refs)
  /\ BindOK

(* A variable is bound to the end of a chain, so later bindings outrank the*)
(* earlier ones that lead to them.                                         *)
Outranks(T) ==
  \A side \in Side : \A i \in DOMAIN bind[side] :
    LET t == bind[side][i] IN
      /\ T[<<side, i>>] > 0
      /\ IsBound(t) => T[<<side, i>>] < T[<<t.side, Fid(t)>>]

Ranked == \E T \in [Side \X VarIds -> 0 .. Links] : Outranks(T)

(* The bindings and the pairs that wait are together what the equation is. *)
AllEqual(pairs, v) == \A j \in DOMAIN pairs : Equal(pairs[j], v)

Solves(v) == Obeys(v) /\ AllEqual(stack, v)

Faithful ==
  /\ verdict # "missed" => \A v \in Valuation : Equation(v) <=> Solves(v)
  /\ verdict = "covered" => stack = <<>>
  /\ verdict = "missed" /\ ~StackIsFull => \A v \in Valuation : ~Equation(v)

UnifyInv ==
  /\ task \in Task
  /\ verdict \in {"running", "covered", "missed", "threw"}
  /\ verdict # "threw" => task.ok /\ TypesOK /\ Ranked /\ Faithful

---------------------------------------------------------------------------
(* Packed terms and their values.                                          *)

(* The two regions of a task whose slots have w places.                    *)
Shape(w) ==
  /\ w \in Nat
  /\ \A side \in Side :
       /\ \E n \in Nat : DOMAIN task[side] = 0 .. n
       /\ task[side][0].tag # "empty"
       /\ \A s \in DOMAIN task[side] :
            /\ task[side][s].tag \in {"empty", "var", "const", "compound"}
            /\ task[side][s].kids \in [1 .. w -> Nat]
            /\ \A k \in 1 .. w : task[side][s].kids[k] # 0 =>
                 /\ task[side][s].kids[k] \in DOMAIN task[side]
                 /\ task[side][s].kids[k] > s
                 /\ task[side][task[side][s].kids[k]].tag # "empty"

LEMMA PackedShape ==
  ASSUME WellPacked(task)
  PROVE  \E w : Shape(w)
<1> DEFINE w == Len(task.A[0].kids)
<1>1. w \in Nat
  BY DEF WellPacked
<1>2. ASSUME NEW side \in Side
      PROVE  \E n \in Nat : DOMAIN task[side] = 0 .. n
  <2>1. PICK n \in DOMAIN task[side] : DOMAIN task[side] = 0 .. n
    BY <1>2 DEF WellPacked
  <2>2. n \in 0 .. n
    BY <2>1
  <2>3. n \in Nat
    BY <2>2
  <2>4. QED
    BY <2>1, <2>3
<1>3. Shape(w)
  BY <1>1, <1>2 DEF Shape, WellPacked
<1>4. QED
  BY <1>3

(* What the recursion in Values makes of a slot.                           *)
SlotValue(slot, ground, value) ==
  IF slot.tag = "var" THEN ground[slot.fid]
  ELSE [tag |-> slot.tag, fid |-> slot.fid,
        kids |-> IF slot.tag = "compound"
                   THEN [k \in DOMAIN slot.kids |->
                           IF slot.kids[k] = 0 THEN Absent ELSE value[slot.kids[k]]]
                   ELSE <<>>]

LEMMA ValuesDef ==
  ASSUME NEW w, Shape(w), NEW side \in Side, NEW ground
  PROVE  \A s \in DOMAIN task[side] :
           Values(task[side], ground)[s] =
             SlotValue(task[side][s], ground, Values(task[side], ground))
<1> DEFINE region == task[side]
           turn(s, g) == SlotValue(region[s], ground, g)
<1>1. PICK n \in Nat : DOMAIN region = 0 .. n
  BY DEF Shape
<1>2. \A s \in 0 .. n : /\ DOMAIN region[s].kids = 1 .. w
                        /\ \A k \in 1 .. w : region[s].kids[k] # 0 =>
                             region[s].kids[k] \in 0 .. n /\ region[s].kids[k] > s
  BY <1>1 DEF Shape
<1> HIDE DEF region
<1> DEFINE Goes(m) == \E g : g = [s \in (n + 1 - m) .. n |-> turn(s, g)]
           None == {m \in 0 .. n + 1 : ~Goes(m)}
<1>3. ASSUME None # {} PROVE FALSE
  <2>1. PICK m \in None : \A j \in None : m <= j
    <3>1. None \in SUBSET Nat
      OBVIOUS
    <3> HIDE DEF None
    <3>2. QED
      BY <1>3, <3>1, LeastExists
  <2>2. m \in 0 .. n + 1 /\ m \in Nat /\ ~Goes(m)
    OBVIOUS
  <2>3. CASE m = 0
    <3> DEFINE g == [s \in {} |-> 0]
    <3>1. (n + 1 - m) .. n = {}
      BY <2>3
    <3> HIDE DEF turn
    <3>2. g = [s \in (n + 1 - m) .. n |-> turn(s, g)]
      BY <3>1
    <3>3. QED
      BY <2>2, <3>2
  <2>4. CASE m # 0
    <3>1. m - 1 \in 0 .. n + 1 /\ m - 1 \notin None
      <4> HIDE DEF None
      <4>1. m - 1 \in 0 .. n + 1 /\ ~(m <= m - 1)
        BY <2>2, <2>4
      <4>2. QED
        BY <2>1, <4>1
    <3>2. PICK h : h = [s \in (n + 1 - (m - 1)) .. n |-> turn(s, h)]
      BY <3>1
    <3> DEFINE g == [s \in (n + 1 - m) .. n |-> turn(s, h)]
               later == (n + 1 - (m - 1)) .. n
    <3>3. \A s \in later : g[s] = h[s]
      <4>1. \A s \in later : s \in (n + 1 - m) .. n
        BY <2>2
      <4> HIDE DEF turn
      <4>2. \A s \in later : h[s] = turn(s, h)
        BY <3>2
      <4>3. QED
        BY <4>1, <4>2
    <3>4. \A s \in (n + 1 - m) .. n : s \in 0 .. n /\ \A t \in 0 .. n : t > s => t \in later
      BY <2>2
    <3> HIDE DEF g, later
    <3>5. ASSUME NEW s \in (n + 1 - m) .. n PROVE turn(s, h) = turn(s, g)
      <4>1. \A k \in 1 .. w : region[s].kids[k] # 0 => g[region[s].kids[k]] = h[region[s].kids[k]]
        BY <1>2, <3>3, <3>4
      <4>2. DOMAIN region[s].kids = 1 .. w
        BY <1>2, <3>4
      <4>3. QED
        BY <4>1, <4>2 DEF SlotValue
    <3> HIDE DEF turn
    <3>6. g = [s \in (n + 1 - m) .. n |-> turn(s, g)]
      BY <3>5 DEF g
    <3>7. QED
      BY <2>2, <3>6
  <2>5. QED
    BY <2>3, <2>4
<1>4. PICK g : g = [s \in 0 .. n |-> turn(s, g)]
  <2>1. n + 1 \in 0 .. n + 1 /\ n + 1 - (n + 1) = 0
    OBVIOUS
  <2>2. Goes(n + 1)
    BY <1>3, <2>1
  <2>3. QED
    BY <2>1, <2>2
<1>5. Values(region, ground) = CHOOSE f : f = [s \in DOMAIN region |-> turn(s, f)]
  BY DEF Values, SlotValue
<1>6. Values(region, ground) = [s \in 0 .. n |-> turn(s, Values(region, ground))]
  <2> HIDE DEF turn
  <2>1. QED
    BY <1>1, <1>4, <1>5 DEF region
<1>7. QED
  <2> HIDE DEF turn
  <2>1. \A s \in 0 .. n : Values(region, ground)[s] = turn(s, Values(region, ground))
    BY <1>6
  <2>2. QED
    BY <1>1, <2>1 DEF turn, region

LEMMA RefFacts ==
  ASSUME NEW w, Shape(w), NEW r \in Refs
  PROVE  /\ r.side \in Side /\ r.slot \in Nat /\ r.slot \in DOMAIN task[r.side]
         /\ Tag(r) \in {"var", "const", "compound"}
         /\ Tag(r) = "var" => Fid(r) \in VarIds
         /\ SlotOf(r).kids \in [1 .. w -> Nat]
<1>1. r.side \in Side /\ r.slot \in Nat /\ r.slot \in DOMAIN task[r.side] /\ Tag(r) # "empty"
  BY DEF Refs
<1>2. Tag(r) \in {"var", "const", "compound"}
  BY <1>1 DEF Shape, Tag, SlotOf
<1>3. Tag(r) = "var" => Fid(r) \in VarIds
  BY <1>1 DEF VarIds, Tag, Fid, SlotOf
<1>4. SlotOf(r).kids \in [1 .. w -> Nat]
  BY <1>1 DEF Shape, SlotOf
<1>5. QED
  BY <1>1, <1>2, <1>3, <1>4

KidRef(r, k) == Ref(r.side, Kid(r, k))

LEMMA KidIsRef ==
  ASSUME NEW w, Shape(w), NEW r \in Refs, NEW k \in 1 .. w, Kid(r, k) # 0
  PROVE  KidRef(r, k) \in Refs
<1>1. r.side \in Side /\ r.slot \in DOMAIN task[r.side]
  BY RefFacts
<1>2. /\ Kid(r, k) \in Nat /\ Kid(r, k) \in DOMAIN task[r.side]
      /\ task[r.side][Kid(r, k)].tag # "empty"
  BY <1>1 DEF Shape, Kid, SlotOf
<1>3. QED
  BY <1>1, <1>2 DEF Refs, KidRef, Ref, Tag, SlotOf

KidValue(r, k, v) == IF Kid(r, k) = 0 THEN Absent ELSE Value(KidRef(r, k), v)

LEMMA ValueOf ==
  ASSUME NEW w, Shape(w), NEW r \in Refs, NEW v
  PROVE  /\ Tag(r) = "var" => Value(r, v) = v[r.side][Fid(r)]
         /\ Tag(r) = "const" => Value(r, v) = [tag |-> "const", fid |-> Fid(r), kids |-> <<>>]
         /\ Tag(r) = "compound" =>
              Value(r, v) = [tag |-> "compound", fid |-> Fid(r),
                             kids |-> [k \in 1 .. w |-> KidValue(r, k, v)]]
<1> DEFINE all == Values(task[r.side], v[r.side])
<1>1. /\ r.side \in Side /\ r.slot \in DOMAIN task[r.side]
      /\ DOMAIN SlotOf(r).kids = 1 .. w
  BY RefFacts
<1>2. Value(r, v) = SlotValue(SlotOf(r), v[r.side], all)
  BY <1>1, ValuesDef DEF Value, SlotOf
<1>3. \A k \in 1 .. w : KidValue(r, k, v) =
        IF SlotOf(r).kids[k] = 0 THEN Absent ELSE all[SlotOf(r).kids[k]]
  BY DEF KidValue, KidRef, Ref, Kid, Value
<1> HIDE DEF all
<1>4. QED
  BY <1>1, <1>2, <1>3 DEF SlotValue, Tag, Fid

(* An argument that is there has a value that is not Absent.               *)
LEMMA ValueIsPresent ==
  ASSUME NEW w, Shape(w), NEW r \in Refs, NEW v \in Valuation
  PROVE  Value(r, v) # Absent
<1>1. /\ r.side \in Side /\ Tag(r) \in {"var", "const", "compound"}
      /\ Tag(r) = "var" => Fid(r) \in VarIds
  BY RefFacts
<1>2. /\ Tag(r) = "var" => Value(r, v) = v[r.side][Fid(r)]
      /\ Tag(r) = "const" => Value(r, v) = [tag |-> "const", fid |-> Fid(r), kids |-> <<>>]
      /\ Tag(r) = "compound" =>
           Value(r, v) = [tag |-> "compound", fid |-> Fid(r),
                          kids |-> [k \in 1 .. w |-> KidValue(r, k, v)]]
  BY ValueOf
<1>3. CASE Tag(r) = "var"
  <2>1. Value(r, v) \in GroundValue
    BY <1>1, <1>2, <1>3 DEF Valuation
  <2>2. QED
    BY <2>1, GroundAssumption
<1>4. CASE Tag(r) # "var"
  <2>1. Value(r, v).tag \in {"const", "compound"}
    BY <1>1, <1>2, <1>4
  <2>2. Absent.tag = "absent"
    BY DEF Absent
  <2>3. QED
    BY <2>1, <2>2
<1>5. QED
  BY <1>3, <1>4

(* Two compounds are equal when their functors are and each argument is.   *)
LEMMA CompoundsEqual ==
  ASSUME NEW w, Shape(w), NEW r \in Refs, NEW q \in Refs, NEW v,
         Tag(r) = "compound", Tag(q) = "compound"
  PROVE  Value(r, v) = Value(q, v) <=>
           Fid(r) = Fid(q) /\ \A k \in 1 .. w : KidValue(r, k, v) = KidValue(q, k, v)
<1> DEFINE kr == [k \in 1 .. w |-> KidValue(r, k, v)]
           kq == [k \in 1 .. w |-> KidValue(q, k, v)]
<1>1. Value(r, v) = [tag |-> "compound", fid |-> Fid(r), kids |-> kr]
  BY ValueOf
<1>2. Value(q, v) = [tag |-> "compound", fid |-> Fid(q), kids |-> kq]
  BY ValueOf
<1>3. kr = kq <=> \A k \in 1 .. w : KidValue(r, k, v) = KidValue(q, k, v)
  OBVIOUS
<1> HIDE DEF kr, kq
<1>4. Value(r, v) = Value(q, v) => Fid(r) = Fid(q) /\ kr = kq
  BY <1>1, <1>2
<1>5. Fid(r) = Fid(q) /\ kr = kq => Value(r, v) = Value(q, v)
  BY <1>1, <1>2
<1>6. QED
  BY <1>3, <1>4, <1>5

---------------------------------------------------------------------------
(* Following bindings.                                                     *)

LEMMA LinksType ==
  ASSUME BindOK
  PROVE  Links \in Nat
<1>1. /\ IsFiniteSet(DOMAIN bind["A"]) /\ IsFiniteSet(DOMAIN bind["B"])
  BY DEF BindOK, Side
<1>2. Cardinality(DOMAIN bind["A"]) \in Nat /\ Cardinality(DOMAIN bind["B"]) \in Nat
  BY <1>1, FS_CardinalityType
<1>3. QED
  BY <1>2 DEF Links

LEMMA FollowOK ==
  ASSUME TypesOK, NEW r \in Refs
  PROVE  /\ Follow(r) \in Refs
         /\ \A v : Obeys(v) => Value(Follow(r), v) = Value(r, v)
<1>1. PICK w : Shape(w)
  BY PackedShape DEF TypesOK
<1>2. r.side \in Side
  BY <1>1, RefFacts
<1>3. CASE ~IsBound(r)
  BY <1>3 DEF Follow
<1>4. CASE IsBound(r)
  <2>1. /\ Tag(r) = "var" /\ Fid(r) \in DOMAIN bind[r.side]
        /\ Follow(r) = bind[r.side][Fid(r)]
    BY <1>4 DEF IsBound, Follow
  <2>2. Follow(r) \in Refs
    BY <1>2, <2>1 DEF TypesOK, BindOK
  <2>3. ASSUME NEW v, Obeys(v) PROVE Value(Follow(r), v) = Value(r, v)
    <3>1. Value(r, v) = v[r.side][Fid(r)]
      BY <1>1, <2>1, ValueOf
    <3>2. QED
      BY <1>2, <2>1, <2>3, <3>1 DEF Obeys
  <2>4. QED
    BY <2>2, <2>3
<1>5. QED
  BY <1>3, <1>4

LEMMA ChainDef ==
  ASSUME TypesOK, NEW r \in Refs
  PROVE  /\ Chain(r)[0] = r
         /\ \A n \in 1 .. Links : Chain(r)[n] = Follow(Chain(r)[n - 1])
<1> DEFINE turn(n, g) == IF n = 0 THEN r ELSE Follow(g[n - 1])
           step == [p \in (1 .. Links) \X Refs |-> Follow(p[2])]
<1>1. Links \in Nat
  BY LinksType DEF TypesOK
<1>2. step \in [(1 .. Links) \X Refs -> Refs]
  <2>1. \A p \in (1 .. Links) \X Refs : Follow(p[2]) \in Refs
    BY FollowOK
  <2>2. QED
    BY <2>1
<1>3. \A n \in 1 .. Links : \A q \in Refs : step[<<n, q>>] = Follow(q)
  OBVIOUS
<1> HIDE DEF step
<1>4. PICK g \in [0 .. Links -> Refs] : Iterated(g, Links, r, step)
  BY <1>1, <1>2, Iterates
<1>5. g = [n \in 0 .. Links |-> turn(n, g)]
  <2>1. ASSUME NEW n \in 0 .. Links, n # 0
        PROVE  step[<<n, g[n - 1]>>] = Follow(g[n - 1])
    <3>1. n \in 1 .. Links /\ n - 1 \in 0 .. Links
      BY <1>1, <2>1
    <3>2. g[n - 1] \in Refs
      BY <1>4, <3>1
    <3>3. QED
      BY <1>3, <3>1, <3>2
  <2>2. QED
    BY <1>4, <2>1 DEF Iterated
<1>6. Chain(r) = CHOOSE f : f = [n \in 0 .. Links |-> turn(n, f)]
  BY DEF Chain
<1>7. Chain(r) = [n \in 0 .. Links |-> turn(n, Chain(r))]
  <2> HIDE DEF turn
  <2>1. QED
    BY <1>5, <1>6
<1>8. \A n \in 0 .. Links : Chain(r)[n] = turn(n, Chain(r))
  <2> HIDE DEF turn
  <2>1. QED
    BY <1>7
<1>9. QED
  BY <1>1, <1>8

(* A chain of bindings ends after as many turns as there are bindings, at a*)
(* slot that stands for the same.                                          *)
LEMMA ResolveOK ==
  ASSUME TypesOK, Ranked, NEW r \in Refs
  PROVE  /\ Resolve(r) \in Refs /\ ~IsBound(Resolve(r))
         /\ \A v : Obeys(v) => Value(Resolve(r), v) = Value(r, v)
<1>1. Links \in Nat
  BY LinksType DEF TypesOK
<1>2. PICK T \in [Side \X VarIds -> 0 .. Links] : Outranks(T)
  BY DEF Ranked
<1> DEFINE rank(q) == T[<<q.side, Fid(q)>>]
           Fine(n) == /\ Chain(r)[n] \in Refs
                      /\ \A v : Obeys(v) => Value(Chain(r)[n], v) = Value(r, v)
                      /\ IsBound(Chain(r)[n]) => rank(Chain(r)[n]) > n
           Bad == {n \in 0 .. Links : ~Fine(n)}
<1>3. ASSUME NEW q \in Refs, IsBound(q)
      PROVE  /\ rank(q) \in 0 .. Links /\ rank(q) > 0
             /\ Follow(q) \in Refs
             /\ IsBound(Follow(q)) => rank(q) < rank(Follow(q))
  <2>1. q.side \in Side
    BY DEF Refs
  <2>2. /\ Fid(q) \in DOMAIN bind[q.side] /\ Follow(q) = bind[q.side][Fid(q)]
    BY <1>3 DEF IsBound, Follow
  <2>3. Fid(q) \in VarIds
    BY <2>1, <2>2 DEF TypesOK, BindOK
  <2>4. rank(q) \in 0 .. Links
    BY <1>2, <2>1, <2>3
  <2>5. rank(q) > 0 /\ (IsBound(Follow(q)) => rank(q) < rank(Follow(q)))
    BY <1>2, <2>1, <2>2 DEF Outranks
  <2>6. Follow(q) \in Refs
    BY FollowOK
  <2>7. QED
    BY <2>4, <2>5, <2>6
<1> HIDE DEF rank
<1>4. ASSUME Bad # {} PROVE FALSE
  <2>1. PICK n \in Bad : \A j \in Bad : n <= j
    <3>1. Bad \in SUBSET Nat
      OBVIOUS
    <3> HIDE DEF Bad
    <3>2. QED
      BY <1>4, <3>1, LeastExists
  <2>2. n \in 0 .. Links /\ ~Fine(n)
    OBVIOUS
  <2>3. CASE n = 0
    <3>1. Chain(r)[n] = r
      BY <2>3, ChainDef
    <3>2. IsBound(r) => rank(r) > 0
      BY <1>3
    <3>3. QED
      BY <2>2, <2>3, <3>1, <3>2
  <2>4. CASE n # 0
    <3> DEFINE q == Chain(r)[n - 1]
    <3>1. n \in 1 .. Links /\ n - 1 \in 0 .. Links /\ n - 1 \notin Bad
      <4> HIDE DEF Bad
      <4>1. n \in 1 .. Links /\ n - 1 \in 0 .. Links /\ ~(n <= n - 1)
        BY <1>1, <2>2, <2>4
      <4>2. QED
        BY <2>1, <4>1
    <3>2. /\ q \in Refs
          /\ \A v : Obeys(v) => Value(q, v) = Value(r, v)
          /\ IsBound(q) => rank(q) > n - 1
      BY <3>1
    <3>3. Chain(r)[n] = Follow(q)
      BY <3>1, ChainDef
    <3> HIDE DEF q
    <3>4. Follow(q) \in Refs /\ \A v : Obeys(v) => Value(Follow(q), v) = Value(q, v)
      BY <3>2, FollowOK
    <3>5. IsBound(Follow(q)) => rank(Follow(q)) > n
      <4>1. CASE ~IsBound(q)
        BY <4>1 DEF Follow
      <4>2. CASE IsBound(q) /\ IsBound(Follow(q))
        <5>1. rank(q) \in 0 .. Links /\ rank(q) < rank(Follow(q)) /\ rank(q) > n - 1
          BY <1>3, <3>2, <4>2
        <5>2. rank(Follow(q)) \in 0 .. Links
          BY <1>3, <3>4, <4>2
        <5>3. QED
          BY <1>1, <3>1, <5>1, <5>2
      <4>3. QED
        BY <4>1, <4>2
    <3>6. Fine(n)
      BY <3>2, <3>3, <3>4, <3>5
    <3>7. QED
      BY <2>2, <3>6
  <2>5. QED
    BY <2>3, <2>4
<1>5. Fine(Links)
  BY <1>1, <1>4
<1>6. ~IsBound(Chain(r)[Links])
  <2>1. ASSUME IsBound(Chain(r)[Links]) PROVE FALSE
    <3>1. rank(Chain(r)[Links]) \in 0 .. Links
      BY <1>3, <1>5, <2>1
    <3>2. QED
      BY <1>1, <1>5, <2>1, <3>1
  <2>2. QED
    BY <2>1
<1>7. QED
  BY <1>5, <1>6 DEF Resolve

---------------------------------------------------------------------------
(* The stack.                                                              *)

LEMMA FrontEqual ==
  ASSUME NEW R, NEW s \in Seq(R), s # <<>>
  PROVE  /\ Front(s) \in Seq(R) /\ Last(s) \in R
         /\ \A v : AllEqual(s, v) <=> AllEqual(Front(s), v) /\ Equal(Last(s), v)
<1> DEFINE n == Len(s) - 1
<1>1. n \in Nat /\ DOMAIN s = 1 .. n + 1 /\ \A j \in 1 .. n + 1 : s[j] \in R
  BY DEF n
<1>2. Last(s) = s[n + 1] /\ Front(s) = SubSeq(s, 1, n)
  BY DEF Last, Front, n
<1> HIDE DEF n
<1>3. /\ Front(s) \in Seq(R) /\ DOMAIN Front(s) = 1 .. n
      /\ \A j \in 1 .. n : Front(s)[j] = s[j]
  <2>1. \A j \in 1 .. n : s[j] \in R
    BY <1>1
  <2>2. /\ SubSeq(s, 1, n) \in Seq(R)
        /\ Len(SubSeq(s, 1, n)) = IF 1 <= n THEN n - 1 + 1 ELSE 0
        /\ \A j \in 1 .. n - 1 + 1 : SubSeq(s, 1, n)[j] = s[1 + j - 1]
    BY <1>1, <2>1, SubSeqProperties
  <2>3. Len(SubSeq(s, 1, n)) = n /\ \A j \in 1 .. n : SubSeq(s, 1, n)[j] = s[j]
    BY <1>1, <2>2
  <2>4. QED
    BY <1>2, <2>2, <2>3
<1>4. 1 .. n + 1 = (1 .. n) \cup {n + 1}
  BY <1>1
<1>5. ASSUME NEW v
      PROVE  AllEqual(s, v) <=> AllEqual(Front(s), v) /\ Equal(Last(s), v)
  BY <1>1, <1>2, <1>3, <1>4 DEF AllEqual
<1>6. QED
  BY <1>1, <1>2, <1>3, <1>5

LEMMA AppendEqual ==
  ASSUME NEW R, NEW s \in Seq(R), NEW e \in R
  PROVE  /\ Append(s, e) \in Seq(R)
         /\ \A v : AllEqual(Append(s, e), v) <=> AllEqual(s, v) /\ Equal(e, v)
<1>1. /\ Append(s, e) \in Seq(R) /\ Len(s) \in Nat
      /\ DOMAIN s = 1 .. Len(s) /\ DOMAIN Append(s, e) = 1 .. Len(s) + 1
      /\ \A j \in 1 .. Len(s) : Append(s, e)[j] = s[j]
      /\ Append(s, e)[Len(s) + 1] = e
  OBVIOUS
<1>2. 1 .. Len(s) + 1 = (1 .. Len(s)) \cup {Len(s) + 1}
  BY <1>1
<1>3. ASSUME NEW v
      PROVE  AllEqual(Append(s, e), v) <=> AllEqual(s, v) /\ Equal(e, v)
  BY <1>1, <1>2 DEF AllEqual
<1>4. QED
  BY <1>1, <1>3

LEMMA ConcatEqual ==
  ASSUME NEW R, NEW s \in Seq(R), NEW u \in Seq(R)
  PROVE  /\ s \o u \in Seq(R)
         /\ \A v : AllEqual(s \o u, v) <=> AllEqual(s, v) /\ AllEqual(u, v)
<1> DEFINE m == Len(s)
           n == Len(u)
           c == s \o u
<1>1. /\ c \in Seq(R) /\ m \in Nat /\ n \in Nat
      /\ DOMAIN s = 1 .. m /\ DOMAIN u = 1 .. n /\ DOMAIN c = 1 .. m + n
      /\ \A j \in 1 .. m : c[j] = s[j]
      /\ \A j \in 1 .. m + n : j > m => c[j] = u[j - m]
  OBVIOUS
<1> HIDE DEF m, n, c
<1>2. \A j \in 1 .. n : j + m \in 1 .. m + n /\ j + m > m /\ j + m - m = j
  BY <1>1
<1>3. \A j \in 1 .. n : c[j + m] = u[j]
  BY <1>1, <1>2
<1>4. \A j \in 1 .. m + n : j \in 1 .. m \/ (j > m /\ j - m \in 1 .. n)
  BY <1>1
<1>5. \A j \in 1 .. m : j \in 1 .. m + n
  BY <1>1
<1>6. ASSUME NEW v
      PROVE  AllEqual(c, v) <=> AllEqual(s, v) /\ AllEqual(u, v)
  <2>1. ASSUME AllEqual(c, v) PROVE AllEqual(s, v) /\ AllEqual(u, v)
    BY <1>1, <1>2, <1>3, <1>5, <2>1 DEF AllEqual
  <2>2. ASSUME AllEqual(s, v), AllEqual(u, v) PROVE AllEqual(c, v)
    BY <1>1, <1>4, <2>2 DEF AllEqual
  <2>3. QED
    BY <2>1, <2>2
<1>7. QED
  BY <1>1, <1>6 DEF c

---------------------------------------------------------------------------
(* The pair on top.                                                        *)

LEMMA TopPair ==
  ASSUME TypesOK, Ranked, HasPair
  PROVE  /\ Left \in Refs /\ ~IsBound(Left)
         /\ Right \in Refs /\ ~IsBound(Right)
         /\ Front(stack) \in Seq(Refs \X Refs)
         /\ \A v : Solves(v) <=> /\ Obeys(v) /\ Value(Left, v) = Value(Right, v)
                                 /\ AllEqual(Front(stack), v)
<1>1. stack \in Seq(Refs \X Refs) /\ stack # <<>>
  BY DEF TypesOK, HasPair
<1>2. /\ Front(stack) \in Seq(Refs \X Refs) /\ Last(stack) \in Refs \X Refs
      /\ \A v : AllEqual(stack, v) <=> AllEqual(Front(stack), v) /\ Equal(Last(stack), v)
  BY <1>1, FrontEqual
<1>3. Last(stack)[1] \in Refs /\ Last(stack)[2] \in Refs
  BY <1>2
<1>4. /\ Left \in Refs /\ ~IsBound(Left)
      /\ \A v : Obeys(v) => Value(Left, v) = Value(Last(stack)[1], v)
  BY <1>3, ResolveOK DEF Left
<1>5. /\ Right \in Refs /\ ~IsBound(Right)
      /\ \A v : Obeys(v) => Value(Right, v) = Value(Last(stack)[2], v)
  BY <1>3, ResolveOK DEF Right
<1>6. ASSUME NEW v
      PROVE  Solves(v) <=> /\ Obeys(v) /\ Value(Left, v) = Value(Right, v)
                           /\ AllEqual(Front(stack), v)
  <2>1. Obeys(v) => (Equal(Last(stack), v) <=> Value(Left, v) = Value(Right, v))
    BY <1>4, <1>5 DEF Equal
  <2>2. QED
    BY <1>2, <2>1 DEF Solves
<1>7. QED
  BY <1>2, <1>4, <1>5, <1>6

LEMMA ArityIsWidth ==
  ASSUME NEW w, Shape(w), Left \in Refs
  PROVE  MaxArity = w /\ w \in Nat
<1>1. SlotOf(Left).kids \in [1 .. w -> Nat]
  BY RefFacts
<1>2. w \in Nat
  BY DEF Shape
<1>3. SlotOf(Left).kids \in Seq(Nat) /\ Len(SlotOf(Left).kids) = w
  BY <1>1, <1>2
<1>4. QED
  BY <1>2, <1>3 DEF MaxArity

LEMMA KidPairOK ==
  ASSUME NEW w, Shape(w), Left \in Refs, Right \in Refs, SameArity,
         NEW k \in 1 .. w, Kid(Left, k) # 0
  PROVE  /\ KidPair(k) \in Refs \X Refs
         /\ \A v : Equal(KidPair(k), v) <=> KidValue(Left, k, v) = KidValue(Right, k, v)
<1>1. MaxArity = w
  BY ArityIsWidth
<1>2. Kid(Right, k) # 0
  BY <1>1 DEF SameArity
<1>3. KidRef(Left, k) \in Refs /\ KidRef(Right, k) \in Refs
  BY <1>2, KidIsRef
<1>4. KidPair(k) = <<KidRef(Left, k), KidRef(Right, k)>>
  BY DEF KidPair, KidRef
<1>5. QED
  BY <1>2, <1>3, <1>4 DEF Equal, KidValue

LEMMA PushedDef ==
  ASSUME NEW w, Shape(w), Left \in Refs, Right \in Refs, SameArity
  PROVE  /\ Pushed[0] = <<>>
         /\ \A k \in 1 .. w :
              Pushed[k] = IF Kid(Left, k) = 0 THEN Pushed[k - 1]
                          ELSE Append(Pushed[k - 1], KidPair(k))
<1> DEFINE S == Seq(Refs \X Refs)
           next(k, s) == IF Kid(Left, k) = 0 THEN s ELSE Append(s, KidPair(k))
           turn(k, g) == IF k = 0 THEN <<>> ELSE next(k, g[k - 1])
           step == [p \in (1 .. w) \X S |-> next(p[1], p[2])]
<1>1. MaxArity = w /\ w \in Nat
  BY ArityIsWidth
<1>2. ASSUME NEW k \in 1 .. w, NEW s \in S PROVE next(k, s) \in S
  <2>1. CASE Kid(Left, k) = 0
    BY <2>1
  <2>2. CASE Kid(Left, k) # 0
    <3>1. KidPair(k) \in Refs \X Refs
      BY <2>2, KidPairOK
    <3>2. Append(s, KidPair(k)) \in S
      BY <3>1, AppendEqual
    <3>3. QED
      BY <2>2, <3>2
  <2>3. QED
    BY <2>1, <2>2
<1>3. <<>> \in S
  OBVIOUS
<1> HIDE DEF S, next
<1>4. step \in [(1 .. w) \X S -> S]
  <2>1. \A p \in (1 .. w) \X S : next(p[1], p[2]) \in S
    BY <1>2
  <2>2. QED
    BY <2>1
<1>5. \A k \in 1 .. w : \A s \in S : step[<<k, s>>] = next(k, s)
  OBVIOUS
<1> HIDE DEF step
<1>6. PICK g \in [0 .. w -> S] : Iterated(g, w, <<>>, step)
  BY <1>1, <1>3, <1>4, Iterates
<1>7. g = [k \in 0 .. w |-> turn(k, g)]
  <2>1. ASSUME NEW k \in 0 .. w, k # 0
        PROVE  step[<<k, g[k - 1]>>] = next(k, g[k - 1])
    <3>1. k \in 1 .. w /\ k - 1 \in 0 .. w
      BY <1>1, <2>1
    <3>2. g[k - 1] \in S
      BY <1>6, <3>1
    <3>3. QED
      BY <1>5, <3>1, <3>2
  <2>2. QED
    BY <1>6, <2>1 DEF Iterated
<1>8. Pushed = CHOOSE f : f = [k \in 0 .. w |-> turn(k, f)]
  BY <1>1 DEF Pushed, next
<1>9. Pushed = [k \in 0 .. w |-> turn(k, Pushed)]
  <2> HIDE DEF turn
  <2>1. QED
    BY <1>7, <1>8
<1>10. \A k \in 0 .. w : Pushed[k] = turn(k, Pushed)
  <2> HIDE DEF turn
  <2>1. QED
    BY <1>9
<1>11. 0 \in 0 .. w /\ \A k \in 1 .. w : k \in 0 .. w /\ k # 0
  BY <1>1
<1>12. QED
  BY <1>10, <1>11 DEF next

(* The pairs that are pushed say that all arguments are equal.             *)
LEMMA PairsOK ==
  ASSUME NEW w, Shape(w), Left \in Refs, Right \in Refs, SameArity
  PROVE  /\ Pairs \in Seq(Refs \X Refs)
         /\ \A v : AllEqual(Pairs, v) <=>
                     \A k \in 1 .. w : KidValue(Left, k, v) = KidValue(Right, k, v)
<1> DEFINE same(k, v) == KidValue(Left, k, v) = KidValue(Right, k, v)
           Fine(n) == /\ Pushed[n] \in Seq(Refs \X Refs)
                      /\ \A v : AllEqual(Pushed[n], v) <=> \A k \in 1 .. n : same(k, v)
           Bad == {n \in 0 .. w : ~Fine(n)}
<1>1. MaxArity = w /\ w \in Nat
  BY ArityIsWidth
<1>2. ASSUME Bad # {} PROVE FALSE
  <2>1. PICK n \in Bad : \A j \in Bad : n <= j
    <3>1. Bad \in SUBSET Nat
      OBVIOUS
    <3> HIDE DEF Bad
    <3>2. QED
      BY <1>2, <3>1, LeastExists
  <2>2. n \in 0 .. w /\ ~Fine(n)
    OBVIOUS
  <2> HIDE DEF same
  <2>3. CASE n = 0
    <3>1. Pushed[n] = <<>>
      BY <2>3, PushedDef
    <3>2. <<>> \in Seq(Refs \X Refs) /\ \A v : AllEqual(<<>>, v)
      BY DEF AllEqual
    <3>3. 1 .. n = {}
      BY <2>3
    <3>4. QED
      BY <2>2, <3>1, <3>2, <3>3
  <2>4. CASE n # 0
    <3>1. n \in 1 .. w /\ n - 1 \in 0 .. w /\ n - 1 \notin Bad
      <4> HIDE DEF Bad
      <4>1. n \in 1 .. w /\ n - 1 \in 0 .. w /\ ~(n <= n - 1)
        BY <1>1, <2>2, <2>4
      <4>2. QED
        BY <2>1, <4>1
    <3> DEFINE s == Pushed[n - 1]
    <3>2. /\ s \in Seq(Refs \X Refs)
          /\ \A v : AllEqual(s, v) <=> \A k \in 1 .. n - 1 : same(k, v)
      BY <3>1
    <3>3. Pushed[n] = IF Kid(Left, n) = 0 THEN s ELSE Append(s, KidPair(n))
      BY <3>1, PushedDef
    <3>4. \A v : (\A k \in 1 .. n : same(k, v)) <=> (\A k \in 1 .. n - 1 : same(k, v)) /\ same(n, v)
      <4>1. 1 .. n = (1 .. n - 1) \cup {n}
        BY <3>1
      <4>2. QED
        BY <4>1
    <3> HIDE DEF s
    <3>5. CASE Kid(Left, n) = 0
      <4>1. Kid(Right, n) = 0
        BY <1>1, <3>1, <3>5 DEF SameArity
      <4>2. \A v : same(n, v)
        BY <3>5, <4>1 DEF same, KidValue
      <4>3. QED
        BY <2>2, <3>2, <3>3, <3>4, <3>5, <4>2
    <3>6. CASE Kid(Left, n) # 0
      <4>1. KidPair(n) \in Refs \X Refs /\ \A v : Equal(KidPair(n), v) <=> same(n, v)
        BY <3>1, <3>6, KidPairOK DEF same
      <4>2. /\ Append(s, KidPair(n)) \in Seq(Refs \X Refs)
            /\ \A v : AllEqual(Append(s, KidPair(n)), v) <=> AllEqual(s, v) /\ Equal(KidPair(n), v)
        BY <3>2, <4>1, AppendEqual
      <4>3. QED
        BY <2>2, <3>2, <3>3, <3>4, <3>6, <4>1, <4>2
    <3>7. QED
      BY <3>5, <3>6
  <2>5. QED
    BY <2>3, <2>4
<1>3. Fine(w)
  BY <1>1, <1>2
<1>4. QED
  BY <1>1, <1>3 DEF Pairs

---------------------------------------------------------------------------
(* The steps.                                                              *)

(* What depends on the task alone does not change.                         *)
LEMMA SameTask ==
  ASSUME task' = task
  PROVE  /\ Refs' = Refs /\ VarIds' = VarIds /\ Valuation' = Valuation
         /\ WellPacked(task)' = WellPacked(task)
         /\ \A v : Equation(v)' = Equation(v)
         /\ \A pair, v : Equal(pair, v)' = Equal(pair, v)
<1>1. Refs' = Refs
  BY DEF Refs, Tag, SlotOf
<1>2. VarIds' = VarIds
  BY DEF VarIds
<1>3. QED
  BY <1>1, <1>2 DEF Valuation, Equation, Equal, Value, Ref

LEMMA SameBindings ==
  ASSUME task' = task, bind' = bind
  PROVE  /\ BindOK' = BindOK /\ (Ranked <=> Ranked')
         /\ \A v : Obeys(v)' = Obeys(v)
<1>1. Refs' = Refs /\ VarIds' = VarIds
  BY SameTask
<1>2. BindOK' = BindOK
  BY <1>1 DEF BindOK
<1>3. Links' = Links
  BY DEF Links
<1>4. ASSUME NEW T PROVE Outranks(T)' <=> Outranks(T)
  BY DEF Outranks, IsBound, Tag, Fid, SlotOf
<1>5. Ranked <=> Ranked'
  BY <1>1, <1>3, <1>4 DEF Ranked
<1>6. \A v : Obeys(v)' = Obeys(v)
  BY DEF Obeys, Value
<1>7. QED
  BY <1>2, <1>5, <1>6

(* Binding an unbound variable to another end of a chain adds the equation *)
(* of the two to what the bindings say.                                    *)
LEMMA BindToOK ==
  ASSUME TypesOK, Ranked, NEW r \in Refs, NEW q \in Refs,
         Tag(r) = "var", ~IsBound(r), ~IsBound(q),
         ~(Tag(q) = "var" /\ q.side = r.side /\ Fid(q) = Fid(r)),
         task' = task, BindTo(r, q)
  PROVE  /\ BindOK' /\ Ranked'
         /\ \A v : Obeys(v)' <=> Obeys(v) /\ Value(r, v) = Value(q, v)
<1> DEFINE old == DOMAIN bind[r.side]
           id == Fid(r)
<1>1. PICK w : Shape(w)
  BY PackedShape DEF TypesOK
<1>2. /\ BindOK /\ r.side \in Side /\ id \in VarIds /\ id \notin old
      /\ q.side \in Side
  BY <1>1, RefFacts DEF TypesOK, IsBound
<1>3. /\ DOMAIN bind' = Side
      /\ DOMAIN bind'[r.side] = old \cup {id}
      /\ bind'[r.side][id] = q
      /\ \A i \in old : bind'[r.side][i] = bind[r.side][i]
      /\ \A side \in Side : side # r.side => bind'[side] = bind[side]
  BY <1>2 DEF BindTo, BindOK
<1>4. Refs' = Refs /\ VarIds' = VarIds
  BY SameTask
<1>5. BindOK'
  <2>1. IsFiniteSet(old \cup {id})
    BY <1>2, FS_AddElement DEF BindOK
  <2>2. ASSUME NEW side \in Side
        PROVE  /\ IsFiniteSet(DOMAIN bind'[side])
               /\ DOMAIN bind'[side] \subseteq VarIds
               /\ \A i \in DOMAIN bind'[side] : bind'[side][i] \in Refs
    <3>1. CASE side = r.side
      BY <1>2, <1>3, <2>1, <3>1 DEF BindOK
    <3>2. CASE side # r.side
      BY <1>2, <1>3, <3>2 DEF BindOK
    <3>3. QED
      BY <3>1, <3>2
  <2>3. QED
    BY <1>3, <1>4, <2>2 DEF BindOK
<1>6. ASSUME NEW v
      PROVE  Obeys(v)' <=> Obeys(v) /\ Value(r, v) = Value(q, v)
  <2>1. Value(r, v) = v[r.side][id]
    BY <1>1, ValueOf
  <2>2. Obeys(v)' <=> \A side \in Side : \A i \in DOMAIN bind'[side] :
                        v[side][i] = Value(bind'[side][i], v)
    BY DEF Obeys, Value
  <2>3. (\A i \in DOMAIN bind'[r.side] : v[r.side][i] = Value(bind'[r.side][i], v))
          <=> /\ \A i \in old : v[r.side][i] = Value(bind[r.side][i], v)
              /\ Value(r, v) = Value(q, v)
    BY <1>3, <2>1
  <2>4. QED
    BY <1>2, <1>3, <2>2, <2>3 DEF Obeys
<1>7. Ranked'
  <2>1. Links \in Nat /\ Links' = Links + 1
    <3>1. /\ IsFiniteSet(DOMAIN bind["A"]) /\ IsFiniteSet(DOMAIN bind["B"])
      BY <1>2 DEF BindOK, Side
    <3>2. Cardinality(DOMAIN bind["A"]) \in Nat /\ Cardinality(DOMAIN bind["B"]) \in Nat
      BY <3>1, FS_CardinalityType
    <3>3. Cardinality(DOMAIN bind'[r.side]) = Cardinality(old) + 1
      <4>1. IsFiniteSet(old)
        BY <1>2 DEF BindOK
      <4>2. Cardinality(old \cup {id}) = Cardinality(old) + 1
        BY <1>2, <4>1, FS_AddElement
      <4>3. QED
        BY <1>3, <4>2
    <3>4. CASE r.side = "A"
      <4>1. bind'["B"] = bind["B"]
        BY <1>3, <3>4 DEF Side
      <4>2. QED
        BY <3>2, <3>3, <3>4, <4>1 DEF Links
    <3>5. CASE r.side = "B"
      <4>1. bind'["A"] = bind["A"]
        BY <1>3, <3>5 DEF Side
      <4>2. QED
        BY <3>2, <3>3, <3>5, <4>1 DEF Links
    <3>6. QED
      BY <1>2, <3>4, <3>5 DEF Side
  <2>2. PICK T \in [Side \X VarIds -> 0 .. Links] : Outranks(T)
    BY DEF Ranked
  <2>3. PICK U : U = [T EXCEPT ![<<r.side, id>>] = Links + 1]
    OBVIOUS
  <2>4. /\ U \in [Side \X VarIds -> 0 .. Links + 1]
        /\ U[<<r.side, id>>] = Links + 1
        /\ \A side \in Side, i \in VarIds :
             <<side, i>> # <<r.side, id>> => U[<<side, i>>] = T[<<side, i>>]
    <3>1. \A x \in Side \X VarIds : T[x] \in 0 .. Links + 1
      BY <2>1, <2>2
    <3>2. <<r.side, id>> \in Side \X VarIds
      BY <1>2
    <3>3. Links + 1 \in 0 .. Links + 1
      BY <2>1
    <3> HIDE DEF id
    <3>4. QED
      BY <2>2, <2>3, <3>1, <3>2, <3>3
  <2>5. ~IsBound(q)'
    <3>1. ~(Tag(q) = "var" /\ Fid(q) \in DOMAIN bind'[q.side])
      BY <1>2, <1>3 DEF IsBound
    <3>2. QED
      BY <3>1 DEF IsBound, Tag, Fid, SlotOf
  <2>6. ASSUME NEW side \in Side, NEW i \in DOMAIN bind'[side], NEW t, t = bind'[side][i]
        PROVE  /\ U[<<side, i>>] > 0
               /\ IsBound(t)' => U[<<side, i>>] < U[<<t.side, Fid(t)>>]
    <3>1. CASE side = r.side /\ i = id
      BY <1>3, <2>1, <2>4, <2>5, <2>6, <3>1
    <3>2. CASE ~(side = r.side /\ i = id)
      <4>1. i \in DOMAIN bind[side] /\ t = bind[side][i]
        BY <1>3, <2>6, <3>2
      <4>2. i \in VarIds /\ t \in Refs
        BY <1>2, <4>1 DEF BindOK
      <4>3. /\ T[<<side, i>>] > 0 /\ T[<<side, i>>] \in 0 .. Links
            /\ U[<<side, i>>] = T[<<side, i>>]
            /\ IsBound(t) => T[<<side, i>>] < T[<<t.side, Fid(t)>>]
        BY <2>2, <2>4, <3>2, <4>1, <4>2 DEF Outranks
      <4>4. ASSUME IsBound(t)'
            PROVE  U[<<side, i>>] < U[<<t.side, Fid(t)>>]
        <5>1. /\ t.side \in Side
              /\ Tag(t) = "var" => Fid(t) \in VarIds
          BY <1>1, <4>2, RefFacts
        <5>2. Tag(t) = "var" /\ Fid(t) \in DOMAIN bind'[t.side]
          BY <4>4 DEF IsBound, Tag, Fid, SlotOf
        <5>3. CASE t.side = r.side /\ Fid(t) = id
          BY <2>1, <2>4, <4>3, <5>3
        <5>4. CASE ~(t.side = r.side /\ Fid(t) = id)
          <6>1. IsBound(t)
            BY <1>3, <5>1, <5>2, <5>4 DEF IsBound
          <6>2. U[<<t.side, Fid(t)>>] = T[<<t.side, Fid(t)>>]
            BY <2>4, <5>1, <5>2, <5>4
          <6>3. QED
            BY <4>3, <6>1, <6>2
        <5>5. QED
          BY <5>3, <5>4
      <4>5. QED
        BY <4>3, <4>4
    <3>3. QED
      BY <3>1, <3>2
  <2>7. Outranks(U)'
    BY <2>6 DEF Outranks, IsBound, Tag, Fid, SlotOf
  <2>8. QED
    BY <1>4, <2>1, <2>4, <2>7 DEF Ranked
<1>8. QED
  BY <1>5, <1>6, <1>7

LEMMA SamePair ==
  ASSUME task' = task, bind' = bind, stack' = stack
  PROVE  Left' = Left /\ Right' = Right /\ StackIsFull' = StackIsFull
<1>1. Links' = Links
  BY DEF Links
<1>2. \A r : Tag(r)' = Tag(r) /\ Fid(r)' = Fid(r) /\ SlotOf(r)' = SlotOf(r)
  BY DEF Tag, Fid, SlotOf
<1>3. \A r : IsBound(r)' = IsBound(r)
  BY <1>2 DEF IsBound
<1>4. \A r : Chain(r)' = Chain(r)
  BY <1>1 DEF Chain, Follow, IsBound, Tag, Fid, SlotOf
<1>5. \A r : Resolve(r)' = Resolve(r)
  BY <1>1, <1>4 DEF Resolve
<1>6. Left' = Left /\ Right' = Right
  BY <1>5 DEF Left, Right
<1>7. Pushed' = Pushed /\ MaxArity' = MaxArity
  BY <1>6 DEF Pushed, MaxArity, Kid, KidPair, SlotOf
<1>8. Pairs' = Pairs
  BY <1>7 DEF Pairs
<1>9. StackHolds' = StackHolds
  BY <1>8 DEF StackHolds
<1>10. (\A tag : Both(tag)' = Both(tag)) /\ SameArity' = SameArity
  BY <1>6, <1>7 DEF Both, SameArity, Kid, Tag, Fid, SlotOf
<1>11. QED
  BY <1>6, <1>9, <1>10 DEF StackIsFull

(* A turn that leaves the stack and the bindings together saying the same. *)
LEMMA TurnKeeps ==
  ASSUME UnifyInv, HasPair, task' = task, verdict' = verdict,
         stack' \in Seq(Refs \X Refs), BindOK', Ranked',
         \A v \in Valuation : Obeys(v)' /\ AllEqual(stack', v) <=> Solves(v)
  PROVE  UnifyInv'
<1>1. /\ verdict = "running" /\ task \in Task /\ task.ok
      /\ WellPacked(task)
      /\ \A v \in Valuation : Equation(v) <=> Solves(v)
  BY DEF UnifyInv, HasPair, TypesOK, Faithful
<1>2. /\ Refs' = Refs /\ Valuation' = Valuation
      /\ WellPacked(task)' = WellPacked(task)
      /\ \A v : Equation(v)' = Equation(v)
  BY SameTask
<1>3. ASSUME NEW v PROVE Solves(v)' <=> Obeys(v)' /\ AllEqual(stack', v)
  BY DEF Solves, AllEqual, Equal, Value
<1>4. TypesOK'
  BY <1>1, <1>2 DEF TypesOK
<1>5. Faithful'
  BY <1>1, <1>2, <1>3 DEF Faithful
<1>6. QED
  BY <1>1, <1>4, <1>5 DEF UnifyInv

LEMMA SkipVariableKeeps ==
  ASSUME UnifyInv, SkipVariable
  PROVE  UnifyInv'
<1>1. TypesOK /\ Ranked /\ HasPair
  BY DEF UnifyInv, SkipVariable, HasPair
<1>2. PICK w : Shape(w)
  BY <1>1, PackedShape DEF TypesOK
<1>3. /\ Left \in Refs /\ Right \in Refs /\ Front(stack) \in Seq(Refs \X Refs)
      /\ \A v : Solves(v) <=> /\ Obeys(v) /\ Value(Left, v) = Value(Right, v)
                              /\ AllEqual(Front(stack), v)
  BY <1>1, TopPair
<1>4. \A v : Value(Left, v) = Value(Right, v)
  <2>1. \A v : Value(Left, v) = v[Left.side][Fid(Left)] /\ Value(Right, v) = v[Right.side][Fid(Right)]
    BY <1>2, <1>3, ValueOf DEF SkipVariable, SameVariable
  <2>2. QED
    BY <2>1 DEF SkipVariable, SameVariable
<1>5. /\ task' = task /\ bind' = bind /\ verdict' = verdict /\ stack' = Front(stack)
  BY DEF SkipVariable, DropPair
<1>6. /\ BindOK' /\ Ranked' /\ \A v : Obeys(v)' = Obeys(v)
  BY <1>1, <1>5, SameBindings DEF TypesOK
<1>7. \A v \in Valuation : Obeys(v)' /\ AllEqual(stack', v) <=> Solves(v)
  BY <1>3, <1>4, <1>5, <1>6
<1>8. QED
  BY <1>1, <1>3, <1>5, <1>6, <1>7, TurnKeeps

LEMMA MatchConstantsKeeps ==
  ASSUME UnifyInv, MatchConstants
  PROVE  UnifyInv'
<1>1. TypesOK /\ Ranked /\ HasPair
  BY DEF UnifyInv, MatchConstants, HasPair
<1>2. PICK w : Shape(w)
  BY <1>1, PackedShape DEF TypesOK
<1>3. /\ Left \in Refs /\ Right \in Refs /\ Front(stack) \in Seq(Refs \X Refs)
      /\ \A v : Solves(v) <=> /\ Obeys(v) /\ Value(Left, v) = Value(Right, v)
                              /\ AllEqual(Front(stack), v)
  BY <1>1, TopPair
<1>4. \A v : Value(Left, v) = Value(Right, v)
  <2>1. Tag(Left) = "const" /\ Tag(Right) = "const" /\ Fid(Left) = Fid(Right)
    BY DEF MatchConstants, Both
  <2>2. \A v : /\ Value(Left, v) = [tag |-> "const", fid |-> Fid(Left), kids |-> <<>>]
               /\ Value(Right, v) = [tag |-> "const", fid |-> Fid(Right), kids |-> <<>>]
    BY <1>2, <1>3, <2>1, ValueOf
  <2>3. QED
    BY <2>1, <2>2
<1>5. /\ task' = task /\ bind' = bind /\ verdict' = verdict /\ stack' = Front(stack)
  BY DEF MatchConstants, DropPair
<1>6. /\ BindOK' /\ Ranked' /\ \A v : Obeys(v)' = Obeys(v)
  BY <1>1, <1>5, SameBindings DEF TypesOK
<1>7. \A v \in Valuation : Obeys(v)' /\ AllEqual(stack', v) <=> Solves(v)
  BY <1>3, <1>4, <1>5, <1>6
<1>8. QED
  BY <1>1, <1>3, <1>5, <1>6, <1>7, TurnKeeps

LEMMA BindKeeps ==
  ASSUME UnifyInv, BindLeft \/ BindRight
  PROVE  UnifyInv'
<1>1. TypesOK /\ Ranked /\ HasPair
  BY DEF UnifyInv, BindLeft, BindRight, HasPair
<1>2. /\ Left \in Refs /\ ~IsBound(Left) /\ Right \in Refs /\ ~IsBound(Right)
      /\ Front(stack) \in Seq(Refs \X Refs)
      /\ \A v : Solves(v) <=> /\ Obeys(v) /\ Value(Left, v) = Value(Right, v)
                              /\ AllEqual(Front(stack), v)
  BY <1>1, TopPair
<1>3. /\ task' = task /\ verdict' = verdict /\ stack' = Front(stack)
  BY DEF BindLeft, BindRight, DropPair
<1>4. /\ BindOK' /\ Ranked'
      /\ \A v : Obeys(v)' <=> Obeys(v) /\ Value(Left, v) = Value(Right, v)
  <2>1. CASE BindLeft
    <3>1. /\ Tag(Left) = "var" /\ BindTo(Left, Right)
          /\ ~(Tag(Right) = "var" /\ Right.side = Left.side /\ Fid(Right) = Fid(Left))
      BY <2>1 DEF BindLeft, SameVariable
    <3>2. QED
      BY <1>1, <1>2, <1>3, <3>1, BindToOK
  <2>2. CASE BindRight
    <3>1. Tag(Right) = "var" /\ Tag(Left) # "var" /\ BindTo(Right, Left)
      BY <2>2 DEF BindRight
    <3>2. /\ BindOK' /\ Ranked'
          /\ \A v : Obeys(v)' <=> Obeys(v) /\ Value(Right, v) = Value(Left, v)
      BY <1>1, <1>2, <1>3, <3>1, BindToOK
    <3>3. QED
      BY <3>2
  <2>3. QED
    BY <2>1, <2>2
<1>5. \A v \in Valuation : Obeys(v)' /\ AllEqual(stack', v) <=> Solves(v)
  BY <1>2, <1>3, <1>4
<1>6. QED
  BY <1>1, <1>2, <1>3, <1>4, <1>5, TurnKeeps

LEMMA DescendKeeps ==
  ASSUME UnifyInv, Descend
  PROVE  UnifyInv'
<1>1. TypesOK /\ Ranked /\ HasPair /\ SameArity
  BY DEF UnifyInv, Descend, HasPair
<1>2. PICK w : Shape(w)
  BY <1>1, PackedShape DEF TypesOK
<1>3. /\ Left \in Refs /\ Right \in Refs /\ Front(stack) \in Seq(Refs \X Refs)
      /\ \A v : Solves(v) <=> /\ Obeys(v) /\ Value(Left, v) = Value(Right, v)
                              /\ AllEqual(Front(stack), v)
  BY <1>1, TopPair
<1>4. /\ Pairs \in Seq(Refs \X Refs)
      /\ \A v : AllEqual(Pairs, v) <=>
                  \A k \in 1 .. w : KidValue(Left, k, v) = KidValue(Right, k, v)
  BY <1>1, <1>2, <1>3, PairsOK
<1>5. \A v : Value(Left, v) = Value(Right, v) <=> AllEqual(Pairs, v)
  <2>1. Tag(Left) = "compound" /\ Tag(Right) = "compound" /\ Fid(Left) = Fid(Right)
    BY DEF Descend, Both
  <2>2. \A v : Value(Left, v) = Value(Right, v) <=>
          Fid(Left) = Fid(Right) /\ \A k \in 1 .. w : KidValue(Left, k, v) = KidValue(Right, k, v)
    BY <1>2, <1>3, <2>1, CompoundsEqual
  <2>3. QED
    BY <1>4, <2>1, <2>2
<1>6. /\ task' = task /\ bind' = bind /\ verdict' = verdict /\ stack' = Front(stack) \o Pairs
  BY DEF Descend
<1>7. /\ BindOK' /\ Ranked' /\ \A v : Obeys(v)' = Obeys(v)
  BY <1>1, <1>6, SameBindings DEF TypesOK
<1>8. /\ Front(stack) \o Pairs \in Seq(Refs \X Refs)
      /\ \A v : AllEqual(Front(stack) \o Pairs, v) <=> AllEqual(Front(stack), v) /\ AllEqual(Pairs, v)
  BY <1>3, <1>4, ConcatEqual
<1>9. \A v \in Valuation : Obeys(v)' /\ AllEqual(stack', v) <=> Solves(v)
  BY <1>3, <1>5, <1>6, <1>7, <1>8
<1>10. QED
  BY <1>1, <1>6, <1>7, <1>8, <1>9, TurnKeeps

(* What the loop gives up on has no solution, unless it is for its stack.  *)
LEMMA FailIsRight ==
  ASSUME NEW w, Shape(w), Left \in Refs, Right \in Refs, Fail, ~StackIsFull, NEW v \in Valuation
  PROVE  Value(Left, v) # Value(Right, v)
<1>1. /\ Tag(Left) \in {"const", "compound"} /\ Tag(Right) \in {"const", "compound"}
      /\ ~Both("const")
  BY RefFacts DEF Fail
<1>2. CASE Tag(Left) # Tag(Right)
  <2>1. Value(Left, v).tag = Tag(Left) /\ Value(Right, v).tag = Tag(Right)
    BY <1>1, ValueOf
  <2>2. QED
    BY <1>2, <2>1
<1>3. CASE Tag(Left) = "const" /\ Tag(Right) = "const"
  <2>1. Fid(Left) # Fid(Right)
    BY <1>1, <1>3 DEF Both
  <2>2. Value(Left, v).fid = Fid(Left) /\ Value(Right, v).fid = Fid(Right)
    BY <1>3, ValueOf
  <2>3. QED
    BY <2>1, <2>2
<1>4. CASE Tag(Left) = "compound" /\ Tag(Right) = "compound"
  <2>1. CASE Fid(Left) # Fid(Right)
    BY <1>4, <2>1, CompoundsEqual
  <2>2. CASE Fid(Left) = Fid(Right)
    <3>1. ~SameArity
      BY <1>4, <2>2 DEF Fail, StackIsFull, Both, HasPair
    <3>2. PICK k \in 1 .. w : ~(Kid(Left, k) = 0 <=> Kid(Right, k) = 0)
      <4>1. MaxArity = w
        BY ArityIsWidth
      <4>2. QED
        BY <3>1, <4>1 DEF SameArity
    <3>3. KidValue(Left, k, v) # KidValue(Right, k, v)
      <4>1. CASE Kid(Left, k) = 0 /\ Kid(Right, k) # 0
        <5>1. KidRef(Right, k) \in Refs
          BY <4>1, KidIsRef
        <5>2. Value(KidRef(Right, k), v) # Absent
          BY <5>1, ValueIsPresent
        <5>3. QED
          BY <4>1, <5>2 DEF KidValue
      <4>2. CASE Kid(Left, k) # 0 /\ Kid(Right, k) = 0
        <5>1. KidRef(Left, k) \in Refs
          BY <4>2, KidIsRef
        <5>2. Value(KidRef(Left, k), v) # Absent
          BY <5>1, ValueIsPresent
        <5>3. QED
          BY <4>2, <5>2 DEF KidValue
      <4>3. QED
        BY <3>2, <4>1, <4>2
    <3>4. QED
      BY <1>4, <3>3, CompoundsEqual
  <2>3. QED
    BY <2>1, <2>2
<1>5. QED
  BY <1>1, <1>2, <1>3, <1>4

LEMMA EndKeeps ==
  ASSUME UnifyInv, Fail \/ Succeed \/ UNCHANGED vars
  PROVE  UnifyInv'
<1>1. task' = task /\ stack' = stack /\ bind' = bind
  BY DEF Fail, Succeed, vars
<1>2. /\ Refs' = Refs /\ Valuation' = Valuation
      /\ WellPacked(task)' = WellPacked(task)
      /\ \A v : Equation(v)' = Equation(v)
      /\ \A pair, v : Equal(pair, v)' = Equal(pair, v)
  BY <1>1, SameTask
<1>3. BindOK' = BindOK /\ (Ranked <=> Ranked') /\ \A v : Obeys(v)' = Obeys(v)
  BY <1>1, SameBindings
<1>4. TypesOK' <=> TypesOK
  BY <1>1, <1>2, <1>3 DEF TypesOK
<1>5. StackIsFull' = StackIsFull
  BY <1>1, SamePair
<1>6. ASSUME NEW v PROVE Solves(v)' <=> Solves(v)
  BY <1>1, <1>3 DEF Solves, AllEqual, Equal, Value
<1>7. CASE Fail
  <2>1. /\ verdict = "running" /\ verdict' = "missed"
        /\ HasPair /\ TypesOK /\ Ranked /\ Faithful /\ task \in Task /\ task.ok
    BY <1>7 DEF Fail, HasPair, UnifyInv
  <2>2. ASSUME ~StackIsFull, NEW v \in Valuation PROVE ~Equation(v)
    <3>1. PICK w : Shape(w)
      BY <2>1, PackedShape DEF TypesOK
    <3>2. /\ Left \in Refs /\ Right \in Refs
          /\ Solves(v) => Value(Left, v) = Value(Right, v)
      BY <2>1, TopPair
    <3>3. Value(Left, v) # Value(Right, v)
      BY <1>7, <2>2, <3>1, <3>2, FailIsRight
    <3>4. QED
      BY <2>1, <2>2, <3>2, <3>3 DEF Faithful
  <2>3. Faithful'
    BY <1>2, <1>5, <2>1, <2>2 DEF Faithful
  <2>4. QED
    BY <1>1, <1>3, <1>4, <2>1, <2>3 DEF UnifyInv
<1>8. CASE Succeed
  <2>1. /\ verdict = "running" /\ verdict' = "covered" /\ stack = <<>>
        /\ TypesOK /\ Ranked /\ Faithful /\ task \in Task /\ task.ok
    BY <1>8 DEF Succeed, UnifyInv
  <2>2. Faithful'
    BY <1>1, <1>2, <1>6, <2>1 DEF Faithful
  <2>3. QED
    BY <1>1, <1>3, <1>4, <2>1, <2>2 DEF UnifyInv
<1>9. CASE UNCHANGED vars
  <2>1. verdict' = verdict
    BY <1>9 DEF vars
  <2>2. Faithful => Faithful'
    BY <1>1, <1>2, <1>5, <1>6, <2>1 DEF Faithful
  <2>3. QED
    BY <1>1, <1>3, <1>4, <2>1, <2>2 DEF UnifyInv
<1>10. QED
  BY <1>7, <1>8, <1>9

LEMMA StepUnifyInv == UnifyInv /\ [Next]_vars => UnifyInv'
<1> SUFFICES ASSUME UnifyInv, [Next]_vars PROVE UnifyInv'
  OBVIOUS
<1>1. CASE SkipVariable
  BY <1>1, SkipVariableKeeps
<1>2. CASE BindLeft \/ BindRight
  BY <1>2, BindKeeps
<1>3. CASE MatchConstants
  BY <1>3, MatchConstantsKeeps
<1>4. CASE Descend
  BY <1>4, DescendKeeps
<1>5. CASE Fail \/ Succeed \/ UNCHANGED vars
  BY <1>5, EndKeeps
<1>6. QED
  BY <1>1, <1>2, <1>3, <1>4, <1>5 DEF Next

LEMMA InitUnifyInv ==
  ASSUME TasksArePacked, Init
  PROVE  UnifyInv
<1>1. task \in Task /\ verdict = IF task.ok THEN "running" ELSE "threw"
  BY DEF Init
<1>2. CASE ~task.ok
  BY <1>1, <1>2 DEF UnifyInv
<1>3. CASE task.ok
  <2>1. WellPacked(task)
    BY <1>1, <1>3 DEF TasksArePacked
  <2>2. PICK w : Shape(w)
    BY <2>1, PackedShape
  <2> DEFINE root == <<Ref("A", 0), Ref("B", 0)>>
  <2>3. stack = <<root>> /\ bind = [side \in Side |-> [i \in {} |-> Ref(side, 0)]]
    BY DEF Init
  <2>4. root \in Refs \X Refs
    <3>1. ASSUME NEW side \in Side PROVE Ref(side, 0) \in Refs
      <4>1. 0 \in DOMAIN task[side] /\ task[side][0].tag # "empty"
        BY <2>2 DEF Shape
      <4>2. QED
        BY <4>1 DEF Refs, Ref, Tag, SlotOf
    <3>2. QED
      BY <3>1 DEF Side
  <2>5. \A side \in Side : DOMAIN bind[side] = {}
    BY <2>3
  <2>6. BindOK
    BY <2>3, <2>5, FS_EmptySet DEF BindOK
  <2>7. TypesOK
    BY <2>1, <2>3, <2>4, <2>6 DEF TypesOK
  <2>8. Ranked
    <3>1. Links \in Nat
      BY <2>6, LinksType
    <3>2. [x \in Side \X VarIds |-> 0] \in [Side \X VarIds -> 0 .. Links]
      BY <3>1
    <3>3. \A T : Outranks(T)
      BY <2>5 DEF Outranks
    <3>4. QED
      BY <3>2, <3>3 DEF Ranked
  <2>9. ASSUME NEW v PROVE Equation(v) <=> Solves(v)
    <3>1. Obeys(v)
      BY <2>5 DEF Obeys
    <3>2. AllEqual(stack, v) <=> Equal(root, v)
      BY <2>3 DEF AllEqual
    <3>3. QED
      BY <3>1, <3>2 DEF Solves, Equation
  <2>10. Faithful
    BY <1>1, <1>3, <2>9 DEF Faithful
  <2>11. QED
    BY <1>1, <1>3, <2>7, <2>8, <2>10 DEF UnifyInv
<1>4. QED
  BY <1>2, <1>3

LEMMA UnifyInvHolds ==
  ASSUME TasksArePacked
  PROVE  Spec => []UnifyInv
<1>1. Init => UnifyInv
  BY InitUnifyInv
<1>2. QED
  BY <1>1, StepUnifyInv, PTL DEF Spec

(* unifyPacked's bindings mean what the equation of the two terms means,   *)
(* and what it refuses has no solution but where a kernel's stack was full,*)
(* for every pair of packed terms and whatever variables may stand for.    *)
THEOREM VerdictIsTheEquationHolds ==
  ASSUME TasksArePacked
  PROVE  Spec => []VerdictIsTheEquation
<1>1. UnifyInv => VerdictIsTheEquation
  <2> SUFFICES ASSUME UnifyInv PROVE VerdictIsTheEquation
    OBVIOUS
  <2>1. ASSUME verdict = "covered", NEW v \in Valuation PROVE Equation(v) <=> Obeys(v)
    <3>1. AllEqual(stack, v)
      BY <2>1 DEF UnifyInv, Faithful, AllEqual
    <3>2. QED
      BY <2>1, <3>1 DEF UnifyInv, Faithful, Solves
  <2>2. ASSUME verdict = "missed", ~StackIsFull PROVE \A v \in Valuation : ~Equation(v)
    BY <2>2 DEF UnifyInv, Faithful
  <2>3. QED
    BY <2>1, <2>2 DEF VerdictIsTheEquation
<1>2. QED
  BY <1>1, UnifyInvHolds, PTL

(* The loop in resolve ends: whenever a pair is taken, no more turns than  *)
(* there are bindings lead to a slot that is not a bound variable, so no   *)
(* variable is ever bound twice, though nothing checks for cycles.         *)
WalksEnd == HasPair => ~IsBound(Left) /\ ~IsBound(Right)

THEOREM WalksEndHolds ==
  ASSUME TasksArePacked
  PROVE  Spec => []WalksEnd
<1>1. UnifyInv => WalksEnd
  BY TopPair DEF UnifyInv, WalksEnd, HasPair
<1>2. QED
  BY <1>1, UnifyInvHolds, PTL

=============================================================================
