--------------------------- MODULE BatchOpsProofs ---------------------------
(***************************************************************************)
(* Theorems about BatchOps, for any calls, requests, holders, shaders and  *)
(* sizes: no buffer of the pool is in two places, and a call that returns  *)
(* has the mask of its own terms.  The second part needs sums: every byte  *)
(* the pool asked for is accounted for.  Its invariant counts the buffers  *)
(* the pool knows of, and a step moves one summand at a time.              *)
(***************************************************************************)
EXTENDS BatchOps, Induction, FiniteSetTheorems, SequenceTheorems, TLAPS

---------------------------------------------------------------------------
(* Numbers.                                                                *)

LEMMA MinIsLeast ==
  ASSUME NEW S \in SUBSET Nat, S # {}
  PROVE  Min(S) \in S /\ \A y \in S : Min(S) <= y
BY LeastExists DEF Min

LEMMA ProductType ==
  ASSUME NEW m \in Nat, NEW n \in Nat
  PROVE  m * n \in Nat
  OBVIOUS

(* Row and column of a pair in a mask.                                     *)
LEMMA RowAndColumn ==
  ASSUME NEW rows \in Nat, NEW columns \in Nat, NEW n \in 1 .. rows * columns
  PROVE  /\ (n - 1) \div columns + 1 \in 1 .. rows
         /\ ((n - 1) % columns) + 1 \in 1 .. columns
<1>1. columns > 0
  BY ProductType
<1> DEFINE q == (n - 1) \div columns
           m == (n - 1) % columns
<1>2. /\ n - 1 \in Nat /\ q \in Int /\ m \in 0 .. columns - 1
      /\ n - 1 = columns * q + m
  BY <1>1, ProductType
<1>3. n - 1 < rows * columns
  BY <1>2, ProductType
<1> HIDE DEF q, m
<1>4. q >= 0
  <2>1. ASSUME q <= -1 PROVE FALSE
    <3>1. columns * q <= -columns
      BY <1>1, <1>2, <2>1
    <3>2. QED
      BY <1>2, <3>1
  <2>2. QED
    BY <1>2, <2>1
<1>5. q < rows
  <2>1. ASSUME q >= rows PROVE FALSE
    <3>1. columns * q >= rows * columns
      BY <1>1, <1>2, <2>1
    <3>2. QED
      BY <1>2, <1>3, <3>1, ProductType
  <2>2. QED
    BY <1>2, <2>1
<1>6. QED
  BY <1>2, <1>4, <1>5 DEF q, m

(* The rounding, where it ends, ends at a bucket with room.                *)
LEMMA BucketHasRoom ==
  ASSUME NEW bytes \in Nat, BucketSize(bytes) # Never
  PROVE  BucketSize(bytes) \in Bucket /\ BucketSize(bytes) >= bytes
<1> DEFINE enough == {n \in 0 .. Width : Doubling[n] >= bytes}
<1>1. CASE bytes <= MinBucket
  BY <1>1, PoolAssumption DEF BucketSize, Bucket
<1>2. CASE ~(bytes <= MinBucket)
  <2>1. enough # {} /\ BucketSize(bytes) = Doubling[Min(enough)]
    BY <1>2 DEF BucketSize
  <2>2. enough \in SUBSET Nat
    OBVIOUS
  <2>3. Min(enough) \in enough
    BY <2>1, <2>2, MinIsLeast
  <2>4. QED
    BY <2>1, <2>3 DEF Bucket
<1>3. QED
  BY <1>1, <1>2

---------------------------------------------------------------------------
(* What is written into a buffer.                                          *)

Cell == BOOLEAN \cup [symbols : Client, term : Packable]

LEMMA RegionsType ==
  ASSUME NEW c \in Client, NEW terms \in Seq(Packable)
  PROVE  /\ Regions(c, terms) \in Seq(Cell)
         /\ Len(Regions(c, terms)) = Len(terms)
         /\ \A i \in 1 .. Len(terms) : Regions(c, terms)[i] = Region(c, terms[i])
<1>1. Len(terms) \in Nat /\ DOMAIN terms = 1 .. Len(terms) /\ \A i \in 1 .. Len(terms) : terms[i] \in Packable
  BY LenProperties, ElementOfSeq
<1>2. \A i \in 1 .. Len(terms) : Region(c, terms[i]) \in Cell
  BY <1>1 DEF Region, Cell
<1>3. Regions(c, terms) \in [1 .. Len(terms) -> Cell]
  BY <1>1, <1>2 DEF Regions
<1>4. QED
  BY <1>1, <1>3 DEF Regions

LEMMA CellsType ==
  ASSUME NEW op, NEW left \in Seq(Cell), NEW right \in Seq(Cell)
  PROVE  /\ Cells(op, left, right) \in Seq(Cell)
         /\ Len(Cells(op, left, right)) = Len(left) * Len(right)
<1>1. Len(left) * Len(right) \in Nat
  BY ProductType, LenProperties
<1>2. \A a, b : Holds(op, a, b) \in Cell
  BY DEF Holds, Cell
<1>3. Cells(op, left, right) \in [1 .. Len(left) * Len(right) -> Cell]
  BY <1>2 DEF Cells
<1>4. QED
  BY <1>1, <1>3

(* A recycled buffer shows the new terms, whatever is behind them.         *)
LEMMA OverwriteShows ==
  ASSUME NEW new \in Seq(Cell), NEW cells \in Seq(Cell)
  PROVE  /\ Overwrite(cells, new) \in Seq(Cell)
         /\ SubSeq(Overwrite(cells, new), 1, Len(new)) = new
<1> DEFINE rest == SubSeq(cells, Len(new) + 1, Len(cells))
<1>1. Len(new) \in Nat /\ Len(cells) \in Nat
  OBVIOUS
<1>2. rest \in Seq(Cell)
  BY <1>1, SubSeqProperties
<1> HIDE DEF rest
<1>3. /\ new \o rest \in Seq(Cell) /\ Len(new \o rest) = Len(new) + Len(rest)
      /\ \A i \in 1 .. Len(new) : (new \o rest)[i] = new[i]
      /\ Len(rest) \in Nat
  BY <1>1, <1>2, ConcatProperties
<1>4. /\ SubSeq(new \o rest, 1, Len(new)) \in Seq(Cell)
      /\ Len(SubSeq(new \o rest, 1, Len(new))) = Len(new)
      /\ \A i \in 1 .. Len(new) : SubSeq(new \o rest, 1, Len(new))[i] = (new \o rest)[i]
  BY <1>1, <1>3, SubSeqProperties
<1>5. SubSeq(new \o rest, 1, Len(new)) = new
  BY <1>3, <1>4, SeqEqual
<1>6. QED
  BY <1>3, <1>5 DEF Overwrite, rest

(* What was packed before the first term that does not fit.                *)
LEMMA PackedTermsType ==
  ASSUME NEW terms, terms \in Seq(Range(terms))
  PROVE  /\ PackedTerms(terms) \in Seq(Packable)
         /\ Fits(terms) => PackedTerms(terms) = terms
<1> DEFINE bad == {i \in 1 .. Len(terms) : terms[i] \notin Packable}
           n == IF bad # {} THEN Min(bad) ELSE 0
<1>1. PackedTerms(terms) = IF n = 0 THEN terms ELSE SubSeq(terms, 1, n - 1)
  BY DEF PackedTerms, SelectInSeq
<1>2. Len(terms) \in Nat /\ DOMAIN terms = 1 .. Len(terms)
  BY LenProperties
<1>3. CASE bad = {}
  <2>1. \A i \in 1 .. Len(terms) : terms[i] \in Packable
    BY <1>3
  <2>2. terms \in Seq(Packable)
    BY <1>2, <2>1
  <2>3. QED
    BY <1>1, <1>3, <2>2
<1>4. CASE bad # {}
  <2>1. n \in bad /\ \A i \in bad : n <= i
    <3>1. bad \in SUBSET Nat
      BY <1>2
    <3> HIDE DEF bad
    <3>2. QED
      BY <1>4, <3>1, MinIsLeast
  <2>2. n \in 1 .. Len(terms) /\ terms[n] \notin Packable
    BY <2>1
  <2>3. \A i \in 1 .. n - 1 : terms[i] \in Packable
    BY <1>2, <2>1, <2>2
  <2> HIDE DEF n
  <2>4. SubSeq(terms, 1, n - 1) \in Seq(Packable)
    BY <1>2, <2>2, <2>3
  <2>5. ~Fits(terms)
    BY <1>2, <2>2 DEF Fits, Range
  <2>6. QED
    BY <1>1, <2>2, <2>4, <2>5
<1>5. QED
  BY <1>3, <1>4

LEMMA FitsType ==
  ASSUME NEW terms, terms \in Seq(Range(terms)), Fits(terms)
  PROVE  terms \in Seq(Packable)
  BY PackedTermsType

---------------------------------------------------------------------------
(* Where buffers are: in a bin of the pool, or in a client's hands.        *)

Key == Mode \X Bucket

Binned(b, bins) == \E k \in Key : \E i \in 1 .. Len(bins[k]) : bins[k][i] = b

Held(b, hs) == \E c \in Client : \E i \in 1 .. Len(hs[c]) : hs[c][i] = b

BinsOK(bins, dev) ==
  /\ bins \in [Key -> Seq(DOMAIN dev)]
  /\ \A k, l \in Key : \A i \in 1 .. Len(bins[k]), j \in 1 .. Len(bins[l]) :
       bins[k][i] = bins[l][j] => k = l /\ i = j
  /\ \A k \in Key : \A i \in 1 .. Len(bins[k]) : dev[bins[k][i]].bytes = k[2]

HandsOK(hs, dev) ==
  /\ hs \in [Client -> Seq(DOMAIN dev)]
  /\ \A c, d \in Client : \A i \in 1 .. Len(hs[c]), j \in 1 .. Len(hs[d]) :
       hs[c][i] = hs[d][j] => c = d /\ i = j

Put(bins, k, b) == [bins EXCEPT ![k] = Append(@, b)]

Popped(bins, k) == [bins EXCEPT ![k] = Front(@)]

Given(hs, c, b) == [hs EXCEPT ![c] = Append(@, b)]

Emptied(hs, c) == [hs EXCEPT ![c] = <<>>]

LEMMA AppendOne ==
  ASSUME NEW S, NEW s \in Seq(S), NEW e \in S
  PROVE  /\ Append(s, e) \in Seq(S) /\ Len(s) \in Nat
         /\ Len(Append(s, e)) = Len(s) + 1 /\ Append(s, e)[Len(s) + 1] = e
         /\ \A i \in 1 .. Len(s) : Append(s, e)[i] = s[i]
         /\ \A i \in 1 .. Len(s) + 1 : i \in 1 .. Len(s) \/ i = Len(s) + 1
  BY AppendProperties

(* A buffer that is nowhere goes into the bin of its size.                 *)
LEMMA PutOK ==
  ASSUME NEW bins, NEW dev, BinsOK(bins, dev), NEW k \in Key,
         NEW b \in DOMAIN dev, dev[b].bytes = k[2], ~Binned(b, bins)
  PROVE  /\ BinsOK(Put(bins, k, b), dev)
         /\ \A x : Binned(x, Put(bins, k, b)) => Binned(x, bins) \/ x = b
<1> DEFINE n == Len(bins[k])
           new == Put(bins, k, b)
<1>1. /\ new[k] = Append(bins[k], b) /\ \A l \in Key \ {k} : new[l] = bins[l]
      /\ bins[k] \in Seq(DOMAIN dev) /\ n \in Nat
  BY DEF BinsOK, Put
<1>2. /\ new[k] \in Seq(DOMAIN dev) /\ Len(new[k]) = n + 1 /\ new[k][n + 1] = b
      /\ \A i \in 1 .. n : new[k][i] = bins[k][i]
      /\ \A i \in 1 .. n + 1 : i \in 1 .. n \/ i = n + 1
  <2> DEFINE s == bins[k]
  <2>1. s \in Seq(DOMAIN dev) /\ new[k] = Append(s, b)
    BY <1>1
  <2> HIDE DEF s
  <2>2. /\ Append(s, b) \in Seq(DOMAIN dev)
        /\ Len(Append(s, b)) = Len(s) + 1 /\ Append(s, b)[Len(s) + 1] = b
        /\ \A i \in 1 .. Len(s) : Append(s, b)[i] = s[i]
        /\ \A i \in 1 .. Len(s) + 1 : i \in 1 .. Len(s) \/ i = Len(s) + 1
    BY <2>1, AppendOne
  <2>3. QED
    BY <2>1, <2>2 DEF s
<1> HIDE DEF n, new
<1>3. \A l \in Key : \A i \in 1 .. Len(new[l]) :
        \/ l = k /\ i = n + 1 /\ new[l][i] = b
        \/ i \in 1 .. Len(bins[l]) /\ new[l][i] = bins[l][i] /\ ~(l = k /\ i = n + 1)
  BY <1>1, <1>2 DEF n
<1>4. \A l \in Key : \A i \in 1 .. Len(bins[l]) : bins[l][i] # b
  BY DEF Binned
<1>5. new \in [Key -> Seq(DOMAIN dev)]
  <2>1. Append(bins[k], b) \in Seq(DOMAIN dev)
    BY <1>1, <1>2
  <2>2. QED
    BY <2>1 DEF BinsOK, Put, new
<1>6. \A l, m \in Key : \A i \in 1 .. Len(new[l]), j \in 1 .. Len(new[m]) :
        new[l][i] = new[m][j] => l = m /\ i = j
  <2>1. \A l, m \in Key : \A i \in 1 .. Len(bins[l]), j \in 1 .. Len(bins[m]) :
          bins[l][i] = bins[m][j] => l = m /\ i = j
    BY DEF BinsOK
  <2>2. QED
    BY <1>3, <1>4, <2>1, SMTT(60)
<1>7. \A l \in Key : \A i \in 1 .. Len(new[l]) : dev[new[l][i]].bytes = l[2]
  BY <1>3 DEF BinsOK
<1>8. \A x : Binned(x, new) => Binned(x, bins) \/ x = b
  BY <1>3 DEF Binned
<1>9. QED
  BY <1>5, <1>6, <1>7, <1>8 DEF BinsOK, new

(* The last buffer of a bin leaves it.                                     *)
LEMMA PopOK ==
  ASSUME NEW bins, NEW dev, BinsOK(bins, dev), NEW k \in Key, bins[k] # <<>>
  PROVE  /\ BinsOK(Popped(bins, k), dev) /\ ~Binned(Last(bins[k]), Popped(bins, k))
         /\ \A x : Binned(x, Popped(bins, k)) => Binned(x, bins)
         /\ Binned(Last(bins[k]), bins)
         /\ Last(bins[k]) \in DOMAIN dev /\ dev[Last(bins[k])].bytes = k[2]
<1> DEFINE n == Len(bins[k])
           new == Popped(bins, k)
<1>1. /\ new[k] = SubSeq(bins[k], 1, n - 1) /\ \A l \in Key \ {k} : new[l] = bins[l]
      /\ bins[k] \in Seq(DOMAIN dev) /\ n \in Nat \ {0} /\ n \in 1 .. n
  BY EmptySeq DEF BinsOK, Front, Popped
<1>2. /\ new[k] \in Seq(DOMAIN dev) /\ Len(new[k]) = n - 1
      /\ \A i \in 1 .. n - 1 : new[k][i] = bins[k][i] /\ i \in 1 .. n /\ i # n
  BY <1>1, SubSeqProperties
<1> HIDE DEF n, new
<1>3. \A l \in Key : \A i \in 1 .. Len(new[l]) :
        i \in 1 .. Len(bins[l]) /\ new[l][i] = bins[l][i] /\ ~(l = k /\ i = n)
  BY <1>1, <1>2 DEF n
<1>4. Last(bins[k]) = bins[k][n] /\ n \in 1 .. Len(bins[k])
  BY <1>1 DEF Last, n
<1>5. new \in [Key -> Seq(DOMAIN dev)]
  BY <1>1, <1>2 DEF BinsOK, Popped, new
<1>6. BinsOK(new, dev)
  BY <1>3, <1>5 DEF BinsOK
<1>7. ~Binned(Last(bins[k]), new)
  BY <1>3, <1>4 DEF Binned, BinsOK
<1>8. \A x : Binned(x, new) => Binned(x, bins)
  BY <1>3 DEF Binned
<1>9. Binned(Last(bins[k]), bins)
  BY <1>4 DEF Binned
<1>10. Last(bins[k]) \in DOMAIN dev /\ dev[Last(bins[k])].bytes = k[2]
  BY <1>1, <1>4, ElementOfSeq DEF BinsOK
<1>11. QED
  BY <1>6, <1>7, <1>8, <1>9, <1>10 DEF new

LEMMA NoBuffersOK ==
  ASSUME NEW dev
  PROVE  BinsOK(NoBuffers, dev) /\ \A b : ~Binned(b, NoBuffers)
<1>1. \A k \in Key : NoBuffers[k] = <<>>
  BY DEF NoBuffers, Key
<1>2. \A k \in Key : NoBuffers[k] \in Seq(DOMAIN dev) /\ 1 .. Len(NoBuffers[k]) = {}
  <2>1. <<>> \in Seq(DOMAIN dev) /\ Len(<<>>) = 0
    BY EmptySeq
  <2>2. 1 .. 0 = {}
    OBVIOUS
  <2>3. QED
    BY <1>1, <2>1, <2>2
<1>3. NoBuffers \in [Key -> Seq(DOMAIN dev)]
  BY <1>2 DEF NoBuffers, Key
<1>4. QED
  BY <1>2, <1>3 DEF BinsOK, Binned

(* A client takes a buffer that nobody holds.                              *)
LEMMA TakeOK ==
  ASSUME NEW hs, NEW dev, HandsOK(hs, dev), NEW c \in Client, NEW b \in DOMAIN dev,
         ~Held(b, hs)
  PROVE  /\ HandsOK(Given(hs, c, b), dev)
         /\ \A x : Held(x, Given(hs, c, b)) => Held(x, hs) \/ x = b
<1> DEFINE n == Len(hs[c])
           new == Given(hs, c, b)
<1>1. /\ new[c] = Append(hs[c], b) /\ \A d \in Client \ {c} : new[d] = hs[d]
      /\ hs[c] \in Seq(DOMAIN dev) /\ n \in Nat
  BY DEF HandsOK, Given
<1>2. /\ new[c] \in Seq(DOMAIN dev) /\ Len(new[c]) = n + 1 /\ new[c][n + 1] = b
      /\ \A i \in 1 .. n : new[c][i] = hs[c][i]
      /\ \A i \in 1 .. n + 1 : i \in 1 .. n \/ i = n + 1
  <2> DEFINE s == hs[c]
  <2>1. s \in Seq(DOMAIN dev) /\ new[c] = Append(s, b)
    BY <1>1
  <2> HIDE DEF s
  <2>2. /\ Append(s, b) \in Seq(DOMAIN dev)
        /\ Len(Append(s, b)) = Len(s) + 1 /\ Append(s, b)[Len(s) + 1] = b
        /\ \A i \in 1 .. Len(s) : Append(s, b)[i] = s[i]
        /\ \A i \in 1 .. Len(s) + 1 : i \in 1 .. Len(s) \/ i = Len(s) + 1
    BY <2>1, AppendOne
  <2>3. QED
    BY <2>1, <2>2 DEF s
<1> HIDE DEF n, new
<1>3. \A d \in Client : \A i \in 1 .. Len(new[d]) :
        \/ d = c /\ i = n + 1 /\ new[d][i] = b
        \/ i \in 1 .. Len(hs[d]) /\ new[d][i] = hs[d][i] /\ ~(d = c /\ i = n + 1)
  BY <1>1, <1>2 DEF n
<1>4. \A d \in Client : \A i \in 1 .. Len(hs[d]) : hs[d][i] # b
  BY DEF Held
<1>5. new \in [Client -> Seq(DOMAIN dev)]
  <2>1. Append(hs[c], b) \in Seq(DOMAIN dev)
    BY <1>1, <1>2
  <2>2. QED
    BY <2>1 DEF HandsOK, Given, new
<1>6. \A d, e \in Client : \A i \in 1 .. Len(new[d]), j \in 1 .. Len(new[e]) :
        new[d][i] = new[e][j] => d = e /\ i = j
  <2>1. \A d, e \in Client : \A i \in 1 .. Len(hs[d]), j \in 1 .. Len(hs[e]) :
          hs[d][i] = hs[e][j] => d = e /\ i = j
    BY DEF HandsOK
  <2> SUFFICES ASSUME NEW d \in Client, NEW e \in Client, NEW i \in 1 .. Len(new[d]),
                      NEW j \in 1 .. Len(new[e]), new[d][i] = new[e][j]
               PROVE  d = e /\ i = j
    OBVIOUS
  <2>2. CASE d = c /\ i = n + 1 /\ new[d][i] = b
    BY <1>3, <1>4, <2>2
  <2>3. CASE i \in 1 .. Len(hs[d]) /\ new[d][i] = hs[d][i]
    <3>1. new[e][j] # b
      BY <1>4, <2>3
    <3>2. j \in 1 .. Len(hs[e]) /\ new[e][j] = hs[e][j]
      BY <1>3, <3>1
    <3>3. hs[d][i] = hs[e][j]
      BY <2>3, <3>2
    <3>4. QED
      BY <2>1, <2>3, <3>2, <3>3
  <2>4. QED
    BY <1>3, <2>2, <2>3
<1>7. \A x : Held(x, new) => Held(x, hs) \/ x = b
  BY <1>3 DEF Held
<1>8. QED
  BY <1>5, <1>6, <1>7 DEF HandsOK, new

(* A client lets go of all it holds.                                       *)
LEMMA DropOK ==
  ASSUME NEW hs, NEW dev, HandsOK(hs, dev), NEW c \in Client
  PROVE  /\ HandsOK(Emptied(hs, c), dev)
         /\ \A x : Held(x, Emptied(hs, c)) => Held(x, hs)
         /\ \A i \in 1 .. Len(hs[c]) : ~Held(hs[c][i], Emptied(hs, c))
<1> DEFINE new == Emptied(hs, c)
<1>1. new[c] = <<>> /\ 1 .. Len(new[c]) = {} /\ \A d \in Client \ {c} : new[d] = hs[d]
  BY EmptySeq DEF HandsOK, Emptied
<1>2. new \in [Client -> Seq(DOMAIN dev)]
  BY EmptySeq DEF HandsOK, Emptied
<1>3. \A d \in Client : \A i \in 1 .. Len(new[d]) :
        d # c /\ i \in 1 .. Len(hs[d]) /\ new[d][i] = hs[d][i]
  BY <1>1
<1>4. QED
  BY <1>2, <1>3 DEF HandsOK, Held

(* Other live buffers do not matter to those that are somewhere.           *)
LEMMA OtherDevice ==
  ASSUME NEW bins, NEW hs, NEW dev, NEW new, BinsOK(bins, dev), HandsOK(hs, dev),
         \A b \in DOMAIN dev : Binned(b, bins) \/ Held(b, hs) =>
           b \in DOMAIN new /\ new[b].bytes = dev[b].bytes
  PROVE  BinsOK(bins, new) /\ HandsOK(hs, new)
<1>1. \A k \in Key : \A i \in 1 .. Len(bins[k]) :
        bins[k][i] \in DOMAIN new /\ new[bins[k][i]].bytes = dev[bins[k][i]].bytes
  BY ElementOfSeq DEF BinsOK, Binned
<1>2. \A c \in Client : \A i \in 1 .. Len(hs[c]) : hs[c][i] \in DOMAIN new
  BY ElementOfSeq DEF HandsOK, Held
<1>3. bins \in [Key -> Seq(DOMAIN new)]
  <2>1. ASSUME NEW k \in Key PROVE bins[k] \in Seq(DOMAIN new)
    BY <1>1 DEF BinsOK
  <2>2. QED
    BY <2>1 DEF BinsOK
<1>4. hs \in [Client -> Seq(DOMAIN new)]
  <2>1. ASSUME NEW c \in Client PROVE hs[c] \in Seq(DOMAIN new)
    BY <1>2 DEF HandsOK
  <2>2. QED
    BY <2>1 DEF HandsOK
<1>5. QED
  BY <1>1, <1>3, <1>4 DEF BinsOK, HandsOK

---------------------------------------------------------------------------
(* The invariant of the buffers.                                           *)

(* Numbers that were never used are free; live buffers are records; and a  *)
(* buffer is in one bin, or in one hand, or nowhere.                       *)
BufferInv ==
  /\ made \in Nat /\ DOMAIN device \subseteq 1 .. made
  /\ device \in [DOMAIN device -> [bytes : Bucket \cup Nat, cells : Seq(Cell)]]
  /\ "bins" \in DOMAIN pool
  /\ BinsOK(pool.bins, device) /\ HandsOK(hands, device)
  /\ \A b \in DOMAIN device : Binned(b, pool.bins) => ~Held(b, hands)

(* How many buffers a client holds, by where it is.                        *)
HandsAt(where) ==
  IF where \in {"called", "importing", "idle", "returned"} THEN {0}
  ELSE IF where = "holding" THEN {1}
  ELSE IF where = "take" THEN {0, 1}
  ELSE IF where = "pack" THEN {1, 2}
  ELSE IF where = "mask" THEN {2}
  ELSE IF where \in {"run", "copy"} THEN {3}
  ELSE {0, 1, 2, 3}

ControlInv ==
  /\ request \in Requests
  /\ DOMAIN pc = Client
  /\ \A c \in Client : Len(hands[c]) \in HandsAt(pc[c])
  /\ \A c \in Call : pc[c] \notin {"idle", "holding"}
  /\ \A h \in Holder : pc[h] \in {"idle", "holding", "returned", "threw"}

(* What was taken from the pool has the size its bin had, which is the one *)
(* it will be given back to.                                               *)
RoomFor(c, i, size) ==
  IF c \in Holder THEN size = BucketSize(RegionBytes)
  ELSE IF i = 3 THEN size >= Pairs(c)
  ELSE size = BucketSize(Bytes(Side(c, i))) /\ size # Never

RoomInv ==
  \A c \in Client : \A i \in 1 .. Len(hands[c]) : RoomFor(c, i, device[hands[c][i]].bytes)

PlacesInv == ControlInv /\ BufferInv /\ RoomInv

LEMMA SideType ==
  ASSUME request \in Requests, NEW c \in Call, NEW n \in {1, 2}
  PROVE  /\ Side(c, n) \in Seq(Range(Side(c, n)))
         /\ Len(Side(c, n)) \in Nat
         /\ Bytes(Side(c, n)) \in Nat
         /\ Pairs(c) \in Nat
<1>1. \A m \in {1, 2} : Side(c, m) \in Seq(Range(Side(c, m)))
  BY RequestsAssumption DEF Side
<1>2. \A m \in {1, 2} : Len(Side(c, m)) \in Nat
  BY <1>1, LenProperties
<1>3. Bytes(Side(c, n)) \in Nat
  BY <1>2, ProductType, RegionAssumption DEF Bytes
<1>4. Pairs(c) \in Nat
  BY <1>2, ProductType DEF Pairs
<1>5. QED
  BY <1>1, <1>2, <1>3, <1>4

LEMMA HeldIsLive ==
  ASSUME BufferInv, NEW c \in Client, NEW i \in 1 .. Len(hands[c])
  PROVE  /\ hands[c][i] \in DOMAIN device /\ Held(hands[c][i], hands)
         /\ ~Binned(hands[c][i], pool.bins)
<1>1. hands[c] \in Seq(DOMAIN device)
  BY DEF BufferInv, HandsOK
<1>2. hands[c][i] \in DOMAIN device
  BY <1>1, ElementOfSeq
<1>3. QED
  BY <1>2 DEF BufferInv, Held

LEMMA HeldOnce ==
  ASSUME BufferInv, NEW c \in Client, NEW d \in Client, NEW i \in 1 .. Len(hands[c]),
         NEW j \in 1 .. Len(hands[d]), hands[c][i] = hands[d][j]
  PROVE  c = d /\ i = j
  BY DEF BufferInv, HandsOK

(* c takes one more buffer, of this size; the others stay as they are.     *)
Receives(c, size) ==
  \E b \in DOMAIN device' :
    /\ hands' = [hands EXCEPT ![c] = Append(@, b)]
    /\ device'[b].bytes = size
    /\ \A x \in DOMAIN device : x \in DOMAIN device' /\ device'[x] = device[x]

LEMMA TakeIdleOK ==
  ASSUME BufferInv, NEW c \in Client, NEW k \in Key, TakeIdle(c, k)
  PROVE  BufferInv' /\ Receives(c, k[2])
<1> DEFINE b == Last(pool.bins[k])
<1>1. /\ pool.bins[k] # <<>> /\ UNCHANGED <<device, made>>
      /\ hands' = [hands EXCEPT ![c] = Append(@, b)]
      /\ pool' = AfterHit(pool, k)
  BY DEF TakeIdle, IsHit, Recycled
<1>2. "bins" \in DOMAIN pool' /\ pool'.bins = Popped(pool.bins, k)
  BY <1>1 DEF AfterHit, BufferInv, Popped
<1>3. /\ BinsOK(pool'.bins, device) /\ ~Binned(b, pool'.bins)
      /\ \A x : Binned(x, pool'.bins) => Binned(x, pool.bins)
      /\ Binned(b, pool.bins) /\ b \in DOMAIN device /\ device[b].bytes = k[2]
  BY <1>1, <1>2, PopOK DEF BufferInv
<1> HIDE DEF b
<1>4. ~Held(b, hands)
  BY <1>3 DEF BufferInv
<1>5. HandsOK(hands', device) /\ \A x : Held(x, hands') => Held(x, hands) \/ x = b
  <2>1. HandsOK(hands, device)
    BY DEF BufferInv
  <2>2. hands' = Given(hands, c, b) /\ b \in DOMAIN device
    BY <1>1, <1>3 DEF Given
  <2>3. QED
    BY <1>4, <2>1, <2>2, TakeOK
<1>6. BufferInv'
  <2>1. BinsOK(pool.bins, device)' /\ HandsOK(hands, device)'
    BY <1>1, <1>3, <1>5
  <2>2. \A x \in DOMAIN device : Binned(x, pool'.bins) => ~Held(x, hands')
    BY <1>3, <1>5 DEF BufferInv
  <2>3. QED
    BY <1>1, <1>2, <2>1, <2>2 DEF BufferInv, Binned, Held
<1>7. Receives(c, k[2])
  BY <1>1, <1>3 DEF Receives
<1>8. QED
  BY <1>6, <1>7

LEMMA AllocOK ==
  ASSUME BufferInv, NEW c \in Client, NEW bytes \in Bucket \cup Nat, Alloc(c, bytes),
         "bins" \in DOMAIN pool', pool'.bins = pool.bins
  PROVE  BufferInv' /\ Receives(c, bytes)
<1> DEFINE b == made + 1
<1>1. /\ device' = [x \in DOMAIN device \cup {b} |->
           IF x = b THEN [bytes |-> bytes, cells |-> <<>>] ELSE device[x]]
      /\ made' = b /\ hands' = [hands EXCEPT ![c] = Append(@, b)]
  BY DEF Alloc
<1>2. made \in Nat /\ b \notin DOMAIN device /\ b \in Nat /\ DOMAIN device \subseteq 1 .. b
  BY DEF BufferInv
<1> HIDE DEF b
<1>3. /\ DOMAIN device' = DOMAIN device \cup {b}
      /\ device'[b] = [bytes |-> bytes, cells |-> <<>>]
      /\ \A x \in DOMAIN device : device'[x] = device[x]
  BY <1>1, <1>2
<1>4. BinsOK(pool.bins, device') /\ HandsOK(hands, device')
  <2>1. BinsOK(pool.bins, device) /\ HandsOK(hands, device)
    BY DEF BufferInv
  <2>2. \A x \in DOMAIN device : x \in DOMAIN device' /\ device'[x].bytes = device[x].bytes
    BY <1>3
  <2>3. QED
    BY <2>1, <2>2, OtherDevice, Zenon
<1>5. ~Held(b, hands) /\ ~Binned(b, pool.bins)
  BY <1>2, ElementOfSeq DEF BufferInv, Held, Binned, HandsOK, BinsOK
<1>6. HandsOK(hands', device') /\ \A x : Held(x, hands') => Held(x, hands) \/ x = b
  <2>1. hands' = Given(hands, c, b) /\ b \in DOMAIN device'
    BY <1>1, <1>3 DEF Given
  <2>2. QED
    BY <1>4, <1>5, <2>1, TakeOK
<1>7. device' \in [DOMAIN device' -> [bytes : Bucket \cup Nat, cells : Seq(Cell)]]
  BY <1>1, <1>3, EmptySeq DEF BufferInv
<1>8. BufferInv'
  <2>1. BinsOK(pool.bins, device)' /\ HandsOK(hands, device)'
    BY <1>4, <1>6
  <2>2. \A x \in DOMAIN device' : Binned(x, pool'.bins) => ~Held(x, hands')
    BY <1>3, <1>5, <1>6 DEF BufferInv
  <2>3. made' \in Nat /\ DOMAIN device' \subseteq 1 .. made'
    BY <1>1, <1>2, <1>3
  <2>4. QED
    BY <1>7, <2>1, <2>2, <2>3 DEF BufferInv, Binned, Held
<1>9. Receives(c, bytes)
  BY <1>1, <1>3 DEF Receives
<1>10. QED
  BY <1>8, <1>9

LEMMA TakeNewOK ==
  ASSUME BufferInv, NEW c \in Client, NEW k \in Key, TakeNew(c, k)
  PROVE  BufferInv' /\ Receives(c, k[2])
<1>1. Alloc(c, k[2]) /\ pool' = AfterMiss(pool, k)
  BY DEF TakeNew
<1>2. "bins" \in DOMAIN pool' /\ pool'.bins = pool.bins
  BY <1>1 DEF AfterMiss, BufferInv
<1>3. k[2] \in Bucket
  BY DEF Key
<1>4. QED
  BY <1>1, <1>2, <1>3, AllocOK

(* Writing to a buffer moves nothing.                                      *)
Writes(b, new) ==
  /\ DOMAIN device' = DOMAIN device
  /\ \A x \in DOMAIN device : device'[x].bytes = device[x].bytes
  /\ \A x \in DOMAIN device : device'[x].cells = IF x = b THEN new ELSE device[x].cells

LEMMA WriteOK ==
  ASSUME BufferInv, NEW b \in DOMAIN device, NEW new \in Seq(Cell),
         device' = [device EXCEPT ![b].cells = new]
  PROVE  /\ Writes(b, new)
         /\ device' \in [DOMAIN device' -> [bytes : Bucket \cup Nat, cells : Seq(Cell)]]
         /\ BinsOK(pool.bins, device') /\ HandsOK(hands, device')
<1>1. /\ DOMAIN device' = DOMAIN device
      /\ \A x \in DOMAIN device \ {b} : device'[x] = device[x]
      /\ device'[b] = [device[b] EXCEPT !.cells = new]
      /\ \A x \in DOMAIN device : device[x] \in [bytes : Bucket \cup Nat, cells : Seq(Cell)]
  BY DEF BufferInv
<1>2. /\ device'[b] \in [bytes : Bucket \cup Nat, cells : Seq(Cell)]
      /\ device'[b].bytes = device[b].bytes /\ device'[b].cells = new
  BY <1>1
<1>3. BinsOK(pool.bins, device') /\ HandsOK(hands, device')
  <2>1. BinsOK(pool.bins, device) /\ HandsOK(hands, device)
    BY DEF BufferInv
  <2>2. \A x \in DOMAIN device : x \in DOMAIN device' /\ device'[x].bytes = device[x].bytes
    BY <1>1, <1>2
  <2>3. QED
    BY <2>1, <2>2, OtherDevice, Zenon
<1>4. device' \in [DOMAIN device' -> [bytes : Bucket \cup Nat, cells : Seq(Cell)]]
  BY <1>1, <1>2 DEF BufferInv
<1>5. QED
  BY <1>1, <1>2, <1>3, <1>4 DEF Writes

---------------------------------------------------------------------------
(* The steps, one after the other.                                         *)

LEMMA MoveOK ==
  ASSUME ControlInv, NEW c \in Client, NEW where, Go(c, where), UNCHANGED request,
         Len(hands'[c]) \in HandsAt(where),
         \A d \in Client \ {c} : hands'[d] = hands[d],
         c \in Call => where \notin {"idle", "holding"},
         c \in Holder => where \in {"idle", "holding", "returned", "threw"}
  PROVE  ControlInv'
<1>1. /\ DOMAIN pc' = Client /\ pc'[c] = where
      /\ \A d \in Client \ {c} : pc'[d] = pc[d]
  BY DEF Go, ControlInv
<1>2. \A d \in Client : Len(hands'[d]) \in HandsAt(pc'[d])
  BY <1>1 DEF ControlInv
<1>3. \A d \in Client : /\ d \in Call => pc'[d] \notin {"idle", "holding"}
                        /\ d \in Holder => pc'[d] \in {"idle", "holding", "returned", "threw"}
  BY <1>1 DEF ControlInv
<1>4. QED
  BY <1>1, <1>2, <1>3 DEF ControlInv, Client

LEMMA RoomKept ==
  ASSUME PlacesInv, UNCHANGED <<request, hands>>,
         \A b \in DOMAIN device : b \in DOMAIN device' /\ device'[b].bytes = device[b].bytes
  PROVE  RoomInv'
<1>1. \A c \in Client : \A i \in 1 .. Len(hands[c]) :
        device'[hands[c][i]].bytes = device[hands[c][i]].bytes
  BY HeldIsLive DEF PlacesInv
<1>2. \A c \in Client : \A i \in 1 .. Len(hands'[c]) :
        RoomFor(c, i, device'[hands'[c][i]].bytes)
  BY <1>1 DEF RoomInv, PlacesInv
<1>3. QED
  BY <1>2 DEF RoomInv, RoomFor, Pairs, Side, Bytes

LEMMA ReceiveOK ==
  ASSUME PlacesInv, NEW c \in Client, NEW size, Receives(c, size), UNCHANGED request,
         RoomFor(c, Len(hands[c]) + 1, size)
  PROVE  /\ RoomInv' /\ Len(hands[c]) \in Nat /\ Len(hands'[c]) = Len(hands[c]) + 1
         /\ \A i \in 1 .. Len(hands[c]) : hands'[c][i] = hands[c][i]
         /\ \A d \in Client \ {c} : hands'[d] = hands[d]
         /\ \A b \in DOMAIN device : b \in DOMAIN device' /\ device'[b] = device[b]
<1>1. PICK b \in DOMAIN device' :
        /\ hands' = [hands EXCEPT ![c] = Append(@, b)] /\ device'[b].bytes = size
        /\ \A x \in DOMAIN device : x \in DOMAIN device' /\ device'[x] = device[x]
  BY DEF Receives
<1>2. /\ hands'[c] = Append(hands[c], b) /\ hands[c] \in Seq(DOMAIN device)
      /\ \A d \in Client \ {c} : hands'[d] = hands[d]
  BY <1>1 DEF PlacesInv, BufferInv, HandsOK
<1> DEFINE n == Len(hands[c])
<1>3. hands[c] \in Seq(DOMAIN device')
  BY <1>1, <1>2
<1>4. /\ n \in Nat /\ Len(hands'[c]) = n + 1 /\ hands'[c][n + 1] = b
      /\ \A i \in 1 .. n : hands'[c][i] = hands[c][i]
      /\ \A i \in 1 .. n + 1 : i \in 1 .. n \/ i = n + 1
  BY <1>2, <1>3, AppendOne
<1> HIDE DEF n
<1>5. ASSUME NEW d \in Client, NEW i \in 1 .. Len(hands'[d])
      PROVE  RoomFor(d, i, device'[hands'[d][i]].bytes)
  <2>1. CASE d = c /\ i = n + 1
    BY <1>1, <1>4, <2>1 DEF n
  <2>2. CASE ~(d = c /\ i = n + 1)
    <3>1. i \in 1 .. Len(hands[d]) /\ hands'[d][i] = hands[d][i]
      BY <1>2, <1>4, <1>5, <2>2 DEF n
    <3>2. device'[hands[d][i]] = device[hands[d][i]]
      BY <1>1, <3>1, HeldIsLive DEF PlacesInv
    <3>3. QED
      BY <3>1, <3>2 DEF PlacesInv, RoomInv
  <2>3. QED
    BY <2>1, <2>2
<1>6. RoomInv'
  BY <1>5 DEF RoomInv, RoomFor, Pairs, Side, Bytes
<1>7. QED
  BY <1>1, <1>2, <1>4, <1>6 DEF n

(* A buffer comes from the pool, of the size that is asked for.            *)
LEMMA TakeInv ==
  ASSUME PlacesInv, NEW c \in Call, Take(c)
  PROVE  /\ PlacesInv' /\ Len(hands[c]) \in {0, 1}
         /\ Receives(c, BucketSize(Bytes(NextSide(c))))
         /\ RoomFor(c, Len(hands[c]) + 1, BucketSize(Bytes(NextSide(c))))
<1> DEFINE n == Len(hands[c]) + 1
           k == BinOf(Bytes(NextSide(c)), "shared")
<1>1. /\ pc[c] = "take" /\ k[2] # Never /\ (TakeIdle(c, k) \/ TakeNew(c, k))
      /\ Go(c, "pack") /\ UNCHANGED request
  BY DEF Take, Runs, platform
<1>2. c \in Client /\ c \notin Holder
  BY ClientAssumption DEF Client
<1>3. Len(hands[c]) \in {0, 1}
  BY <1>1, <1>2 DEF PlacesInv, ControlInv, HandsAt
<1>4. n \in {1, 2} /\ NextSide(c) = Side(c, n)
  <2>1. n \in {1, 2}
    <3>1. \A x \in {0, 1} : x + 1 \in {1, 2}
      OBVIOUS
    <3>2. QED
      BY <1>3, <3>1, Zenon
  <2>2. QED
    BY <2>1 DEF NextSide
<1>5. Bytes(Side(c, n)) \in Nat
  BY <1>4, SideType DEF PlacesInv, ControlInv
<1>6. /\ k = <<"shared", BucketSize(Bytes(Side(c, n)))>> /\ k \in Key
      /\ k[2] = BucketSize(Bytes(Side(c, n)))
  BY <1>1, <1>4, <1>5, BucketHasRoom DEF BinOf, Key, Mode
<1>7. BufferInv' /\ Receives(c, k[2])
  BY <1>1, <1>2, <1>6, TakeIdleOK, TakeNewOK DEF PlacesInv
<1>8. RoomFor(c, n, k[2])
  BY <1>1, <1>2, <1>4, <1>6 DEF RoomFor
<1> HIDE DEF k
<1>9. /\ RoomInv' /\ Len(hands'[c]) = n
      /\ \A d \in Client \ {c} : hands'[d] = hands[d]
  BY <1>1, <1>2, <1>7, <1>8, ReceiveOK
<1>10. ControlInv'
  BY <1>1, <1>2, <1>4, <1>9, MoveOK DEF PlacesInv, HandsAt
<1>11. QED
  BY <1>3, <1>4, <1>6, <1>7, <1>8, <1>9, <1>10 DEF PlacesInv

LEMMA BorrowInv ==
  ASSUME PlacesInv, NEW h \in Holder, Borrow(h)
  PROVE  PlacesInv' /\ Receives(h, BucketSize(RegionBytes))
<1> DEFINE k == BinOf(RegionBytes, "shared")
<1>1. /\ pc[h] = "idle" /\ (TakeIdle(h, k) \/ TakeNew(h, k))
      /\ Go(h, "holding") /\ UNCHANGED request
  BY DEF Borrow, platform
<1>2. h \in Client /\ h \notin Call
  BY ClientAssumption DEF Client
<1>3. Len(hands[h]) = 0
  BY <1>1, <1>2 DEF PlacesInv, ControlInv, HandsAt
<1>4. k \in Key /\ k[2] = BucketSize(RegionBytes)
  BY RegionAssumption, BucketHasRoom DEF BinOf, Key, Mode
<1>5. BufferInv' /\ Receives(h, k[2])
  BY <1>1, <1>2, <1>4, TakeIdleOK, TakeNewOK DEF PlacesInv
<1>6. RoomFor(h, Len(hands[h]) + 1, k[2])
  BY <1>4 DEF RoomFor
<1> HIDE DEF k
<1>7. /\ RoomInv' /\ Len(hands'[h]) = 1
      /\ \A d \in Client \ {h} : hands'[d] = hands[d]
  <2>1. /\ RoomInv' /\ Len(hands'[h]) = Len(hands[h]) + 1
        /\ \A d \in Client \ {h} : hands'[d] = hands[d]
    BY <1>1, <1>2, <1>5, <1>6, ReceiveOK
  <2>2. QED
    BY <1>3, <2>1
<1>8. ControlInv'
  BY <1>1, <1>2, <1>7, MoveOK DEF PlacesInv, HandsAt
<1>9. QED
  BY <1>4, <1>5, <1>7, <1>8 DEF PlacesInv

LEMMA BorrowRefusedInv ==
  ASSUME PlacesInv, NEW h \in Holder, BorrowRefused(h)
  PROVE  PlacesInv' /\ UNCHANGED <<request, metal, mask, hands, device>>
<1>1. /\ UNCHANGED <<request, metal, mask, hands, device, made>> /\ Go(h, "threw")
      /\ "bins" \in DOMAIN pool' /\ pool'.bins = pool.bins
  BY DEF BorrowRefused, RefusedNew, AfterMiss, platform, PlacesInv, BufferInv
<1>2. h \in Client /\ h \notin Call
  BY ClientAssumption DEF Client
<1>3. BufferInv'
  <2>1. BinsOK(pool.bins, device)' /\ HandsOK(hands, device)'
    BY <1>1 DEF PlacesInv, BufferInv
  <2>2. QED
    BY <1>1, <2>1 DEF PlacesInv, BufferInv, Binned, Held
<1>4. RoomInv'
  BY <1>1, RoomKept
<1>5. ControlInv'
  <2>1. Len(hands[h]) \in HandsAt("threw")
    BY <1>2 DEF PlacesInv, ControlInv, HandsAt
  <2>2. QED
    BY <1>1, <1>2, <2>1, MoveOK DEF PlacesInv
<1>6. QED
  BY <1>1, <1>3, <1>4, <1>5 DEF PlacesInv

(* The mask's buffer comes from the device.                                *)
LEMMA TakeMaskInv ==
  ASSUME PlacesInv, NEW c \in Call, TakeMask(c)
  PROVE  /\ PlacesInv'
         /\ \A b \in DOMAIN device : b \in DOMAIN device' /\ device'[b] = device[b]
         /\ \A i \in {1, 2} : hands'[c][i] = hands[c][i]
         /\ \A d \in Client \ {c} : hands'[d] = hands[d]
<1>1. pc[c] = "mask" /\ UNCHANGED <<request, pool>>
  BY DEF TakeMask, Runs, platform
<1>2. c \in Client /\ c \notin Holder
  BY ClientAssumption DEF Client
<1>3. Len(hands[c]) = 2
  BY <1>1, <1>2 DEF PlacesInv, ControlInv, HandsAt
<1>4. Pairs(c) \in Nat
  BY SideType DEF PlacesInv, ControlInv
<1>5. CASE HasMemory(MaskBytes(c))
  <2>1. Alloc(c, MaskBytes(c)) /\ Go(c, "run")
    BY <1>5 DEF TakeMask
  <2>2. MaskBytes(c) \in Nat /\ MaskBytes(c) >= Pairs(c)
    BY <1>4, RegionAssumption DEF MaskBytes
  <2>3. BufferInv' /\ Receives(c, MaskBytes(c))
    BY <1>1, <1>2, <2>1, <2>2, AllocOK DEF PlacesInv, BufferInv
  <2>4. RoomFor(c, Len(hands[c]) + 1, MaskBytes(c))
    BY <1>2, <1>3, <2>2 DEF RoomFor
  <2>5. /\ RoomInv' /\ Len(hands'[c]) = 3
        /\ \A i \in 1 .. 2 : hands'[c][i] = hands[c][i]
        /\ \A d \in Client \ {c} : hands'[d] = hands[d]
        /\ \A b \in DOMAIN device : b \in DOMAIN device' /\ device'[b] = device[b]
    <3>1. /\ RoomInv' /\ Len(hands'[c]) = Len(hands[c]) + 1
          /\ \A i \in 1 .. Len(hands[c]) : hands'[c][i] = hands[c][i]
          /\ \A d \in Client \ {c} : hands'[d] = hands[d]
          /\ \A b \in DOMAIN device : b \in DOMAIN device' /\ device'[b] = device[b]
      BY <1>1, <1>2, <2>3, <2>4, ReceiveOK
    <3>2. QED
      BY <1>3, <3>1
  <2>6. ControlInv'
    BY <1>1, <1>2, <2>1, <2>5, MoveOK DEF PlacesInv, HandsAt
  <2>7. QED
    BY <2>3, <2>5, <2>6 DEF PlacesInv
<1>6. CASE ~HasMemory(MaskBytes(c))
  <2>1. Go(c, "threw") /\ UNCHANGED <<device, made, hands>>
    BY <1>6 DEF TakeMask, Throw
  <2>2. BufferInv' /\ RoomInv'
    BY <1>1, <2>1, RoomKept DEF PlacesInv, BufferInv, Binned, Held
  <2>3. ControlInv'
    BY <1>1, <1>2, <1>3, <2>1, MoveOK DEF PlacesInv, HandsAt
  <2>4. QED
    BY <2>1, <2>2, <2>3 DEF PlacesInv
<1>7. QED
  BY <1>5, <1>6

LEMMA WriteKeepsPlaces ==
  ASSUME PlacesInv, NEW b \in DOMAIN device, NEW new \in Seq(Cell),
         device' = [device EXCEPT ![b].cells = new],
         UNCHANGED <<request, hands, pool, made>>
  PROVE  BufferInv' /\ RoomInv' /\ Writes(b, new)
<1>1. /\ Writes(b, new)
      /\ device' \in [DOMAIN device' -> [bytes : Bucket \cup Nat, cells : Seq(Cell)]]
      /\ BinsOK(pool.bins, device') /\ HandsOK(hands, device')
  BY WriteOK DEF PlacesInv
<1>2. BufferInv'
  <2>1. BinsOK(pool.bins, device)' /\ HandsOK(hands, device)'
    BY <1>1
  <2>2. \A x \in DOMAIN device' : Binned(x, pool'.bins) => ~Held(x, hands')
    BY <1>1 DEF PlacesInv, BufferInv, Writes
  <2>3. made' \in Nat /\ DOMAIN device' \subseteq 1 .. made' /\ "bins" \in DOMAIN pool'
    BY <1>1 DEF PlacesInv, BufferInv, Writes
  <2>4. QED
    BY <1>1, <2>1, <2>2, <2>3 DEF BufferInv, Binned, Held
<1>3. RoomInv'
  BY <1>1, RoomKept DEF Writes
<1>4. QED
  BY <1>1, <1>2, <1>3

LEMMA PackInv ==
  ASSUME PlacesInv, NEW c \in Call, Pack(c)
  PROVE  /\ PlacesInv' /\ hands' = hands /\ Len(hands[c]) \in {1, 2}
         /\ ThisSide(c) = Side(c, Len(hands[c]))
         /\ LET b == hands[c][Len(hands[c])] IN
              Writes(b, Overwrite(device[b].cells, Regions(c, PackedTerms(ThisSide(c)))))
<1> DEFINE n == Len(hands[c])
           b == hands[c][n]
           new == Overwrite(device[b].cells, Regions(c, PackedTerms(ThisSide(c))))
<1>1. /\ pc[c] = "pack" /\ UNCHANGED <<request, hands, pool, made>>
      /\ device' = [device EXCEPT ![b].cells = new]
  BY DEF Pack, Runs, platform, Last
<1>2. c \in Client /\ c \notin Holder
  BY ClientAssumption DEF Client
<1>3. n \in {1, 2}
  BY <1>1, <1>2 DEF PlacesInv, ControlInv, HandsAt
<1>4. b \in DOMAIN device /\ device[b].cells \in Seq(Cell)
  <2>1. n \in 1 .. n
    BY <1>3
  <2>2. b \in DOMAIN device
    BY <1>2, <2>1, HeldIsLive DEF PlacesInv
  <2>3. QED
    BY <2>2 DEF PlacesInv, BufferInv
<1>5. ThisSide(c) = Side(c, n) /\ ThisSide(c) \in Seq(Range(ThisSide(c)))
  BY <1>3, SideType DEF ThisSide, PlacesInv, ControlInv
<1>6. new \in Seq(Cell)
  <2>1. PackedTerms(ThisSide(c)) \in Seq(Packable)
    BY <1>5, PackedTermsType
  <2>2. Regions(c, PackedTerms(ThisSide(c))) \in Seq(Cell)
    BY <1>2, <2>1, RegionsType
  <2>3. QED
    BY <1>4, <2>2, OverwriteShows
<1> HIDE DEF b, new
<1>7. BufferInv' /\ RoomInv' /\ Writes(b, new)
  BY <1>1, <1>4, <1>6, WriteKeepsPlaces
<1>8. ControlInv'
  <2>1. CASE Fits(ThisSide(c)) /\ n = 1
    BY <1>1, <1>2, <2>1, MoveOK DEF Pack, PlacesInv, HandsAt
  <2>2. CASE Fits(ThisSide(c)) /\ n = 2
    BY <1>1, <1>2, <2>2, MoveOK DEF Pack, PlacesInv, HandsAt
  <2>3. CASE ~Fits(ThisSide(c))
    <3>1. Go(c, "threw")
      BY <2>3 DEF Pack, Throw
    <3>2. Len(hands'[c]) \in HandsAt("threw")
      BY <1>1, <1>3 DEF HandsAt
    <3>3. QED
      BY <1>1, <1>2, <3>1, <3>2, MoveOK DEF PlacesInv
  <2>4. QED
    BY <1>3, <2>1, <2>2, <2>3
<1>9. QED
  BY <1>1, <1>3, <1>5, <1>7, <1>8 DEF PlacesInv, b, new

(* How many sides a call has packed, and what it packed: its own terms, in *)
(* front of whatever the buffer held before.                               *)
Packed(c) ==
  IF pc[c] = "take" THEN Len(hands[c])
  ELSE IF pc[c] = "pack" THEN Len(hands[c]) - 1
  ELSE IF pc[c] \in {"mask", "run", "copy"} THEN 2 ELSE 0

ReadRegions(c, n) == SubSeq(device[hands[c][n]].cells, 1, Len(Side(c, n)))

PackedInv ==
  \A c \in Call : \A n \in 1 .. Packed(c) :
    Fits(Side(c, n)) /\ ReadRegions(c, n) = Regions(c, Side(c, n))

LEMMA PackedSides ==
  ASSUME PackedInv, request \in Requests, NEW c \in Call, pc[c] \in {"mask", "run", "copy"},
         NEW n \in {1, 2}
  PROVE  /\ Fits(Side(c, n)) /\ ReadRegions(c, n) = Regions(c, Side(c, n))
         /\ Regions(c, Side(c, n)) \in Seq(Cell)
         /\ Len(Regions(c, Side(c, n))) = Len(Side(c, n))
<1>1. n \in 1 .. Packed(c)
  BY DEF Packed
<1>2. Fits(Side(c, n)) /\ ReadRegions(c, n) = Regions(c, Side(c, n))
  BY <1>1 DEF PackedInv
<1>3. Side(c, n) \in Seq(Packable)
  BY <1>2, SideType, FitsType
<1>4. QED
  BY <1>2, <1>3, RegionsType DEF Client

LEMMA RunKernelInv ==
  ASSUME PlacesInv, PackedInv, NEW c \in Call, RunKernel(c)
  PROVE  /\ PlacesInv' /\ hands' = hands /\ Len(hands[c]) = 3
         /\ Writes(hands[c][3],
                   Cells(request[c].op, Regions(c, Side(c, 1)), Regions(c, Side(c, 2))))
<1> DEFINE b == hands[c][3]
           new == Cells(request[c].op, Regions(c, Side(c, 1)), Regions(c, Side(c, 2)))
<1>1. /\ pc[c] = "run" /\ UNCHANGED <<request, hands, pool, made>> /\ Go(c, "copy")
      /\ device' = [device EXCEPT ![b].cells =
           Cells(request[c].op, ReadRegions(c, 1), ReadRegions(c, 2))]
  BY DEF RunKernel, Runs, platform, ReadRegions
<1>2. c \in Client /\ c \notin Holder
  BY ClientAssumption DEF Client
<1>3. Len(hands[c]) = 3
  BY <1>1, <1>2 DEF PlacesInv, ControlInv, HandsAt
<1>4. b \in DOMAIN device
  BY <1>2, <1>3, HeldIsLive DEF PlacesInv
<1>5. /\ ReadRegions(c, 1) = Regions(c, Side(c, 1)) /\ Regions(c, Side(c, 1)) \in Seq(Cell)
      /\ ReadRegions(c, 2) = Regions(c, Side(c, 2)) /\ Regions(c, Side(c, 2)) \in Seq(Cell)
  BY <1>1, PackedSides DEF PlacesInv, ControlInv
<1>6. new \in Seq(Cell) /\ device' = [device EXCEPT ![b].cells = new]
  BY <1>1, <1>5, CellsType
<1> HIDE DEF b, new
<1>7. BufferInv' /\ RoomInv' /\ Writes(b, new)
  BY <1>1, <1>4, <1>6, WriteKeepsPlaces
<1>8. ControlInv'
  BY <1>1, <1>2, <1>3, MoveOK DEF PlacesInv, HandsAt
<1>9. QED
  BY <1>1, <1>3, <1>7, <1>8 DEF PlacesInv, b, new

LEMMA PoolFreeBins ==
  ASSUME NEW p, NEW b, NEW bytes, NEW mode, "bins" \in DOMAIN p
  PROVE  /\ "bins" \in DOMAIN PoolFree(p, b, bytes, mode)
         /\ PoolFree(p, b, bytes, mode).bins = Put(p.bins, BinOf(bytes, mode), b)
  BY DEF PoolFree, Put

SideBin(c, n) == BinOf(Bytes(Side(c, n)), "shared")

OneBack(c) == Put(pool.bins, SideBin(c, 1), hands[c][1])

BothBack(c) == Put(OneBack(c), SideBin(c, 2), hands[c][2])

(* Both sides go back to the bins they came from, and the mask's buffer to *)
(* the device.                                                             *)
LEMMA FinishMoves ==
  ASSUME PlacesInv, NEW c \in Call, Finish(c)
  PROVE  /\ Len(hands[c]) = 3
         /\ \A i \in 1 .. 3 : hands[c][i] \in DOMAIN device /\ ~Binned(hands[c][i], pool.bins)
         /\ hands[c][1] # hands[c][2] /\ hands[c][1] # hands[c][3] /\ hands[c][2] # hands[c][3]
         /\ \A n \in {1, 2} : SideBin(c, n) \in Key /\ device[hands[c][n]].bytes = SideBin(c, n)[2]
         /\ "bins" \in DOMAIN pool' /\ pool'.bins = BothBack(c)
         /\ BinsOK(OneBack(c), device) /\ ~Binned(hands[c][2], OneBack(c))
         /\ BinsOK(BothBack(c), device) /\ ~Binned(hands[c][3], BothBack(c))
         /\ \A x : Binned(x, BothBack(c)) => Binned(x, pool.bins) \/ x \in {hands[c][1], hands[c][2]}
         /\ hands' = Emptied(hands, c)
         /\ DOMAIN device' = DOMAIN device \ {hands[c][3]}
         /\ \A x \in DOMAIN device \ {hands[c][3]} : device'[x] = device[x]
<1> DEFINE b1 == hands[c][1]
           b2 == hands[c][2]
           b3 == hands[c][3]
           k1 == SideBin(c, 1)
           k2 == SideBin(c, 2)
<1>1. /\ pc[c] = "copy" /\ pool' = ReleaseSides(c) /\ hands' = Emptied(hands, c)
      /\ device' = [b \in DOMAIN device \ {b3} |-> device[b]]
  BY DEF Finish, Runs, Emptied
<1>2. c \in Client /\ c \notin Holder
  BY ClientAssumption DEF Client
<1>3. Len(hands[c]) = 3
  BY <1>1, <1>2 DEF PlacesInv, ControlInv, HandsAt
<1>4. \A i \in 1 .. 3 : hands[c][i] \in DOMAIN device /\ ~Binned(hands[c][i], pool.bins)
  BY <1>2, <1>3, HeldIsLive DEF PlacesInv
<1>5. b1 # b2 /\ b1 # b3 /\ b2 # b3
  <2>1. 1 \in 1 .. Len(hands[c]) /\ 2 \in 1 .. Len(hands[c]) /\ 3 \in 1 .. Len(hands[c])
    BY <1>3
  <2>2. b1 # b2
    BY <1>2, <2>1, HeldOnce DEF PlacesInv
  <2>3. b1 # b3
    BY <1>2, <2>1, HeldOnce DEF PlacesInv
  <2>4. b2 # b3
    BY <1>2, <2>1, HeldOnce DEF PlacesInv
  <2>5. QED
    BY <2>2, <2>3, <2>4
<1>6. \A n \in {1, 2} : device[hands[c][n]].bytes = SideBin(c, n)[2] /\ SideBin(c, n)[2] # Never
  BY <1>2, <1>3 DEF PlacesInv, RoomInv, RoomFor, SideBin, BinOf
<1>7. \A n \in {1, 2} : SideBin(c, n) \in Key
  <2>1. \A n \in {1, 2} : Bytes(Side(c, n)) \in Nat
    BY SideType DEF PlacesInv, ControlInv
  <2>2. QED
    BY <1>6, <2>1, BucketHasRoom DEF SideBin, BinOf, Key, Mode
<1>8. "bins" \in DOMAIN pool' /\ pool'.bins = BothBack(c)
  BY <1>1, PoolFreeBins DEF ReleaseSides, PlacesInv, BufferInv, BothBack, OneBack, SideBin
<1>9. /\ b1 \in DOMAIN device /\ ~Binned(b1, pool.bins) /\ device[b1].bytes = k1[2] /\ k1 \in Key
      /\ b2 \in DOMAIN device /\ ~Binned(b2, pool.bins) /\ device[b2].bytes = k2[2] /\ k2 \in Key
      /\ ~Binned(b3, pool.bins)
      /\ OneBack(c) = Put(pool.bins, k1, b1) /\ BothBack(c) = Put(OneBack(c), k2, b2)
  BY <1>4, <1>6, <1>7 DEF OneBack, BothBack
<1> HIDE DEF b1, b2, b3, k1, k2
<1>10. BinsOK(OneBack(c), device) /\ \A x : Binned(x, OneBack(c)) => Binned(x, pool.bins) \/ x = b1
  BY <1>9, PutOK DEF PlacesInv, BufferInv
<1>11. ~Binned(b2, OneBack(c))
  BY <1>5, <1>9, <1>10
<1>12. /\ BinsOK(BothBack(c), device)
       /\ \A x : Binned(x, BothBack(c)) => Binned(x, OneBack(c)) \/ x = b2
  BY <1>9, <1>10, <1>11, PutOK
<1>13. ~Binned(b3, BothBack(c))
  BY <1>5, <1>9, <1>10, <1>12
<1>14. /\ DOMAIN device' = DOMAIN device \ {b3}
       /\ \A x \in DOMAIN device \ {b3} : device'[x] = device[x]
  BY <1>1
<1>15. QED
  BY <1>1, <1>3, <1>4, <1>5, <1>6, <1>7, <1>8, <1>10, <1>11, <1>12, <1>13, <1>14 DEF b1, b2, b3

LEMMA FinishInv ==
  ASSUME PlacesInv, NEW c \in Call, Finish(c)
  PROVE  /\ PlacesInv' /\ \A d \in Client \ {c} : hands'[d] = hands[d]
         /\ \A d \in Client \ {c} : \A i \in 1 .. Len(hands[d]) :
              device'[hands[d][i]] = device[hands[d][i]]
<1> DEFINE b3 == hands[c][3]
           bins == BothBack(c)
<1>1. UNCHANGED <<request, made>> /\ Go(c, "returned")
  BY DEF Finish, platform
<1>2. c \in Client /\ c \notin Holder
  BY ClientAssumption DEF Client
<1>3. /\ Len(hands[c]) = 3 /\ hands' = Emptied(hands, c)
      /\ "bins" \in DOMAIN pool' /\ pool'.bins = bins
      /\ BinsOK(bins, device) /\ ~Binned(b3, bins)
      /\ \A x : Binned(x, bins) => Binned(x, pool.bins) \/ x \in {hands[c][1], hands[c][2]}
      /\ DOMAIN device' = DOMAIN device \ {b3}
      /\ \A x \in DOMAIN device \ {b3} : device'[x] = device[x]
  BY FinishMoves
<1> HIDE DEF b3, bins
<1>4. /\ HandsOK(hands', device) /\ \A x : Held(x, hands') => Held(x, hands)
      /\ ~Held(hands[c][1], hands') /\ ~Held(hands[c][2], hands') /\ ~Held(b3, hands')
  <2>1. HandsOK(hands, device)
    BY DEF PlacesInv, BufferInv
  <2>2. /\ HandsOK(hands', device) /\ \A x : Held(x, hands') => Held(x, hands)
        /\ \A i \in 1 .. Len(hands[c]) : ~Held(hands[c][i], hands')
    BY <1>2, <1>3, <2>1, DropOK
  <2>3. QED
    BY <1>3, <2>2 DEF b3
<1>5. BinsOK(bins, device') /\ HandsOK(hands', device')
  <2>1. \A x \in DOMAIN device : Binned(x, bins) \/ Held(x, hands') =>
          x \in DOMAIN device' /\ device'[x].bytes = device[x].bytes
    BY <1>3, <1>4
  <2>2. BinsOK(bins, device) /\ HandsOK(hands', device)
    BY <1>3, <1>4
  <2>3. QED
    BY <2>1, <2>2, OtherDevice, Zenon
<1>6. \A x \in DOMAIN device' : Binned(x, bins) => ~Held(x, hands')
  BY <1>3, <1>4 DEF PlacesInv, BufferInv
<1>7. BufferInv'
  <2>1. BinsOK(pool.bins, device)' /\ HandsOK(hands, device)'
    BY <1>3, <1>5
  <2>2. made' \in Nat /\ DOMAIN device' \subseteq 1 .. made'
    BY <1>1, <1>3 DEF PlacesInv, BufferInv
  <2>3. device' \in [DOMAIN device' -> [bytes : Bucket \cup Nat, cells : Seq(Cell)]]
    <3>1. device' = [b \in DOMAIN device \ {b3} |-> device[b]]
      BY DEF Finish, b3
    <3>2. QED
      BY <1>3, <3>1 DEF PlacesInv, BufferInv
  <2>4. QED
    BY <1>3, <1>6, <2>1, <2>2, <2>3 DEF BufferInv, Binned, Held
<1>8. /\ hands'[c] = <<>> /\ Len(hands'[c]) = 0 /\ 1 .. Len(hands'[c]) = {}
      /\ \A d \in Client \ {c} : hands'[d] = hands[d]
  BY <1>2, <1>3, EmptySeq DEF Emptied, PlacesInv, BufferInv, HandsOK
<1>9. ASSUME NEW d \in Client \ {c}, NEW i \in 1 .. Len(hands[d])
      PROVE  device'[hands[d][i]] = device[hands[d][i]]
  <2>1. hands[d][i] \in DOMAIN device /\ hands[d][i] # b3
    <3>1. 3 \in 1 .. Len(hands[c])
      BY <1>3
    <3>2. hands[d][i] # hands[c][3]
      BY <1>2, <3>1, HeldOnce DEF PlacesInv
    <3>3. QED
      BY <3>2, HeldIsLive DEF b3, PlacesInv
  <2>2. QED
    BY <1>3, <2>1
<1>10. RoomInv'
  <2>1. \A d \in Client : \A i \in 1 .. Len(hands'[d]) :
          RoomFor(d, i, device'[hands'[d][i]].bytes)
    BY <1>8, <1>9 DEF PlacesInv, RoomInv
  <2>2. QED
    BY <1>1, <2>1 DEF RoomInv, RoomFor, Pairs, Side, Bytes
<1>11. ControlInv'
  BY <1>1, <1>2, <1>8, MoveOK DEF PlacesInv, HandsAt
<1>12. QED
  BY <1>7, <1>8, <1>9, <1>10, <1>11 DEF PlacesInv

(* What a holder took goes back with what it wrote.                        *)
LEMMA GiveBackInv ==
  ASSUME PlacesInv, NEW h \in Holder, NEW t \in Packable, GiveBack(h, t)
  PROVE  /\ PlacesInv' /\ \A d \in Client \ {h} : hands'[d] = hands[d]
         /\ Writes(hands[h][1], Overwrite(device[hands[h][1]].cells, <<Region(h, t)>>))
<1> DEFINE b == hands[h][1]
           new == Overwrite(device[b].cells, <<Region(h, t)>>)
           k == BinOf(RegionBytes, "shared")
           bins == Put(pool.bins, k, b)
<1>1. /\ pc[h] = "holding" /\ UNCHANGED <<request, made>> /\ Go(h, "returned")
      /\ device' = [device EXCEPT ![b].cells = new]
      /\ pool' = PoolFree(pool, b, RegionBytes, "shared") /\ hands' = Emptied(hands, h)
  BY DEF GiveBack, platform, Emptied
<1>2. h \in Client /\ h \notin Call
  BY ClientAssumption DEF Client
<1>3. Len(hands[h]) = 1 /\ 1 \in 1 .. Len(hands[h])
  <2>1. Len(hands[h]) = 1
    BY <1>1, <1>2 DEF PlacesInv, ControlInv, HandsAt
  <2>2. QED
    BY <2>1
<1>4. /\ b \in DOMAIN device /\ ~Binned(b, pool.bins) /\ device[b].cells \in Seq(Cell)
      /\ device[b].bytes = k[2]
  BY <1>2, <1>3, HeldIsLive DEF PlacesInv, BufferInv, RoomInv, RoomFor, BinOf
<1>5. new \in Seq(Cell)
  <2>1. Region(h, t) \in Cell
    BY <1>2 DEF Region, Cell
  <2>2. <<Region(h, t)>> \in Seq(Cell)
    BY <2>1
  <2>3. QED
    BY <1>4, <2>2, OverwriteShows
<1>6. k \in Key
  BY RegionAssumption, BucketHasRoom DEF BinOf, Key, Mode
<1>7. "bins" \in DOMAIN pool' /\ pool'.bins = bins
  BY <1>1, PoolFreeBins DEF PlacesInv, BufferInv
<1> HIDE DEF b, new, k
<1>8. /\ Writes(b, new)
      /\ device' \in [DOMAIN device' -> [bytes : Bucket \cup Nat, cells : Seq(Cell)]]
      /\ BinsOK(pool.bins, device') /\ HandsOK(hands, device')
  BY <1>1, <1>4, <1>5, WriteOK DEF PlacesInv
<1>9. BinsOK(bins, device') /\ \A x : Binned(x, bins) => Binned(x, pool.bins) \/ x = b
  <2>1. b \in DOMAIN device' /\ device'[b].bytes = k[2]
    BY <1>4, <1>8 DEF Writes
  <2>2. QED
    BY <1>4, <1>6, <1>8, <2>1, PutOK
<1> HIDE DEF bins
<1>10. /\ HandsOK(hands', device') /\ \A x : Held(x, hands') => Held(x, hands)
       /\ ~Held(b, hands')
  <2>1. /\ HandsOK(hands', device') /\ \A x : Held(x, hands') => Held(x, hands)
        /\ \A i \in 1 .. Len(hands[h]) : ~Held(hands[h][i], hands')
    BY <1>1, <1>2, <1>8, DropOK
  <2>2. QED
    BY <1>3, <2>1 DEF b
<1>11. BufferInv'
  <2>1. BinsOK(pool.bins, device)' /\ HandsOK(hands, device)'
    BY <1>7, <1>9, <1>10
  <2>2. \A x \in DOMAIN device' : Binned(x, bins) => ~Held(x, hands')
    BY <1>8, <1>9, <1>10 DEF PlacesInv, BufferInv, Writes
  <2>3. made' \in Nat /\ DOMAIN device' \subseteq 1 .. made'
    BY <1>1, <1>8 DEF PlacesInv, BufferInv, Writes
  <2>4. QED
    BY <1>7, <1>8, <2>1, <2>2, <2>3 DEF BufferInv, Binned, Held
<1>12. /\ hands'[h] = <<>> /\ Len(hands'[h]) = 0 /\ 1 .. Len(hands'[h]) = {}
       /\ \A d \in Client \ {h} : hands'[d] = hands[d]
  BY <1>1, <1>2, EmptySeq DEF Emptied, PlacesInv, BufferInv, HandsOK
<1>13. RoomInv'
  <2>1. \A d \in Client : \A i \in 1 .. Len(hands[d]) :
          device'[hands[d][i]].bytes = device[hands[d][i]].bytes
    BY <1>8, HeldIsLive DEF PlacesInv, Writes
  <2>2. \A d \in Client : \A i \in 1 .. Len(hands'[d]) :
          RoomFor(d, i, device'[hands'[d][i]].bytes)
    BY <1>12, <2>1 DEF PlacesInv, RoomInv
  <2>3. QED
    BY <1>1, <2>2 DEF RoomInv, RoomFor, Pairs, Side, Bytes
<1>14. ControlInv'
  BY <1>1, <1>2, <1>12, MoveOK DEF PlacesInv, HandsAt
<1>15. QED
  BY <1>8, <1>11, <1>12, <1>13, <1>14 DEF PlacesInv, b, new

(* Forgotten buffers are nowhere.                                          *)
LEMMA FlushInv ==
  ASSUME PlacesInv, Flush \/ Drain
  PROVE  PlacesInv'
<1>1. /\ UNCHANGED <<request, pc, hands, device, made>>
      /\ pool' = PoolFlush(pool) \/ pool' = EmptyPool
  BY DEF Flush, Drain, PoolDrain, platform
<1>2. "bins" \in DOMAIN pool' /\ pool'.bins = NoBuffers
  BY <1>1 DEF PoolFlush, EmptyPool, PlacesInv, BufferInv
<1>3. BinsOK(pool'.bins, device) /\ \A b : ~Binned(b, pool'.bins)
  BY <1>2, NoBuffersOK
<1>4. BufferInv'
  <2>1. BinsOK(pool.bins, device)' /\ HandsOK(hands, device)'
    BY <1>1, <1>3 DEF PlacesInv, BufferInv
  <2>2. QED
    BY <1>1, <1>2, <1>3, <2>1 DEF PlacesInv, BufferInv
<1>5. RoomInv'
  BY <1>1, RoomKept
<1>6. ControlInv'
  BY <1>1 DEF PlacesInv, ControlInv
<1>7. QED
  BY <1>4, <1>5, <1>6 DEF PlacesInv

(* The steps of a call that touch no buffer.                               *)
Quiet(c) == RunOnCpu(c) \/ ChooseGpu(c) \/ Import(c) \/ TakeRefused(c) \/ Hang(c) \/ NoKernel(c)

LEMMA QuietInv ==
  ASSUME PlacesInv, NEW c \in Call, Quiet(c)
  PROVE  PlacesInv' /\ UNCHANGED <<request, hands, device>>
<1>1. /\ UNCHANGED <<request, hands, device, made>>
      /\ "bins" \in DOMAIN pool' /\ pool'.bins = pool.bins
  BY DEF Quiet, RunOnCpu, ChooseGpu, Import, TakeRefused, Hang, NoKernel, platform, buffers,
         RefusedNew, AfterMiss, PlacesInv, BufferInv
<1>2. c \in Client /\ c \notin Holder
  BY ClientAssumption DEF Client
<1>3. BufferInv'
  <2>1. BinsOK(pool.bins, device)' /\ HandsOK(hands, device)'
    BY <1>1 DEF PlacesInv, BufferInv
  <2>2. QED
    BY <1>1, <2>1 DEF PlacesInv, BufferInv, Binned, Held
<1>4. RoomInv'
  BY <1>1, RoomKept
<1>5. ControlInv'
  <2>1. Len(hands[c]) \in HandsAt(pc[c])
    BY <1>2 DEF PlacesInv, ControlInv
  <2>2. PICK where \in {"returned", "threw", "importing", "take", "hung"} :
          Go(c, where) /\ Len(hands[c]) \in HandsAt(where)
    BY <2>1 DEF Quiet, RunOnCpu, ChooseGpu, Import, TakeRefused, Hang, NoKernel, Throw, Runs,
                HandsAt
  <2>3. QED
    BY <1>1, <1>2, <2>2, MoveOK DEF PlacesInv
<1>6. QED
  BY <1>1, <1>3, <1>4, <1>5 DEF PlacesInv

---------------------------------------------------------------------------
(* What a call has packed, and what it returns.                            *)

MaskOf(c) == Cells(request[c].op, Regions(c, Side(c, 1)), Regions(c, Side(c, 2)))

BothFit(c) == Fits(Side(c, 1)) /\ Fits(Side(c, 2))

(* What a call has packed is what it will read; the kernel wrote the mask  *)
(* of the call's own terms, which is copied when it returns; on the CPU    *)
(* the backend decides at once.                                            *)
CallInv(c) ==
  /\ \A n \in 1 .. Packed(c) : Fits(Side(c, n)) /\ ReadRegions(c, n) = Regions(c, Side(c, n))
  /\ pc[c] = "copy" => device[hands[c][3]].cells = MaskOf(c)
  /\ pc[c] = "returned" => BothFit(c) /\ mask[c] = MaskOf(c)
  /\ Backend(c) = "cpu" =>
       pc[c] \in {"called", "returned"} \/ (pc[c] = "threw" /\ ~BothFit(c))

ContentsInv == DOMAIN mask = Call /\ \A c \in Call : CallInv(c)

LEMMA ContentsArePacked == ContentsInv => PackedInv
  BY DEF ContentsInv, CallInv, PackedInv

LEMMA SameRequest ==
  ASSUME UNCHANGED <<request, metal>>, NEW c
  PROVE  /\ MaskOf(c)' = MaskOf(c) /\ BothFit(c)' = BothFit(c) /\ Backend(c)' = Backend(c)
         /\ \A n : Side(c, n)' = Side(c, n)
  BY DEF MaskOf, BothFit, Backend, Side

(* Calls whose place and buffers a step leaves alone.                      *)
LEMMA OthersKept ==
  ASSUME PlacesInv, ContentsInv, UNCHANGED <<request, metal>>, NEW a \in Client,
         \A d \in Client \ {a} : pc'[d] = pc[d] /\ hands'[d] = hands[d],
         \A d \in Call \ {a} : mask'[d] = mask[d],
         \A d \in Client \ {a} : \A i \in 1 .. Len(hands[d]) :
           device'[hands[d][i]].cells = device[hands[d][i]].cells
  PROVE  \A c \in Call \ {a} : CallInv(c)'
<1> SUFFICES ASSUME NEW c \in Call, c # a PROVE CallInv(c)'
  OBVIOUS
<1>1. c \in Client \ {a}
  BY DEF Client
<1>2. pc'[c] = pc[c] /\ hands'[c] = hands[c] /\ mask'[c] = mask[c]
  BY <1>1
<1>3. Len(hands[c]) \in HandsAt(pc[c])
  BY <1>1 DEF PlacesInv, ControlInv
<1>4. /\ Packed(c)' = Packed(c) /\ MaskOf(c)' = MaskOf(c) /\ BothFit(c)' = BothFit(c)
      /\ Backend(c)' = Backend(c) /\ \A n : Side(c, n)' = Side(c, n)
  BY <1>2, SameRequest DEF Packed
<1>5. 1 .. Packed(c) \subseteq 1 .. Len(hands[c])
  BY <1>3 DEF Packed, HandsAt
<1>6. \A n \in 1 .. Packed(c) : ReadRegions(c, n)' = ReadRegions(c, n)
  BY <1>1, <1>2, <1>4, <1>5 DEF ReadRegions
<1>7. pc[c] = "copy" => 3 \in 1 .. Len(hands[c])
  BY <1>3 DEF HandsAt
<1>8. \A n : Regions(c, Side(c, n))' = Regions(c, Side(c, n)) /\ Fits(Side(c, n))' = Fits(Side(c, n))
  BY <1>4
<1>9. CallInv(c)
  BY DEF ContentsInv
<1>10. \A n \in 1 .. Packed(c)' :
         (Fits(Side(c, n)) /\ ReadRegions(c, n) = Regions(c, Side(c, n)))'
  BY <1>4, <1>6, <1>8, <1>9 DEF CallInv
<1>11. (pc[c] = "copy" => device[hands[c][3]].cells = MaskOf(c))'
  BY <1>1, <1>2, <1>4, <1>7, <1>9 DEF CallInv
<1>12. QED
  BY <1>2, <1>4, <1>9, <1>10, <1>11 DEF CallInv

LEMMA NotOnCpu ==
  ASSUME ContentsInv, NEW c \in Call, pc[c] \notin {"called", "returned", "threw"}
  PROVE  Backend(c) # "cpu"
  BY DEF ContentsInv, CallInv

(* A call that goes where it has nothing in its hands to rely on.          *)
LEMMA AwayInv ==
  ASSUME UNCHANGED <<request, metal>>, NEW c \in Call, Backend(c) # "cpu",
         pc'[c] \in {"importing", "threw", "hung"}
  PROVE  CallInv(c)'
<1>1. Packed(c)' = 0 /\ Backend(c)' # "cpu" /\ pc'[c] \notin {"copy", "returned"}
  BY SameRequest DEF Packed
<1>2. 1 .. Packed(c)' = {}
  BY <1>1
<1>3. QED
  BY <1>1, <1>2 DEF CallInv

LEMMA QuietContents ==
  ASSUME PlacesInv, ContentsInv, NEW c \in Call, Quiet(c)
  PROVE  ContentsInv'
<1>1. /\ UNCHANGED <<request, metal, hands, device>>
      /\ \A d \in Call \ {c} : mask'[d] = mask[d]
      /\ DOMAIN mask' = Call
  BY DEF Quiet, RunOnCpu, ChooseGpu, Import, TakeRefused, Hang, NoKernel, platform, buffers,
         ContentsInv
<1>2. DOMAIN pc' = DOMAIN pc /\ \A d \in DOMAIN pc \ {c} : pc'[d] = pc[d]
  BY DEF Quiet, RunOnCpu, ChooseGpu, Import, TakeRefused, Hang, NoKernel, Throw, Go
<1>3. c \in Client /\ DOMAIN pc = Client
  BY DEF Client, PlacesInv, ControlInv
<1>4. \A d \in Call \ {c} : CallInv(d)'
  BY <1>1, <1>2, <1>3, OthersKept
<1>5. ASSUME RunOnCpu(c) PROVE CallInv(c)'
  <2>1. pc[c] = "called" /\ Backend(c) = "cpu"
    BY <1>5 DEF RunOnCpu
  <2>2. CASE BothFit(c)
    <3>1. pc'[c] = "returned" /\ mask'[c] = MaskOf(c)
      BY <1>3, <1>5, <2>2 DEF RunOnCpu, Go, BothFit, MaskOf, ContentsInv
    <3>2. 1 .. Packed(c)' = {}
      BY <3>1 DEF Packed
    <3>3. QED
      BY <1>1, <2>2, <3>1, <3>2, SameRequest DEF CallInv
  <2>3. CASE ~BothFit(c)
    <3>1. pc'[c] = "threw"
      BY <1>3, <1>5, <2>3 DEF RunOnCpu, Go, BothFit
    <3>2. 1 .. Packed(c)' = {}
      BY <3>1 DEF Packed
    <3>3. QED
      BY <1>1, <2>3, <3>1, <3>2, SameRequest DEF CallInv
  <2>4. QED
    BY <2>2, <2>3
<1>6. ASSUME ChooseGpu(c) PROVE CallInv(c)'
  <2>1. Backend(c) # "cpu" /\ pc'[c] \in {"importing", "threw"}
    BY <1>3, <1>6 DEF ChooseGpu, Go
  <2>2. QED
    BY <1>1, <2>1, AwayInv
<1>7. ASSUME Import(c) PROVE CallInv(c)'
  <2>1. pc[c] = "importing" /\ pc'[c] = "take"
    BY <1>3, <1>7 DEF Import, Go
  <2>2. Len(hands[c]) = 0
    BY <1>3, <2>1 DEF PlacesInv, ControlInv, HandsAt
  <2>3. 1 .. Packed(c)' = {}
    BY <1>1, <2>1, <2>2 DEF Packed
  <2>4. Backend(c)' # "cpu"
    BY <1>1, <2>1, NotOnCpu, SameRequest
  <2>5. QED
    BY <2>1, <2>3, <2>4 DEF CallInv
<1>8. ASSUME TakeRefused(c) \/ Hang(c) \/ NoKernel(c) PROVE CallInv(c)'
  <2>1. pc[c] \in {"take", "run"} /\ pc'[c] \in {"threw", "hung"}
    BY <1>3, <1>8 DEF TakeRefused, Hang, NoKernel, Runs, Throw, Go
  <2>2. QED
    BY <1>1, <2>1, NotOnCpu, AwayInv
<1>9. CallInv(c)'
  BY <1>5, <1>6, <1>7, <1>8 DEF Quiet
<1>10. QED
  BY <1>1, <1>4, <1>9 DEF ContentsInv

LEMMA TakeContents ==
  ASSUME PlacesInv, ContentsInv, NEW c \in Call, Take(c)
  PROVE  ContentsInv'
<1> DEFINE n == Len(hands[c])
<1>1. /\ pc[c] = "take" /\ UNCHANGED <<request, metal>> /\ mask' = mask
      /\ pc' = [pc EXCEPT ![c] = "pack"]
  BY DEF Take, Runs, Go, platform
<1>2. c \in Client /\ DOMAIN pc = Client
  BY DEF Client, PlacesInv, ControlInv
<1>3. /\ n \in {0, 1} /\ Len(hands'[c]) = n + 1
      /\ \A i \in 1 .. n : hands'[c][i] = hands[c][i]
      /\ \A d \in Client \ {c} : hands'[d] = hands[d]
      /\ \A b \in DOMAIN device : device'[b] = device[b]
  <2>1. /\ Receives(c, BucketSize(Bytes(NextSide(c)))) /\ n \in {0, 1}
        /\ RoomFor(c, n + 1, BucketSize(Bytes(NextSide(c))))
    BY TakeInv
  <2>2. UNCHANGED request
    BY <1>1
  <2>3. QED
    BY <1>2, <2>1, <2>2, ReceiveOK
<1>4. \A d \in Client : \A i \in 1 .. Len(hands[d]) : device'[hands[d][i]] = device[hands[d][i]]
  BY <1>3, HeldIsLive DEF PlacesInv
<1>5. \A d \in Call \ {c} : CallInv(d)'
  <2>1. UNCHANGED <<request, metal>> /\ \A d \in Client \ {c} : pc'[d] = pc[d]
    BY <1>1, <1>2
  <2>2. QED
    BY <1>1, <1>2, <1>3, <1>4, <2>1, OthersKept
<1>6. Packed(c) = n /\ Packed(c)' = n /\ pc'[c] = "pack"
  BY <1>1, <1>2, <1>3 DEF Packed
<1>7. \A i \in 1 .. n : ReadRegions(c, i)' = ReadRegions(c, i)
  BY <1>1, <1>2, <1>3, <1>4 DEF ReadRegions, Side
<1>8. \A i \in 1 .. n :
        (Fits(Side(c, i)) /\ ReadRegions(c, i) = Regions(c, Side(c, i)))'
  <2>1. CallInv(c)
    BY DEF ContentsInv
  <2>2. \A i : Side(c, i)' = Side(c, i)
    BY <1>1, SameRequest
  <2>3. QED
    BY <1>6, <1>7, <2>1, <2>2 DEF CallInv
<1>9. Backend(c)' # "cpu"
  BY <1>1, NotOnCpu, SameRequest
<1>10. CallInv(c)'
  BY <1>6, <1>8, <1>9 DEF CallInv
<1>11. QED
  BY <1>1, <1>5, <1>10 DEF ContentsInv

(* What one call writes to a buffer it holds, no other call reads.         *)
LEMMA WriterAlone ==
  ASSUME PlacesInv, ContentsInv, NEW a \in Client, NEW k \in 1 .. Len(hands[a]), NEW new,
         UNCHANGED <<request, metal>>, Writes(hands[a][k], new),
         \A d \in Client \ {a} : pc'[d] = pc[d] /\ hands'[d] = hands[d],
         \A d \in Call \ {a} : mask'[d] = mask[d]
  PROVE  /\ \A c \in Call \ {a} : CallInv(c)'
         /\ device'[hands[a][k]].cells = new
         /\ \A i \in 1 .. Len(hands[a]) : i # k =>
              device'[hands[a][i]].cells = device[hands[a][i]].cells
<1>1. \A d \in Client : \A i \in 1 .. Len(hands[d]) :
        /\ hands[d][i] \in DOMAIN device
        /\ hands[d][i] = hands[a][k] => d = a /\ i = k
  BY HeldIsLive, HeldOnce DEF PlacesInv
<1>2. /\ \A d \in Client \ {a} : \A i \in 1 .. Len(hands[d]) :
           device'[hands[d][i]].cells = device[hands[d][i]].cells
      /\ \A i \in 1 .. Len(hands[a]) : i # k =>
           device'[hands[a][i]].cells = device[hands[a][i]].cells
      /\ device'[hands[a][k]].cells = new
  BY <1>1 DEF Writes
<1>3. QED
  BY <1>2, OthersKept

LEMMA PackContents ==
  ASSUME PlacesInv, ContentsInv, NEW c \in Call, Pack(c)
  PROVE  ContentsInv'
<1> DEFINE n == Len(hands[c])
           b == hands[c][n]
           new == Overwrite(device[b].cells, Regions(c, PackedTerms(ThisSide(c))))
<1>1. /\ pc[c] = "pack" /\ UNCHANGED <<request, metal>> /\ mask' = mask
      /\ \A d \in DOMAIN pc \ {c} : pc'[d] = pc[d]
      /\ pc' = [pc EXCEPT ![c] = IF Fits(ThisSide(c)) THEN IF n = 1 THEN "take" ELSE "mask"
                                 ELSE "threw"]
  BY DEF Pack, Runs, Go, Throw, platform
<1>2. c \in Client /\ DOMAIN pc = Client
  BY DEF Client, PlacesInv, ControlInv
<1>3. /\ hands' = hands /\ n \in {1, 2} /\ ThisSide(c) = Side(c, n) /\ Writes(b, new)
      /\ b \in DOMAIN device /\ n \in 1 .. n
  <2>1. hands' = hands /\ n \in {1, 2} /\ ThisSide(c) = Side(c, n) /\ Writes(b, new)
    BY PackInv
  <2>2. n \in 1 .. n
    BY <2>1
  <2>3. QED
    BY <1>2, <2>1, <2>2, HeldIsLive DEF PlacesInv
<1> HIDE DEF new
<1>4. /\ \A d \in Call \ {c} : CallInv(d)'
      /\ device'[b].cells = new
      /\ \A i \in 1 .. n : i # n => device'[hands[c][i]].cells = device[hands[c][i]].cells
  <2>1. UNCHANGED <<request, metal>>
    BY <1>1
  <2>2. \A d \in Client \ {c} : pc'[d] = pc[d] /\ hands'[d] = hands[d]
    BY <1>1, <1>2, <1>3
  <2>3. \A d \in Call \ {c} : mask'[d] = mask[d]
    BY <1>1
  <2>4. QED
    BY <1>2, <1>3, <2>1, <2>2, <2>3, WriterAlone
<1>5. Backend(c) # "cpu" /\ Backend(c)' # "cpu"
  BY <1>1, NotOnCpu, SameRequest
<1>6. ASSUME ~Fits(ThisSide(c)) PROVE CallInv(c)'
  BY <1>1, <1>2, <1>5, <1>6, AwayInv
<1>7. ASSUME Fits(ThisSide(c)) PROVE CallInv(c)'
  <2>1. Packed(c) = n - 1 /\ Packed(c)' = n /\ pc'[c] \in {"take", "mask"}
    BY <1>1, <1>2, <1>3, <1>7 DEF Packed
  <2>2. SubSeq(new, 1, Len(Side(c, n))) = Regions(c, Side(c, n))
    <3>1. Side(c, n) \in Seq(Range(Side(c, n)))
      BY <1>3, SideType DEF PlacesInv, ControlInv
    <3>2. PackedTerms(ThisSide(c)) = Side(c, n) /\ Side(c, n) \in Seq(Packable)
      BY <1>3, <1>7, <3>1, PackedTermsType, FitsType
    <3>3. /\ Regions(c, Side(c, n)) \in Seq(Cell)
          /\ Len(Regions(c, Side(c, n))) = Len(Side(c, n))
      BY <1>2, <3>2, RegionsType
    <3>4. device[b].cells \in Seq(Cell)
      BY <1>3 DEF PlacesInv, BufferInv
    <3>5. QED
      BY <3>2, <3>3, <3>4, OverwriteShows DEF new
  <2>3. ReadRegions(c, n)' = Regions(c, Side(c, n))
    BY <1>1, <1>3, <1>4, <2>2 DEF ReadRegions, Side
  <2>4. \A i \in 1 .. n - 1 : ReadRegions(c, i)' = ReadRegions(c, i)
    BY <1>1, <1>3, <1>4 DEF ReadRegions, Side
  <2>5. \A i \in 1 .. n - 1 : Fits(Side(c, i)) /\ ReadRegions(c, i) = Regions(c, Side(c, i))
    BY <2>1 DEF ContentsInv, CallInv
  <2>6. \A i : Side(c, i)' = Side(c, i)
    BY <1>1, SameRequest
  <2>7. \A i \in 1 .. n : i = n \/ i \in 1 .. n - 1
    BY <1>3
  <2>8. \A i \in 1 .. n : (Fits(Side(c, i)) /\ ReadRegions(c, i) = Regions(c, Side(c, i)))'
    BY <1>3, <1>7, <2>3, <2>4, <2>5, <2>6, <2>7
  <2>9. QED
    BY <1>5, <2>1, <2>8 DEF CallInv
<1>8. QED
  BY <1>1, <1>4, <1>6, <1>7 DEF ContentsInv

LEMMA TakeMaskContents ==
  ASSUME PlacesInv, ContentsInv, NEW c \in Call, TakeMask(c)
  PROVE  ContentsInv'
<1>1. /\ pc[c] = "mask" /\ UNCHANGED <<request, metal>> /\ mask' = mask
      /\ \A d \in DOMAIN pc \ {c} : pc'[d] = pc[d]
      /\ pc' = [pc EXCEPT ![c] = IF HasMemory(MaskBytes(c)) THEN "run" ELSE "threw"]
  BY DEF TakeMask, Runs, Go, Throw, platform
<1>2. c \in Client /\ DOMAIN pc = Client
  BY DEF Client, PlacesInv, ControlInv
<1>3. /\ \A b \in DOMAIN device : device'[b] = device[b]
      /\ \A i \in {1, 2} : hands'[c][i] = hands[c][i]
      /\ \A d \in Client \ {c} : hands'[d] = hands[d]
      /\ Len(hands[c]) = 2
  <2>1. Len(hands[c]) = 2
    BY <1>1, <1>2 DEF PlacesInv, ControlInv, HandsAt
  <2>2. QED
    BY <2>1, TakeMaskInv
<1>4. \A d \in Client : \A i \in 1 .. Len(hands[d]) : device'[hands[d][i]] = device[hands[d][i]]
  BY <1>3, HeldIsLive DEF PlacesInv
<1>5. \A d \in Call \ {c} : CallInv(d)'
  <2>1. UNCHANGED <<request, metal>>
    BY <1>1
  <2>2. QED
    BY <1>1, <1>2, <1>3, <1>4, <2>1, OthersKept
<1>6. Backend(c) # "cpu" /\ Backend(c)' # "cpu"
  BY <1>1, NotOnCpu, SameRequest
<1>7. ASSUME pc'[c] = "threw" PROVE CallInv(c)'
  BY <1>1, <1>6, <1>7, AwayInv
<1>8. ASSUME pc'[c] = "run" PROVE CallInv(c)'
  <2>1. Packed(c) = 2 /\ Packed(c)' = 2
    BY <1>1, <1>8 DEF Packed
  <2>2. \A i \in 1 .. 2 : i \in {1, 2} /\ i \in 1 .. Len(hands[c])
    BY <1>3
  <2>3. \A i \in 1 .. 2 : ReadRegions(c, i)' = ReadRegions(c, i)
    BY <1>1, <1>2, <1>3, <1>4, <2>2 DEF ReadRegions, Side
  <2>4. \A i \in 1 .. 2 : Fits(Side(c, i)) /\ ReadRegions(c, i) = Regions(c, Side(c, i))
    BY <2>1 DEF ContentsInv, CallInv
  <2>5. \A i : Side(c, i)' = Side(c, i)
    BY <1>1, SameRequest
  <2>6. QED
    BY <1>6, <1>8, <2>1, <2>3, <2>4, <2>5 DEF CallInv
<1>9. QED
  BY <1>1, <1>2, <1>5, <1>7, <1>8 DEF ContentsInv

LEMMA RunKernelContents ==
  ASSUME PlacesInv, ContentsInv, NEW c \in Call, RunKernel(c)
  PROVE  ContentsInv'
<1>1. /\ pc[c] = "run" /\ UNCHANGED <<request, metal>> /\ mask' = mask
      /\ \A d \in DOMAIN pc \ {c} : pc'[d] = pc[d]
      /\ pc' = [pc EXCEPT ![c] = "copy"]
  BY DEF RunKernel, Runs, Go, platform
<1>2. c \in Client /\ DOMAIN pc = Client
  BY DEF Client, PlacesInv, ControlInv
<1>3. hands' = hands /\ Len(hands[c]) = 3 /\ Writes(hands[c][3], MaskOf(c))
  BY ContentsArePacked, RunKernelInv DEF MaskOf
<1>4. /\ \A d \in Call \ {c} : CallInv(d)'
      /\ device'[hands[c][3]].cells = MaskOf(c)
      /\ \A i \in 1 .. Len(hands[c]) : i # 3 =>
           device'[hands[c][i]].cells = device[hands[c][i]].cells
  <2>1. UNCHANGED <<request, metal>> /\ 3 \in 1 .. Len(hands[c])
    BY <1>1, <1>3
  <2>2. \A d \in Client \ {c} : pc'[d] = pc[d] /\ hands'[d] = hands[d]
    BY <1>1, <1>2, <1>3
  <2>3. \A d \in Call \ {c} : mask'[d] = mask[d]
    BY <1>1
  <2>4. QED
    BY <1>2, <1>3, <2>1, <2>2, <2>3, WriterAlone
<1>5. Backend(c)' # "cpu" /\ MaskOf(c)' = MaskOf(c) /\ \A i : Side(c, i)' = Side(c, i)
  BY <1>1, NotOnCpu, SameRequest
<1>6. Packed(c) = 2 /\ Packed(c)' = 2 /\ pc'[c] = "copy"
  BY <1>1, <1>2 DEF Packed
<1>7. \A i \in 1 .. 2 : i # 3 /\ i \in 1 .. Len(hands[c])
  BY <1>3
<1>8. \A i \in 1 .. 2 : ReadRegions(c, i)' = ReadRegions(c, i)
  BY <1>1, <1>3, <1>4, <1>7 DEF ReadRegions, Side
<1>9. \A i \in 1 .. 2 : Fits(Side(c, i)) /\ ReadRegions(c, i) = Regions(c, Side(c, i))
  BY <1>6 DEF ContentsInv, CallInv
<1>10. CallInv(c)'
  BY <1>3, <1>4, <1>5, <1>6, <1>8, <1>9 DEF CallInv
<1>11. QED
  BY <1>1, <1>4, <1>10 DEF ContentsInv

(* The mask that is copied is the whole mask.                              *)
LEMMA FinishContents ==
  ASSUME PlacesInv, ContentsInv, NEW c \in Call, Finish(c)
  PROVE  ContentsInv'
<1>1. /\ pc[c] = "copy" /\ UNCHANGED <<request, metal>>
      /\ mask' = [mask EXCEPT ![c] = SubSeq(device[hands[c][3]].cells, 1, Pairs(c))]
      /\ \A d \in DOMAIN pc \ {c} : pc'[d] = pc[d]
      /\ pc' = [pc EXCEPT ![c] = "returned"]
  BY DEF Finish, Runs, Go, platform
<1>2. c \in Client /\ DOMAIN pc = Client /\ DOMAIN mask = Call
  BY DEF Client, PlacesInv, ControlInv, ContentsInv
<1>3. /\ \A d \in Client \ {c} : hands'[d] = hands[d]
      /\ \A d \in Client \ {c} : \A i \in 1 .. Len(hands[d]) :
           device'[hands[d][i]] = device[hands[d][i]]
  BY FinishInv
<1>4. \A d \in Call \ {c} : CallInv(d)'
  <2>1. UNCHANGED <<request, metal>> /\ \A d \in Call \ {c} : mask'[d] = mask[d]
    BY <1>1, <1>2
  <2>2. QED
    BY <1>1, <1>2, <1>3, <2>1, OthersKept
<1>5. MaskOf(c) \in Seq(Cell) /\ Len(MaskOf(c)) = Pairs(c) /\ BothFit(c)
  <2>1. PackedInv /\ request \in Requests
    BY ContentsArePacked DEF PlacesInv, ControlInv
  <2>2. \A n \in {1, 2} : /\ Fits(Side(c, n)) /\ Regions(c, Side(c, n)) \in Seq(Cell)
                          /\ Len(Regions(c, Side(c, n))) = Len(Side(c, n))
    BY <1>1, <2>1, PackedSides
  <2>3. /\ MaskOf(c) \in Seq(Cell)
        /\ Len(MaskOf(c)) = Len(Regions(c, Side(c, 1))) * Len(Regions(c, Side(c, 2)))
    BY <2>2, CellsType DEF MaskOf
  <2>4. QED
    BY <2>2, <2>3 DEF BothFit, Pairs
<1>6. mask'[c] = MaskOf(c)
  <2>1. device[hands[c][3]].cells = MaskOf(c)
    BY <1>1 DEF ContentsInv, CallInv
  <2>2. SubSeq(MaskOf(c), 1, Len(MaskOf(c))) = MaskOf(c)
    BY <1>5, SubSeqFull
  <2>3. QED
    BY <1>1, <1>2, <1>5, <2>1, <2>2
<1>7. Packed(c)' = 0 /\ pc'[c] = "returned"
  BY <1>1, <1>2 DEF Packed
<1>8. CallInv(c)'
  <2>1. 1 .. Packed(c)' = {}
    BY <1>7
  <2>2. Backend(c)' # "cpu" /\ MaskOf(c)' = MaskOf(c) /\ BothFit(c)' = BothFit(c)
    BY <1>1, NotOnCpu, SameRequest
  <2>3. QED
    BY <1>5, <1>6, <1>7, <2>1, <2>2 DEF CallInv
<1>9. QED
  BY <1>1, <1>2, <1>4, <1>8 DEF ContentsInv

(* Holders and the pool's maintenance write nothing that a call reads.     *)
LEMMA BorrowContents ==
  ASSUME PlacesInv, ContentsInv, NEW h \in Holder, Borrow(h)
  PROVE  ContentsInv'
<1>1. /\ UNCHANGED <<request, metal>> /\ mask' = mask
      /\ \A d \in DOMAIN pc \ {h} : pc'[d] = pc[d]
  BY DEF Borrow, Go, platform
<1>2. h \in Client /\ DOMAIN pc = Client /\ h \notin Call
  BY ClientAssumption DEF Client, PlacesInv, ControlInv
<1>3. /\ \A d \in Client \ {h} : hands'[d] = hands[d]
      /\ \A b \in DOMAIN device : device'[b] = device[b]
  <2>1. Receives(h, BucketSize(RegionBytes))
    BY BorrowInv
  <2>2. UNCHANGED request /\ RoomFor(h, Len(hands[h]) + 1, BucketSize(RegionBytes))
    BY <1>1 DEF RoomFor
  <2>3. QED
    BY <1>2, <2>1, <2>2, ReceiveOK
<1>4. \A d \in Client : \A i \in 1 .. Len(hands[d]) : device'[hands[d][i]] = device[hands[d][i]]
  BY <1>3, HeldIsLive DEF PlacesInv
<1>5. \A c \in Call \ {h} : CallInv(c)'
  <2>1. UNCHANGED <<request, metal>>
    BY <1>1
  <2>2. QED
    BY <1>1, <1>2, <1>3, <1>4, <2>1, OthersKept
<1>6. QED
  BY <1>1, <1>2, <1>5 DEF ContentsInv

LEMMA BorrowRefusedContents ==
  ASSUME PlacesInv, ContentsInv, NEW h \in Holder, BorrowRefused(h)
  PROVE  ContentsInv'
<1>1. UNCHANGED <<request, metal, mask, hands, device>>
  BY BorrowRefusedInv
<1>2. h \in Client /\ DOMAIN pc = Client /\ h \notin Call
  BY ClientAssumption DEF Client, PlacesInv, ControlInv
<1>3. \A d \in Client \ {h} : pc'[d] = pc[d]
  BY <1>2 DEF BorrowRefused, Go
<1>4. \A c \in Call \ {h} : CallInv(c)'
  BY <1>1, <1>2, <1>3, OthersKept
<1>5. QED
  BY <1>1, <1>2, <1>4 DEF ContentsInv

LEMMA GiveBackContents ==
  ASSUME PlacesInv, ContentsInv, NEW h \in Holder, NEW t \in Packable, GiveBack(h, t)
  PROVE  ContentsInv'
<1> DEFINE new == Overwrite(device[hands[h][1]].cells, <<Region(h, t)>>)
<1>1. /\ pc[h] = "holding" /\ UNCHANGED <<request, metal>> /\ mask' = mask
      /\ \A d \in DOMAIN pc \ {h} : pc'[d] = pc[d]
  BY DEF GiveBack, Go, platform
<1>2. h \in Client /\ DOMAIN pc = Client /\ h \notin Call
  BY ClientAssumption DEF Client, PlacesInv, ControlInv
<1>3. 1 \in 1 .. Len(hands[h])
  <2>1. Len(hands[h]) = 1
    BY <1>1, <1>2 DEF PlacesInv, ControlInv, HandsAt
  <2>2. QED
    BY <2>1
<1>4. /\ \A d \in Client \ {h} : hands'[d] = hands[d]
      /\ Writes(hands[h][1], new)
  BY GiveBackInv
<1> HIDE DEF new
<1>5. \A c \in Call \ {h} : CallInv(c)'
  <2>1. UNCHANGED <<request, metal>> /\ \A d \in Call \ {h} : mask'[d] = mask[d]
    BY <1>1
  <2>2. \A d \in Client \ {h} : pc'[d] = pc[d] /\ hands'[d] = hands[d]
    BY <1>1, <1>2, <1>4
  <2>3. QED
    BY <1>2, <1>3, <1>4, <2>1, <2>2, WriterAlone
<1>6. QED
  BY <1>1, <1>2, <1>5 DEF ContentsInv

LEMMA UntouchedContents ==
  ASSUME ContentsInv, UNCHANGED <<request, metal, pc, mask, hands, device>>
  PROVE  ContentsInv'
  BY DEF ContentsInv, CallInv, Packed, ReadRegions, MaskOf, BothFit, Backend, Side

---------------------------------------------------------------------------
(* The two theorems.                                                       *)

LEMMA InitInv == Init => PlacesInv /\ ContentsInv
<1> SUFFICES ASSUME Init PROVE PlacesInv /\ ContentsInv
  OBVIOUS
<1>1. /\ request \in Requests /\ mask = [c \in Call |-> <<>>] /\ made = 0 /\ device = << >>
      /\ pc = [c \in Client |-> IF c \in Call THEN "called" ELSE "idle"]
      /\ hands = [c \in Client |-> <<>>]
      /\ pool.bins = NoBuffers /\ "bins" \in DOMAIN pool
  BY DEF Init, EmptyPool
<1>2. DOMAIN device = {}
  BY <1>1
<1>3. \A c \in Client : hands[c] = <<>> /\ Len(hands[c]) = 0 /\ 1 .. Len(hands[c]) = {}
  BY <1>1, EmptySeq
<1>4. ControlInv
  BY <1>1, <1>3, ClientAssumption DEF ControlInv, HandsAt, Client
<1>5. BufferInv
  <2>1. BinsOK(pool.bins, device)
    BY <1>1, NoBuffersOK
  <2>2. HandsOK(hands, device)
    BY <1>1, <1>3, EmptySeq DEF HandsOK
  <2>3. QED
    BY <1>1, <1>2, <2>1, <2>2 DEF BufferInv
<1>6. RoomInv
  BY <1>3 DEF RoomInv
<1>7. ContentsInv
  <2>1. \A c \in Call : pc[c] = "called"
    BY <1>1 DEF Client
  <2>2. \A c \in Call : Packed(c) = 0 /\ 1 .. Packed(c) = {}
    BY <2>1 DEF Packed
  <2>3. QED
    BY <1>1, <2>1, <2>2 DEF ContentsInv, CallInv
<1>8. QED
  BY <1>4, <1>5, <1>6, <1>7 DEF PlacesInv

LEMMA StepInv == PlacesInv /\ ContentsInv /\ [Next]_vars => PlacesInv' /\ ContentsInv'
<1> SUFFICES ASSUME PlacesInv, ContentsInv, [Next]_vars PROVE PlacesInv' /\ ContentsInv'
  OBVIOUS
<1>1. ASSUME NEW c \in Call, Quiet(c) PROVE PlacesInv' /\ ContentsInv'
  BY <1>1, QuietInv, QuietContents
<1>2. ASSUME NEW c \in Call, Take(c) PROVE PlacesInv' /\ ContentsInv'
  BY <1>2, TakeInv, TakeContents
<1>3. ASSUME NEW c \in Call, Pack(c) PROVE PlacesInv' /\ ContentsInv'
  BY <1>3, PackInv, PackContents
<1>4. ASSUME NEW c \in Call, TakeMask(c) PROVE PlacesInv' /\ ContentsInv'
  BY <1>4, TakeMaskInv, TakeMaskContents
<1>5. ASSUME NEW c \in Call, RunKernel(c) PROVE PlacesInv' /\ ContentsInv'
  BY <1>5, ContentsArePacked, RunKernelInv, RunKernelContents
<1>6. ASSUME NEW c \in Call, Finish(c) PROVE PlacesInv' /\ ContentsInv'
  BY <1>6, FinishInv, FinishContents
<1>7. ASSUME NEW h \in Holder, Borrow(h) PROVE PlacesInv' /\ ContentsInv'
  BY <1>7, BorrowInv, BorrowContents
<1>7a. ASSUME NEW h \in Holder, BorrowRefused(h) PROVE PlacesInv' /\ ContentsInv'
  BY <1>7a, BorrowRefusedInv, BorrowRefusedContents
<1>8. ASSUME NEW h \in Holder, NEW t \in Packable, GiveBack(h, t)
      PROVE  PlacesInv' /\ ContentsInv'
  BY <1>8, GiveBackInv, GiveBackContents
<1>9. ASSUME Flush \/ Drain PROVE PlacesInv' /\ ContentsInv'
  <2>1. UNCHANGED <<request, metal, pc, mask, hands, device>>
    BY <1>9 DEF Flush, Drain, platform
  <2>2. QED
    BY <1>9, <2>1, FlushInv, UntouchedContents
<1>10. ASSUME UNCHANGED vars PROVE PlacesInv' /\ ContentsInv'
  <2>1. UNCHANGED <<request, metal, pc, mask, hands, device, pool, made>>
    BY <1>10 DEF vars, platform, buffers
  <2>2. ControlInv'
    BY <2>1 DEF PlacesInv, ControlInv
  <2>3. BufferInv'
    <3>1. BinsOK(pool.bins, device)' /\ HandsOK(hands, device)'
      BY <2>1 DEF PlacesInv, BufferInv
    <3>2. QED
      BY <2>1, <3>1 DEF PlacesInv, BufferInv, Binned, Held
  <2>4. RoomInv'
    BY <2>1, RoomKept
  <2>5. QED
    BY <2>1, <2>2, <2>3, <2>4, UntouchedContents DEF PlacesInv
<1>11. QED
  BY <1>1, <1>2, <1>3, <1>4, <1>5, <1>6, <1>7, <1>7a, <1>8, <1>9, <1>10 DEF Next, Step, Quiet

LEMMA BatchOpsInvariant == Spec => [](PlacesInv /\ ContentsInv)
  BY InitInv, StepInv, PTL DEF Spec

(* No buffer is in two places, those in a bin have the bin's size, and     *)
(* those in a hand have room for what is packed into them: for the calls   *)
(* of src/engine/ops and the pool of src/engine/gpu/pool.js.               *)
THEOREM NoBufferIsSharedHolds == Spec => []NoBufferIsShared
<1>1. ASSUME PlacesInv PROVE NoBufferIsShared
  <2>1. \A p \in BinPlaces : /\ p[1] \in Key /\ p[2] \in 1 .. Len(pool.bins[p[1]])
                             /\ p = <<p[1], p[2]>>
                             /\ InBin(p) = pool.bins[p[1]][p[2]]
    <3>1. \A k \in Key : Len(pool.bins[k]) \in Nat
      BY <1>1 DEF PlacesInv, BufferInv, BinsOK
    <3>2. QED
      BY <3>1 DEF BinPlaces, InBin, Key
  <2>2. \A q \in HandPlaces : /\ q[1] \in Client /\ q[2] \in 1 .. Len(hands[q[1]]) /\ q[2] \in 1 .. 3
                              /\ q = <<q[1], q[2]>>
                              /\ InHand(q) = hands[q[1]][q[2]]
    <3>1. \A c \in Client : Len(hands[c]) \in Nat
      BY <1>1 DEF PlacesInv, BufferInv, HandsOK
    <3>2. QED
      BY <3>1 DEF HandPlaces, InHand, Active
  <2>3. ASSUME NEW p \in BinPlaces, NEW q \in BinPlaces, InBin(p) = InBin(q)
        PROVE  p = q
    <3>1. \A k, l \in Key : \A i \in 1 .. Len(pool.bins[k]), j \in 1 .. Len(pool.bins[l]) :
            pool.bins[k][i] = pool.bins[l][j] => k = l /\ i = j
      BY <1>1 DEF PlacesInv, BufferInv, BinsOK
    <3>2. pool.bins[p[1]][p[2]] = pool.bins[q[1]][q[2]]
      BY <2>1, <2>3
    <3>3. p[1] = q[1] /\ p[2] = q[2]
      BY <2>1, <3>1, <3>2
    <3>4. QED
      BY <2>1, <3>3, Zenon
  <2>4. ASSUME NEW p \in HandPlaces, NEW q \in HandPlaces, InHand(p) = InHand(q)
        PROVE  p = q
    <3>1. \A c, d \in Client : \A i \in 1 .. Len(hands[c]), j \in 1 .. Len(hands[d]) :
            hands[c][i] = hands[d][j] => c = d /\ i = j
      BY <1>1 DEF PlacesInv, BufferInv, HandsOK
    <3>2. hands[p[1]][p[2]] = hands[q[1]][q[2]]
      BY <2>2, <2>4
    <3>3. p[1] = q[1] /\ p[2] = q[2]
      BY <2>2, <3>1, <3>2
    <3>4. QED
      BY <2>2, <3>3, Zenon
  <2>5. \A p \in BinPlaces : /\ Binned(InBin(p), pool.bins) /\ InBin(p) \in DOMAIN device
                             /\ device[InBin(p)].bytes = p[1][2]
    <3>1. \A k \in Key : \A i \in 1 .. Len(pool.bins[k]) :
            /\ pool.bins[k][i] \in DOMAIN device /\ device[pool.bins[k][i]].bytes = k[2]
            /\ Binned(pool.bins[k][i], pool.bins)
      BY <1>1, ElementOfSeq DEF PlacesInv, BufferInv, BinsOK, Binned
    <3>2. QED
      BY <2>1, <3>1
  <2>6. \A q \in HandPlaces : /\ ~Binned(InHand(q), pool.bins) /\ InHand(q) \in DOMAIN device
                              /\ RoomFor(q[1], q[2], device[InHand(q)].bytes)
    BY <1>1, <2>2, HeldIsLive DEF PlacesInv, RoomInv
  <2>7. ASSUME NEW q \in HandPlaces
        PROVE  device[InHand(q)].bytes >= (IF q[1] \in Holder THEN RegionBytes
                 ELSE IF q[2] = 3 THEN Pairs(q[1]) ELSE Bytes(Side(q[1], q[2])))
    <3>1. CASE q[1] \in Holder
      BY <2>6, <3>1, RegionAssumption, BucketHasRoom DEF RoomFor
    <3>2. CASE q[1] \notin Holder /\ q[2] = 3
      BY <2>6, <3>2 DEF RoomFor
    <3>3. CASE q[1] \notin Holder /\ q[2] # 3
      <4>1. q[1] \in Call /\ q[2] \in {1, 2}
        BY <2>2, <3>3 DEF Client
      <4>2. Bytes(Side(q[1], q[2])) \in Nat
        BY <1>1, <4>1, SideType DEF PlacesInv, ControlInv
      <4>3. QED
        BY <2>6, <3>3, <4>2, BucketHasRoom DEF RoomFor
    <3>4. QED
      BY <3>1, <3>2, <3>3
  <2>8. QED
    BY <2>3, <2>4, <2>5, <2>6, <2>7 DEF NoBufferIsShared
<1>2. QED
  BY <1>1, BatchOpsInvariant, PTL

(* A call that returns has the mask of its own terms, whichever backend    *)
(* ran it and whatever its buffers held before; on the CPU only a term     *)
(* that does not fit makes it throw (src/engine/ops).                      *)
THEOREM MasksAreExactHolds == Spec => []MasksAreExact
<1>1. ASSUME PlacesInv, ContentsInv PROVE MasksAreExact
  <2> SUFFICES ASSUME NEW c \in Call
               PROVE  /\ pc[c] = "returned" =>
                           /\ Fits(Side(c, 1)) /\ Fits(Side(c, 2))
                           /\ mask[c] = [n \in 1 .. Pairs(c) |->
                                LET e == Len(Side(c, 2))
                                    pair == <<Side(c, 1)[(n - 1) \div e + 1],
                                              Side(c, 2)[((n - 1) % e) + 1]>>
                                IN IF request[c].op = "constraint_mask" THEN pair[1] = pair[2]
                                   ELSE pair \in Unifies]
                      /\ pc[c] = "threw" /\ Backend(c) = "cpu" =>
                           ~(Fits(Side(c, 1)) /\ Fits(Side(c, 2)))
    BY DEF MasksAreExact
  <2>1. CallInv(c)
    BY <1>1 DEF ContentsInv
  <2> DEFINE a == Side(c, 1)
             b == Side(c, 2)
             op == request[c].op
             row(n) == (n - 1) \div Len(b) + 1
             column(n) == ((n - 1) % Len(b)) + 1
  <2>2. ASSUME pc[c] = "returned"
        PROVE  /\ Fits(a) /\ Fits(b)
               /\ mask[c] = [n \in 1 .. Pairs(c) |->
                    IF op = "constraint_mask" THEN a[row(n)] = b[column(n)]
                    ELSE <<a[row(n)], b[column(n)]>> \in Unifies]
    <3>1. Fits(a) /\ Fits(b) /\ mask[c] = Cells(op, Regions(c, a), Regions(c, b))
      BY <2>1, <2>2 DEF CallInv, BothFit, MaskOf
    <3>2. a \in Seq(Packable) /\ b \in Seq(Packable) /\ Len(a) \in Nat /\ Len(b) \in Nat
      BY <1>1, <3>1, SideType, FitsType DEF PlacesInv, ControlInv
    <3>3. /\ Len(Regions(c, a)) = Len(a) /\ Len(Regions(c, b)) = Len(b)
          /\ \A i \in 1 .. Len(a) : Regions(c, a)[i] = Region(c, a[i])
          /\ \A i \in 1 .. Len(b) : Regions(c, b)[i] = Region(c, b[i])
      BY <3>2, RegionsType DEF Client
    <3> HIDE DEF a, b, op
    <3>4. ASSUME NEW n \in 1 .. Len(a) * Len(b)
          PROVE  Holds(op, Regions(c, a)[row(n)], Regions(c, b)[column(n)]) =
                   (IF op = "constraint_mask" THEN a[row(n)] = b[column(n)]
                    ELSE <<a[row(n)], b[column(n)]>> \in Unifies)
      <4>1. row(n) \in 1 .. Len(a) /\ column(n) \in 1 .. Len(b)
        BY <3>2, RowAndColumn
      <4> HIDE DEF row, column
      <4>2. /\ Regions(c, a)[row(n)] = [symbols |-> c, term |-> a[row(n)]]
            /\ Regions(c, b)[column(n)] = [symbols |-> c, term |-> b[column(n)]]
        BY <3>3, <4>1 DEF Region
      <4> DEFINE left == Regions(c, a)[row(n)]
                 right == Regions(c, b)[column(n)]
      <4>3. /\ left.symbols = c /\ left.term = a[row(n)]
            /\ right.symbols = c /\ right.term = b[column(n)]
        BY <4>2
      <4> HIDE DEF left, right
      <4>4. Holds(op, left, right) =
              (IF op = "constraint_mask" THEN a[row(n)] = b[column(n)]
               ELSE <<a[row(n)], b[column(n)]>> \in Unifies)
        <5>1. CASE op = "constraint_mask"
          BY <4>3, <5>1 DEF Holds
        <5>2. CASE op # "constraint_mask"
          <6>1. Holds(op, left, right) \in BOOLEAN
            BY DEF Holds
          <6>2. <<left.term, right.term>> = <<a[row(n)], b[column(n)]>>
            BY <4>3
          <6>3. Holds(op, left, right) <=> <<left.term, right.term>> \in Unifies
            BY <4>3, <5>2 DEF Holds
          <6>4. Holds(op, left, right) = (<<left.term, right.term>> \in Unifies)
            BY <6>1, <6>3
          <6>5. QED
            BY <5>2, <6>2, <6>4
        <5>3. QED
          BY <5>1, <5>2
      <4>5. QED
        BY <4>4 DEF left, right
    <3>5. mask[c] = [n \in 1 .. Len(a) * Len(b) |->
                       Holds(op, Regions(c, a)[row(n)], Regions(c, b)[column(n)])]
      BY <3>1, <3>3 DEF Cells
    <3>6. Pairs(c) = Len(a) * Len(b)
      BY DEF Pairs, a, b
    <3> HIDE DEF row, column
    <3>7. QED
      BY <3>1, <3>4, <3>5, <3>6
  <2>3. pc[c] = "threw" /\ Backend(c) = "cpu" => ~(Fits(a) /\ Fits(b))
    BY <2>1 DEF CallInv, BothFit
  <2>4. QED
    BY <2>2, <2>3
<1>2. QED
  BY <1>1, BatchOpsInvariant, PTL

---------------------------------------------------------------------------
(* Sums over finite sets.  What an induction would show is shown of a set  *)
(* that is smallest among those of which it fails.                         *)

LEMMA SmallestSet ==
  ASSUME NEW S, IsFiniteSet(S), NEW Bad \in SUBSET SUBSET S, Bad # {}
  PROVE  \E s \in Bad : \A x \in s : s \ {x} \notin Bad
<1> DEFINE Sizes == {n \in Nat : \E t \in Bad : Cardinality(t) = n}
<1>1. \A t \in Bad : IsFiniteSet(t) /\ Cardinality(t) \in Nat
  BY FS_Subset, FS_CardinalityType
<1>2. PICK t0 \in Bad : TRUE
  OBVIOUS
<1>3. Cardinality(t0) \in Sizes /\ Sizes \in SUBSET Nat
  BY <1>1
<1>4. PICK n \in Sizes : \A m \in Sizes : n <= m
  <2> HIDE DEF Sizes
  <2>1. QED
    BY <1>3, MinIsLeast
<1>5. PICK s \in Bad : Cardinality(s) = n
  OBVIOUS
<1>6. ASSUME NEW x \in s, s \ {x} \in Bad PROVE FALSE
  <2>1. Cardinality(s \ {x}) = n - 1 /\ Cardinality(s \ {x}) \in Nat
    BY <1>1, <1>5, <1>6, FS_RemoveElement
  <2>2. n - 1 \in Sizes
    BY <1>6, <2>1
  <2>3. QED
    BY <1>4, <2>2
<1>7. QED
  BY <1>6

Sum(f, S) == SumFunctionOnSet(f, S)

Pick(s) == CHOOSE x \in s : TRUE

Sums(f, g, D) == g = [s \in D |-> IF s = {} THEN 0 ELSE f[Pick(s)] + g[s \ {Pick(s)}]]

LEMMA SumIsAny ==
  ASSUME NEW f, NEW S
  PROVE  Sum(f, S) = (CHOOSE g : Sums(f, g, SUBSET S))[S]
  BY Zenon DEF Sum, SumFunctionOnSet, FoldFunctionOnSet, MapThenFoldSet, Sums, Pick

(* The sets of at most n elements have their sums.                         *)
LEMMA SumsExist ==
  ASSUME NEW f, NEW S, IsFiniteSet(S)
  PROVE  \E g : Sums(f, g, SUBSET S)
<1> DEFINE Upto(n) == {s \in SUBSET S : Cardinality(s) <= n}
           None == {n \in Nat : ~ \E g : Sums(f, g, Upto(n))}
<1>1. \A s \in SUBSET S : /\ IsFiniteSet(s) /\ Cardinality(s) \in Nat
                          /\ s # {} => /\ Pick(s) \in s
                                       /\ Cardinality(s \ {Pick(s)}) = Cardinality(s) - 1
                                       /\ s \ {Pick(s)} \in SUBSET S
                          /\ Cardinality(s) <= Cardinality(S)
  <2> SUFFICES ASSUME NEW s \in SUBSET S
               PROVE  /\ IsFiniteSet(s) /\ Cardinality(s) \in Nat
                      /\ s # {} => /\ Pick(s) \in s
                                   /\ Cardinality(s \ {Pick(s)}) = Cardinality(s) - 1
                                   /\ s \ {Pick(s)} \in SUBSET S
                      /\ Cardinality(s) <= Cardinality(S)
    OBVIOUS
  <2>1. IsFiniteSet(s) /\ Cardinality(s) \in Nat /\ Cardinality(s) <= Cardinality(S)
    BY FS_Subset, FS_CardinalityType
  <2>2. s # {} => Pick(s) \in s
    BY DEF Pick
  <2>3. QED
    BY <2>1, <2>2, FS_RemoveElement
<1>2. None = {}
  <2> SUFFICES ASSUME None # {} PROVE FALSE
    OBVIOUS
  <2>1. PICK n \in None : \A m \in None : n <= m
    <3>1. None \in SUBSET Nat
      OBVIOUS
    <3> HIDE DEF None
    <3>2. QED
      BY <3>1, MinIsLeast
  <2>2. n \in Nat /\ ~ \E g : Sums(f, g, Upto(n))
    OBVIOUS
  <2>3. CASE n = 0
    <3> DEFINE g == [s \in Upto(0) |-> 0]
    <3>1. ASSUME NEW s \in Upto(0) PROVE s = {}
      <4>1. IsFiniteSet(s) /\ Cardinality(s) = 0
        <5>1. s \in SUBSET S /\ Cardinality(s) <= 0
          OBVIOUS
        <5>2. IsFiniteSet(s) /\ Cardinality(s) \in Nat
          BY <1>1, <5>1
        <5>3. QED
          BY <5>1, <5>2
      <4>2. QED
        BY <4>1, FS_EmptySet
    <3>2. Sums(f, g, Upto(0))
      BY <3>1 DEF Sums
    <3>3. QED
      BY <2>2, <2>3, <3>2
  <2>4. CASE n # 0
    <3>1. n - 1 \in Nat /\ n - 1 \notin None
      <4> HIDE DEF None
      <4>1. n - 1 \in Nat
        BY <2>2, <2>4
      <4>2. ~(n <= n - 1)
        BY <2>2
      <4>3. QED
        BY <2>1, <4>1, <4>2
    <3>2. PICK h : Sums(f, h, Upto(n - 1))
      BY <3>1
    <3> DEFINE step(s, k) == IF s = {} THEN 0 ELSE f[Pick(s)] + k[s \ {Pick(s)}]
               g == [s \in Upto(n) |-> step(s, h)]
    <3>3. h = [s \in Upto(n - 1) |-> step(s, h)]
      BY <3>2 DEF Sums
    <3>4. \A s \in Upto(n - 1) : s \in Upto(n)
      <4>1. ASSUME NEW s \in SUBSET S, Cardinality(s) <= n - 1 PROVE Cardinality(s) <= n
        <5>1. Cardinality(s) \in Nat
          BY <1>1
        <5>2. QED
          BY <2>2, <4>1, <5>1
      <4>2. QED
        BY <4>1
    <3>5. \A s \in Upto(n - 1) : g[s] = h[s]
      <4> HIDE DEF step
      <4>1. \A s \in Upto(n - 1) : h[s] = step(s, h)
        BY <3>3
      <4>2. \A s \in Upto(n - 1) : g[s] = step(s, h)
        BY <3>4
      <4>3. QED
        BY <4>1, <4>2
    <3>6. \A s \in Upto(n) : s # {} => s \ {Pick(s)} \in Upto(n - 1)
      BY <1>1, <2>2
    <3>7. \A s \in Upto(n) : step(s, h) = step(s, g)
      BY <3>5, <3>6
    <3>8. g = [s \in Upto(n) |-> step(s, g)]
      BY <3>7
    <3>9. Sums(f, g, Upto(n))
      BY <3>8 DEF Sums
    <3>10. QED
      BY <2>2, <3>9
  <2>5. QED
    BY <2>3, <2>4
<1>3. Cardinality(S) \in Nat /\ Upto(Cardinality(S)) = SUBSET S
  BY <1>1, FS_CardinalityType
<1>4. QED
  BY <1>2, <1>3


Bounded(f, D) == \A x \in D : f[x] \in Int

(* A sum does not depend on the set whose subsets it was computed for.     *)
LEMMA SumsAgree ==
  ASSUME NEW f, NEW S, IsFiniteSet(S), NEW T \in SUBSET S, NEW g, NEW h,
         Sums(f, g, SUBSET S), Sums(f, h, SUBSET T)
  PROVE  \A s \in SUBSET T : g[s] = h[s]
<1> DEFINE Bad == {s \in SUBSET T : g[s] # h[s]}
<1> SUFFICES ASSUME Bad # {} PROVE FALSE
  OBVIOUS
<1>1. IsFiniteSet(T) /\ Bad \in SUBSET SUBSET T
  BY FS_Subset
<1>2. PICK s \in Bad : \A x \in s : s \ {x} \notin Bad
  <2> HIDE DEF Bad
  <2>1. QED
    BY <1>1, SmallestSet
<1>3. s \in SUBSET T /\ s \in SUBSET S /\ g[s] # h[s]
  OBVIOUS
<1>4. /\ g[s] = IF s = {} THEN 0 ELSE f[Pick(s)] + g[s \ {Pick(s)}]
      /\ h[s] = IF s = {} THEN 0 ELSE f[Pick(s)] + h[s \ {Pick(s)}]
  BY <1>3 DEF Sums
<1>5. s # {}
  BY <1>3, <1>4
<1>6. Pick(s) \in s
  BY <1>5 DEF Pick
<1>7. g[s \ {Pick(s)}] = h[s \ {Pick(s)}]
  <2>1. s \ {Pick(s)} \in SUBSET T
    BY <1>3
  <2>2. QED
    BY <1>2, <1>6, <2>1
<1>8. QED
  BY <1>3, <1>4, <1>5, <1>7

LEMMA SumStep ==
  ASSUME NEW f, NEW S, IsFiniteSet(S)
  PROVE  /\ S = {} => Sum(f, S) = 0
         /\ S # {} => /\ Pick(S) \in S
                      /\ Sum(f, S) = f[Pick(S)] + Sum(f, S \ {Pick(S)})
<1> DEFINE g == CHOOSE k : Sums(f, k, SUBSET S)
           T == S \ {Pick(S)}
           h == CHOOSE k : Sums(f, k, SUBSET T)
<1>1. Sums(f, g, SUBSET S)
  BY SumsExist
<1>2. Sum(f, S) = g[S] /\ Sum(f, T) = h[T]
  BY SumIsAny
<1>3. IsFiniteSet(T) /\ T \in SUBSET S
  BY FS_Subset
<1>4. Sums(f, h, SUBSET T)
  BY <1>3, SumsExist
<1> HIDE DEF g, h
<1>5. g[T] = h[T]
  <2>1. \A s \in SUBSET T : g[s] = h[s]
    <3> HIDE DEF T
    <3>1. QED
      BY <1>1, <1>3, <1>4, SumsAgree
  <2>2. QED
    BY <2>1
<1>6. g[S] = IF S = {} THEN 0 ELSE f[Pick(S)] + g[T]
  BY <1>1 DEF Sums
<1>7. S # {} => Pick(S) \in S
  BY DEF Pick
<1>8. QED
  BY <1>2, <1>5, <1>6, <1>7

LEMMA SumType ==
  ASSUME NEW f, NEW S, IsFiniteSet(S), Bounded(f, S)
  PROVE  Sum(f, S) \in Int
<1> DEFINE Bad == {s \in SUBSET S : Sum(f, s) \notin Int}
<1> SUFFICES ASSUME Bad # {} PROVE FALSE
  OBVIOUS
<1>1. PICK s \in Bad : \A x \in s : s \ {x} \notin Bad
  <2>1. Bad \in SUBSET SUBSET S
    OBVIOUS
  <2> HIDE DEF Bad
  <2>2. QED
    BY <2>1, SmallestSet
<1>2. s \in SUBSET S /\ Sum(f, s) \notin Int /\ IsFiniteSet(s)
  BY FS_Subset
<1>3. s # {} /\ Pick(s) \in s /\ Sum(f, s) = f[Pick(s)] + Sum(f, s \ {Pick(s)})
  <2> HIDE DEF Bad
  <2>1. IsFiniteSet(s) /\ 0 \in Int
    BY <1>2
  <2>2. /\ s = {} => Sum(f, s) = 0
        /\ s # {} => Pick(s) \in s /\ Sum(f, s) = f[Pick(s)] + Sum(f, s \ {Pick(s)})
    BY <2>1, SumStep
  <2>3. QED
    BY <1>2, <2>1, <2>2
<1>4. Sum(f, s \ {Pick(s)}) \in Int
  <2>1. s \ {Pick(s)} \in SUBSET S
    BY <1>2
  <2>2. QED
    BY <1>1, <1>3, <2>1
<1>5. f[Pick(s)] \in Int
  BY <1>2, <1>3 DEF Bounded
<1>6. QED
  BY <1>2, <1>3, <1>4, <1>5

(* Any member may be counted first.                                        *)
LEMMA SumRemove ==
  ASSUME NEW f, NEW S, IsFiniteSet(S), Bounded(f, S), NEW y \in S
  PROVE  Sum(f, S) = f[y] + Sum(f, S \ {y})
<1> DEFINE Bad == {s \in SUBSET S : \E z \in s : Sum(f, s) # f[z] + Sum(f, s \ {z})}
<1>1. ASSUME Bad # {} PROVE FALSE
  <2>1. PICK s \in Bad : \A z \in s : s \ {z} \notin Bad
    <3>1. Bad \in SUBSET SUBSET S
      OBVIOUS
    <3> HIDE DEF Bad
    <3>2. QED
      BY <1>1, <3>1, SmallestSet
  <2>2. PICK z \in s : Sum(f, s) # f[z] + Sum(f, s \ {z})
    OBVIOUS
  <2>3. s \in SUBSET S /\ IsFiniteSet(s)
    BY FS_Subset
  <2> DEFINE x == Pick(s)
  <2>4. x \in s /\ Sum(f, s) = f[x] + Sum(f, s \ {x})
    BY <2>2, <2>3, SumStep
  <2> HIDE DEF x
  <2>5. z # x
    BY <2>2, <2>4
  <2>6. \A u \in s : \A v \in s \ {u} : Sum(f, s \ {u}) = f[v] + Sum(f, (s \ {u}) \ {v})
    <3>1. \A u \in s : s \ {u} \in SUBSET S
      BY <2>3
    <3>2. QED
      BY <2>1, <3>1
  <2>7. /\ Sum(f, s \ {x}) = f[z] + Sum(f, (s \ {x}) \ {z})
        /\ Sum(f, s \ {z}) = f[x] + Sum(f, (s \ {z}) \ {x})
        /\ (s \ {x}) \ {z} = (s \ {z}) \ {x}
    BY <2>4, <2>5, <2>6
  <2>8. f[x] \in Int /\ f[z] \in Int /\ Sum(f, (s \ {z}) \ {x}) \in Int
    <3>1. f[x] \in Int /\ f[z] \in Int
      BY <2>3, <2>4 DEF Bounded
    <3>2. IsFiniteSet((s \ {z}) \ {x}) /\ Bounded(f, (s \ {z}) \ {x})
      BY <2>3, FS_Subset DEF Bounded
    <3>3. QED
      BY <3>1, <3>2, SumType
  <2>9. QED
    <3> DEFINE rest == Sum(f, (s \ {z}) \ {x})
    <3>1. Sum(f, s) = f[x] + (f[z] + rest) /\ Sum(f, s \ {z}) = f[x] + rest
      BY <2>4, <2>7
    <3> HIDE DEF rest
    <3>2. QED
      BY <2>2, <2>8, <3>1 DEF rest
<1>2. S \in SUBSET S /\ S \notin Bad
  BY <1>1
<1>3. QED
  BY <1>2

LEMMA SumAdd ==
  ASSUME NEW f, NEW S, IsFiniteSet(S), NEW y, y \notin S, Bounded(f, S \cup {y})
  PROVE  Sum(f, S \cup {y}) = f[y] + Sum(f, S)
<1>1. IsFiniteSet(S \cup {y}) /\ (S \cup {y}) \ {y} = S /\ y \in S \cup {y}
  BY FS_AddElement
<1> DEFINE T == S \cup {y}
<1>2. T \ {y} = S /\ y \in T /\ IsFiniteSet(T) /\ Bounded(f, T)
  BY <1>1
<1> HIDE DEF T
<1>3. Sum(f, T) = f[y] + Sum(f, T \ {y})
  BY <1>2, SumRemove
<1>4. QED
  BY <1>2, <1>3 DEF T

LEMMA SumEqual ==
  ASSUME NEW f, NEW g, NEW S, IsFiniteSet(S), \A x \in S : f[x] = g[x]
  PROVE  Sum(f, S) = Sum(g, S)
<1> DEFINE Bad == {s \in SUBSET S : Sum(f, s) # Sum(g, s)}
<1>1. ASSUME Bad # {} PROVE FALSE
  <2>1. PICK s \in Bad : \A z \in s : s \ {z} \notin Bad
    <3>1. Bad \in SUBSET SUBSET S
      OBVIOUS
    <3> HIDE DEF Bad
    <3>2. QED
      BY <1>1, <3>1, SmallestSet
  <2>2. s \in SUBSET S /\ IsFiniteSet(s) /\ Sum(f, s) # Sum(g, s)
    BY FS_Subset
  <2> DEFINE x == Pick(s)
  <2>3. /\ s # {} => x \in s /\ Sum(f, s) = f[x] + Sum(f, s \ {x})
                             /\ Sum(g, s) = g[x] + Sum(g, s \ {x})
        /\ s = {} => Sum(f, s) = 0 /\ Sum(g, s) = 0
    BY <2>2, SumStep
  <2> HIDE DEF x
  <2>4. s # {} /\ x \in s
    BY <2>2, <2>3
  <2>5. s \ {x} \in SUBSET S
    BY <2>2
  <2>6. Sum(f, s \ {x}) = Sum(g, s \ {x}) /\ f[x] = g[x]
    BY <2>1, <2>2, <2>4, <2>5
  <2>7. QED
    BY <2>2, <2>3, <2>4, <2>6
<1>2. S \in SUBSET S /\ S \notin Bad
  BY <1>1
<1>3. QED
  BY <1>2

(* A sum of which one summand changes.                                     *)
LEMMA SumChange ==
  ASSUME NEW f, NEW g, NEW S, IsFiniteSet(S), Bounded(f, S), NEW y \in S, g[y] \in Int,
         \A x \in S \ {y} : g[x] = f[x]
  PROVE  Sum(g, S) = Sum(f, S) - f[y] + g[y]
<1>1. IsFiniteSet(S \ {y}) /\ Bounded(g, S) /\ Bounded(f, S \ {y})
  BY FS_RemoveElement DEF Bounded
<1>2. Sum(f, S) = f[y] + Sum(f, S \ {y}) /\ Sum(g, S) = g[y] + Sum(g, S \ {y})
  BY <1>1, SumRemove
<1>3. Sum(f, S \ {y}) = Sum(g, S \ {y})
  BY <1>1, SumEqual
<1>4. f[y] \in Int /\ Sum(f, S \ {y}) \in Int
  BY <1>1, SumType DEF Bounded
<1>5. QED
  BY <1>2, <1>3, <1>4

(* What is left of a set of sizes is no larger.                            *)
LEMMA SumLess ==
  ASSUME NEW f, NEW S, IsFiniteSet(S), NEW T \in SUBSET S, \A x \in S : f[x] \in Nat
  PROVE  Sum(f, T) <= Sum(f, S)
<1> DEFINE Bad == {s \in SUBSET S : T \subseteq s /\ ~(Sum(f, T) <= Sum(f, s))}
<1>1. ASSUME Bad # {} PROVE FALSE
  <2>1. PICK s \in Bad : \A z \in s : s \ {z} \notin Bad
    <3>1. Bad \in SUBSET SUBSET S
      OBVIOUS
    <3> HIDE DEF Bad
    <3>2. QED
      BY <1>1, <3>1, SmallestSet
  <2>2. s \in SUBSET S /\ IsFiniteSet(s) /\ T \subseteq s /\ ~(Sum(f, T) <= Sum(f, s))
    BY FS_Subset
  <2>3. Bounded(f, s) /\ \A x \in s : Bounded(f, s \ {x}) /\ IsFiniteSet(s \ {x})
    BY <2>2, FS_RemoveElement DEF Bounded
  <2>4. Sum(f, s) \in Int /\ \A x \in s : Sum(f, s \ {x}) \in Int
    BY <2>2, <2>3, SumType
  <2>5. s # T
    BY <2>2, <2>4
  <2>6. PICK x \in s : x \notin T
    BY <2>2, <2>5
  <2>7. s \ {x} \in SUBSET S /\ T \subseteq s \ {x}
    BY <2>2, <2>6
  <2>8. Sum(f, T) <= Sum(f, s \ {x})
    BY <2>1, <2>6, <2>7
  <2>9. Sum(f, s) = f[x] + Sum(f, s \ {x}) /\ f[x] \in Nat
    BY <2>2, <2>3, SumRemove
  <2>10. Sum(f, T) \in Int
    <3>1. IsFiniteSet(T) /\ Bounded(f, T)
      BY FS_Subset DEF Bounded
    <3>2. QED
      BY <3>1, SumType
  <2>11. QED
    BY <2>2, <2>4, <2>8, <2>9, <2>10
<1>2. S \in SUBSET S /\ S \notin Bad
  BY <1>1
<1>3. QED
  BY <1>2

LEMMA SumZero ==
  ASSUME NEW f, NEW S, IsFiniteSet(S), \A x \in S : f[x] = 0
  PROVE  Sum(f, S) = 0
<1> DEFINE Bad == {s \in SUBSET S : Sum(f, s) # 0}
<1>1. ASSUME Bad # {} PROVE FALSE
  <2>1. PICK s \in Bad : \A z \in s : s \ {z} \notin Bad
    <3>1. Bad \in SUBSET SUBSET S
      OBVIOUS
    <3> HIDE DEF Bad
    <3>2. QED
      BY <1>1, <3>1, SmallestSet
  <2>2. s \in SUBSET S /\ IsFiniteSet(s) /\ Sum(f, s) # 0
    BY FS_Subset
  <2> DEFINE x == Pick(s)
  <2>3. s # {} /\ x \in s /\ Sum(f, s) = f[x] + Sum(f, s \ {x})
    BY <2>2, SumStep
  <2> HIDE DEF x
  <2>4. s \ {x} \in SUBSET S
    BY <2>2
  <2>5. Sum(f, s \ {x}) = 0 /\ f[x] = 0
    BY <2>1, <2>2, <2>3, <2>4
  <2>6. QED
    BY <2>2, <2>3, <2>5
<1>2. S \in SUBSET S /\ S \notin Bad
  BY <1>1
<1>3. QED
  BY <1>2

---------------------------------------------------------------------------
(* The buckets.                                                            *)

LEMMA PowerType == 2^Width \in Nat \ {0}
<1> DEFINE turns == 1 .. Width
<1>1. IsFiniteSet(turns) /\ Cardinality(turns) = Width
  BY PoolAssumption, FS_Interval
<1> HIDE DEF turns
<1>2. IsFiniteSet(SUBSET turns) /\ Cardinality(SUBSET turns) = 2^Width
  BY <1>1, FS_SUBSET
<1>3. Cardinality(SUBSET turns) \in Nat
  BY <1>2, FS_CardinalityType
<1>4. SUBSET turns # {}
  OBVIOUS
<1>5. Cardinality(SUBSET turns) # 0
  BY <1>2, <1>4, FS_EmptySet
<1>6. QED
  BY <1>2, <1>3, <1>5

LEMMA DoubledType ==
  ASSUME NEW s \in Int
  PROVE  Doubled(s) \in Int
<1>1. (2 * s) % 2^Width \in Int
  BY PowerType
<1>2. QED
  BY <1>1, PowerType DEF Doubled

(* The values of s are well defined.                                       *)
LEMMA DoublingSteps ==
  /\ Doubling[0] = 1
  /\ \A n \in 1 .. Width : Doubling[n] = Doubled(Doubling[n - 1])
<1> DEFINE turn(n, g) == IF n = 0 THEN 1 ELSE Doubled(g[n - 1])
           None == {m \in Nat : ~ \E g : g = [n \in 0 .. m |-> turn(n, g)]}
<1>1. ASSUME None # {} PROVE FALSE
  <2>1. PICK m \in None : \A k \in None : m <= k
    <3>1. None \in SUBSET Nat
      OBVIOUS
    <3> HIDE DEF None
    <3>2. QED
      BY <1>1, <3>1, MinIsLeast
  <2>2. m \in Nat /\ ~ \E g : g = [n \in 0 .. m |-> turn(n, g)]
    OBVIOUS
  <2>3. CASE m = 0
    <3> DEFINE g == [n \in 0 .. 0 |-> 1]
    <3>1. g = [n \in 0 .. 0 |-> turn(n, g)]
      OBVIOUS
    <3>2. QED
      BY <2>2, <2>3, <3>1
  <2>4. CASE m # 0
    <3>1. m - 1 \in Nat /\ m - 1 \notin None
      <4> HIDE DEF None
      <4>1. m - 1 \in Nat /\ ~(m <= m - 1)
        BY <2>2, <2>4
      <4>2. QED
        BY <2>1, <4>1
    <3>2. PICK h : h = [n \in 0 .. m - 1 |-> turn(n, h)]
      BY <3>1
    <3> DEFINE g == [n \in 0 .. m |-> turn(n, h)]
    <3>3. \A n \in 0 .. m - 1 : g[n] = h[n]
      <4>1. \A n \in 0 .. m - 1 : n \in 0 .. m
        BY <2>2
      <4> HIDE DEF turn
      <4>2. \A n \in 0 .. m - 1 : h[n] = turn(n, h)
        BY <3>2
      <4>3. QED
        BY <4>1, <4>2
    <3>4. \A n \in 0 .. m : turn(n, h) = turn(n, g)
      <4>1. \A n \in 0 .. m : n # 0 => n - 1 \in 0 .. m - 1
        BY <2>2
      <4>2. QED
        BY <3>3, <4>1
    <3>5. g = [n \in 0 .. m |-> turn(n, g)]
      BY <3>4
    <3>6. QED
      BY <2>2, <3>5
  <2>5. QED
    BY <2>3, <2>4
<1>2. \E g : g = [n \in 0 .. Width |-> turn(n, g)]
  BY <1>1, PoolAssumption
<1>3. Doubling = [n \in 0 .. Width |-> turn(n, Doubling)]
  <2>1. Doubling = CHOOSE g : g = [n \in 0 .. Width |-> turn(n, g)]
    BY DEF Doubling
  <2>2. QED
    BY <1>2, <2>1
<1>4. QED
  BY <1>3, PoolAssumption

LEMMA BucketType == Bucket \subseteq Int /\ IsFiniteSet(Bucket)
<1>1. \A n \in 0 .. Width : Doubling[n] \in Int
  <2> DEFINE Bad == {n \in 0 .. Width : Doubling[n] \notin Int}
  <2>1. ASSUME Bad # {} PROVE FALSE
    <3>1. PICK n \in Bad : \A k \in Bad : n <= k
      <4>1. Bad \in SUBSET Nat
        BY PoolAssumption
      <4> HIDE DEF Bad
      <4>2. QED
        BY <2>1, <4>1, MinIsLeast
    <3>2. n \in 0 .. Width /\ Doubling[n] \notin Int
      OBVIOUS
    <3>3. n # 0
      BY <3>2, DoublingSteps
    <3>4. n - 1 \in 0 .. Width /\ ~(n <= n - 1) /\ n \in 1 .. Width
      BY <3>2, <3>3, PoolAssumption
    <3>5. Doubling[n - 1] \in Int
      BY <3>1, <3>4
    <3>6. QED
      BY <3>2, <3>4, <3>5, DoublingSteps, DoubledType
  <2>2. QED
    BY <2>1
<1>2. IsFiniteSet({Doubling[n] : n \in 0 .. Width})
  <2> DEFINE T == {Doubling[n] : n \in 0 .. Width}
             f == [n \in 0 .. Width |-> Doubling[n]]
  <2>1. f \in Surjection(0 .. Width, T)
    BY DEF Surjection
  <2>2. IsFiniteSet(0 .. Width)
    BY PoolAssumption, FS_Interval
  <2> HIDE DEF T, f
  <2>3. IsFiniteSet(T)
    BY <2>1, <2>2, FS_Surjection
  <2>4. QED
    BY <2>3 DEF T
<1>3. IsFiniteSet({MinBucket} \cup {Doubling[n] : n \in 0 .. Width})
  BY <1>2, FS_Singleton, FS_Union
<1>4. QED
  BY <1>1, <1>3, PoolAssumption DEF Bucket

---------------------------------------------------------------------------
(* What poolStats says of the bins.                                        *)

InMode(bins, m) == [b \in Bucket |-> b * Len(bins[<<m, b>>])]

StatsOf(bins) == Sum(InMode(bins, "shared"), Bucket) + Sum(InMode(bins, "private"), Bucket)

LEMMA IdleIsBinned ==
  ASSUME NEW bins, NEW dev, BinsOK(bins, dev)
  PROVE  \A b : b \in UNION {Range(bins[k]) : k \in Mode \X Bucket} <=> Binned(b, bins)
<1>1. \A k \in Key : DOMAIN bins[k] = 1 .. Len(bins[k])
  BY DEF BinsOK
<1>2. QED
  BY <1>1 DEF Binned, Range, Key

LEMMA InModeType ==
  ASSUME NEW bins, NEW dev, BinsOK(bins, dev), NEW m \in Mode
  PROVE  /\ Bounded(InMode(bins, m), Bucket)
         /\ \A b \in Bucket : InMode(bins, m)[b] = b * Len(bins[<<m, b>>])
<1> SUFFICES ASSUME NEW b \in Bucket
             PROVE  InMode(bins, m)[b] \in Int /\ InMode(bins, m)[b] = b * Len(bins[<<m, b>>])
  BY DEF Bounded
<1>1. <<m, b>> \in Key
  BY DEF Key
<1>2. Len(bins[<<m, b>>]) \in Nat
  BY <1>1 DEF BinsOK
<1>3. b \in Int
  BY BucketType
<1>4. b * Len(bins[<<m, b>>]) \in Int
  BY <1>2, <1>3
<1>5. QED
  BY <1>4 DEF InMode

(* One bin gets longer or shorter.                                         *)
LEMMA StatsChange ==
  ASSUME NEW bins, NEW new, NEW dev, BinsOK(bins, dev), BinsOK(new, dev), NEW k \in Key,
         \A l \in Key \ {k} : new[l] = bins[l], NEW d \in Int, Len(new[k]) = Len(bins[k]) + d
  PROVE  StatsOf(bins) \in Int /\ StatsOf(new) = StatsOf(bins) + k[2] * d
<1>1. k[1] \in Mode /\ k[2] \in Bucket /\ k = <<k[1], k[2]>>
  BY DEF Key
<1>2. k[2] \in Int /\ IsFiniteSet(Bucket)
  BY <1>1, BucketType
<1>3. Len(bins[k]) \in Nat
  BY DEF BinsOK
<1>4. \A m \in Mode : Sum(InMode(bins, m), Bucket) \in Int
  BY <1>2, InModeType, SumType
<1>5. \A m \in Mode : m # k[1] => Sum(InMode(new, m), Bucket) = Sum(InMode(bins, m), Bucket)
  <2> SUFFICES ASSUME NEW m \in Mode, m # k[1]
               PROVE  Sum(InMode(new, m), Bucket) = Sum(InMode(bins, m), Bucket)
    OBVIOUS
  <2>1. \A b \in Bucket : <<m, b>> \in Key /\ <<m, b>> # k
    BY <1>1 DEF Key
  <2>2. \A b \in Bucket : InMode(new, m)[b] = InMode(bins, m)[b]
    <3>1. \A b \in Bucket : new[<<m, b>>] = bins[<<m, b>>]
      BY <2>1
    <3>2. \A b \in Bucket : InMode(new, m)[b] = b * Len(new[<<m, b>>])
      BY InModeType
    <3>3. \A b \in Bucket : InMode(bins, m)[b] = b * Len(bins[<<m, b>>])
      BY InModeType
    <3>4. QED
      BY <3>1, <3>2, <3>3
  <2>3. QED
    BY <1>2, <2>2, SumEqual
<1>6. Sum(InMode(new, k[1]), Bucket) = Sum(InMode(bins, k[1]), Bucket) + k[2] * d
  <2> DEFINE f == InMode(bins, k[1])
             g == InMode(new, k[1])
  <2>1. f[k[2]] = k[2] * Len(bins[k]) /\ g[k[2]] = k[2] * (Len(bins[k]) + d)
    BY <1>1, InModeType
  <2>2. \A b \in Bucket \ {k[2]} : <<k[1], b>> \in Key \ {k}
    BY <1>1 DEF Key
  <2>3. \A b \in Bucket \ {k[2]} : g[b] = f[b]
    <3>1. \A b \in Bucket \ {k[2]} : new[<<k[1], b>>] = bins[<<k[1], b>>]
      BY <2>2
    <3>2. \A b \in Bucket : g[b] = b * Len(new[<<k[1], b>>])
      BY <1>1, InModeType
    <3>3. \A b \in Bucket : f[b] = b * Len(bins[<<k[1], b>>])
      BY <1>1, InModeType
    <3>4. QED
      BY <3>1, <3>2, <3>3
  <2>4. Bounded(f, Bucket) /\ Bounded(g, Bucket)
    BY <1>1, InModeType
  <2> HIDE DEF f, g
  <2>5. f[k[2]] \in Int /\ g[k[2]] \in Int /\ Sum(f, Bucket) \in Int
    BY <1>1, <1>2, <2>4, SumType DEF Bounded
  <2>6. Sum(g, Bucket) = Sum(f, Bucket) - f[k[2]] + g[k[2]]
    BY <1>1, <1>2, <2>3, <2>4, <2>5, SumChange
  <2>7. k[2] * (Len(bins[k]) + d) = k[2] * Len(bins[k]) + k[2] * d
    BY <1>2, <1>3
  <2>8. k[2] * Len(bins[k]) \in Int /\ k[2] * d \in Int
    BY <1>2, <1>3
  <2>9. Sum(g, Bucket) = Sum(f, Bucket) + k[2] * d
    BY <2>1, <2>5, <2>6, <2>7, <2>8
  <2>10. QED
    BY <2>9 DEF f, g
<1>7. k[2] * d \in Int
  BY <1>2
<1>8. CASE k[1] = "shared"
  BY <1>4, <1>5, <1>6, <1>7, <1>8 DEF StatsOf, Mode
<1>9. CASE k[1] = "private"
  BY <1>4, <1>5, <1>6, <1>7, <1>9 DEF StatsOf, Mode
<1>10. QED
  BY <1>1, <1>8, <1>9 DEF Mode

LEMMA StatsOfNone == StatsOf(NoBuffers) = 0
<1>1. \A m \in Mode : \A b \in Bucket : InMode(NoBuffers, m)[b] = 0
  <2> SUFFICES ASSUME NEW m \in Mode, NEW b \in Bucket PROVE InMode(NoBuffers, m)[b] = 0
    OBVIOUS
  <2>1. NoBuffers[<<m, b>>] = <<>> /\ Len(<<>>) = 0 /\ b \in Int
    BY EmptySeq, BucketType DEF NoBuffers
  <2>2. QED
    BY <2>1 DEF InMode
<1>2. \A m \in Mode : Sum(InMode(NoBuffers, m), Bucket) = 0
  BY <1>1, BucketType, SumZero
<1>3. QED
  BY <1>2 DEF StatsOf, Mode

Sizes(dev) == [b \in DOMAIN dev |-> dev[b].bytes]

IdleIn(bins, dev) == {b \in DOMAIN dev : Binned(b, bins)}

(* What poolStats reports is what is idle.                                 *)
StatsOK(bins, dev) == StatsOf(bins) = Sum(Sizes(dev), IdleIn(bins, dev))

DeviceOK(dev) == IsFiniteSet(DOMAIN dev) /\ \A b \in DOMAIN dev : dev[b].bytes \in Nat

LEMMA SizesType ==
  ASSUME NEW dev, DeviceOK(dev), NEW B \in SUBSET DOMAIN dev
  PROVE  IsFiniteSet(B) /\ Bounded(Sizes(dev), B) /\ Sum(Sizes(dev), B) \in Int
<1>1. IsFiniteSet(B) /\ Bounded(Sizes(dev), B)
  BY FS_Subset DEF DeviceOK, Bounded, Sizes
<1>2. QED
  BY <1>1, SumType

LEMMA PutBins ==
  ASSUME NEW bins, NEW dev, BinsOK(bins, dev), NEW k \in Key, NEW b \in DOMAIN dev
  PROVE  /\ \A x : Binned(x, bins) \/ x = b => Binned(x, Put(bins, k, b))
         /\ \A l \in Key \ {k} : Put(bins, k, b)[l] = bins[l]
         /\ Len(Put(bins, k, b)[k]) = Len(bins[k]) + 1
<1> DEFINE s == bins[k]
           new == Put(bins, k, b)
<1>1. s \in Seq(DOMAIN dev) /\ new[k] = Append(s, b) /\ \A l \in Key \ {k} : new[l] = bins[l]
  BY DEF BinsOK, Put
<1> HIDE DEF new
<1>2. /\ Len(s) \in Nat /\ Len(new[k]) = Len(s) + 1 /\ new[k][Len(s) + 1] = b
      /\ \A i \in 1 .. Len(s) : new[k][i] = s[i]
  <2> HIDE DEF s
  <2>1. /\ Len(s) \in Nat
        /\ Len(Append(s, b)) = Len(s) + 1 /\ Append(s, b)[Len(s) + 1] = b
        /\ \A i \in 1 .. Len(s) : Append(s, b)[i] = s[i]
    BY <1>1, AppendOne
  <2>2. QED
    BY <1>1, <2>1
<1>3. Len(s) + 1 \in 1 .. Len(s) + 1 /\ \A i \in 1 .. Len(s) : i \in 1 .. Len(s) + 1
  BY <1>2
<1>4. Binned(b, new)
  BY <1>2, <1>3 DEF Binned
<1>5. ASSUME NEW x, Binned(x, bins) PROVE Binned(x, new)
  <2>1. PICK l \in Key : \E i \in 1 .. Len(bins[l]) : bins[l][i] = x
    BY <1>5 DEF Binned
  <2>2. PICK i \in 1 .. Len(bins[l]) : bins[l][i] = x
    BY <2>1
  <2>3. i \in 1 .. Len(new[l]) /\ new[l][i] = x
    BY <1>1, <1>2, <1>3, <2>2
  <2>4. QED
    BY <2>3 DEF Binned
<1>6. QED
  BY <1>1, <1>2, <1>4, <1>5 DEF new

LEMMA PutStats ==
  ASSUME NEW bins, NEW dev, BinsOK(bins, dev), DeviceOK(dev), NEW k \in Key,
         NEW b \in DOMAIN dev, dev[b].bytes = k[2], ~Binned(b, bins), StatsOK(bins, dev)
  PROVE  StatsOK(Put(bins, k, b), dev)
<1> DEFINE new == Put(bins, k, b)
           old == IdleIn(bins, dev)
<1>1. BinsOK(new, dev) /\ \A x : Binned(x, new) => Binned(x, bins) \/ x = b
  BY PutOK
<1>2. /\ \A x : Binned(x, bins) \/ x = b => Binned(x, new)
      /\ \A l \in Key \ {k} : new[l] = bins[l]
      /\ Len(new[k]) = Len(bins[k]) + 1
  BY PutBins
<1> HIDE DEF new
<1>3. IdleIn(new, dev) = old \cup {b} /\ b \notin old
  BY <1>1, <1>2 DEF IdleIn
<1>4. StatsOf(bins) \in Int /\ StatsOf(new) = StatsOf(bins) + k[2] * 1
  <2>1. \A d \in Int : Len(new[k]) = Len(bins[k]) + d =>
          StatsOf(bins) \in Int /\ StatsOf(new) = StatsOf(bins) + k[2] * d
    BY <1>1, <1>2, StatsChange
  <2>2. 1 \in Int
    OBVIOUS
  <2>3. QED
    BY <1>2, <2>1, <2>2
<1>5. /\ IsFiniteSet(old) /\ Bounded(Sizes(dev), old \cup {b})
  <2>1. old \in SUBSET DOMAIN dev /\ old \cup {b} \in SUBSET DOMAIN dev
    BY DEF IdleIn
  <2> HIDE DEF old
  <2>2. QED
    BY <2>1, SizesType
<1>6. Sum(Sizes(dev), old \cup {b}) = Sizes(dev)[b] + Sum(Sizes(dev), old)
  <2> HIDE DEF old
  <2>1. QED
    BY <1>3, <1>5, SumAdd
<1>7. Sizes(dev)[b] = k[2] /\ k[2] \in Nat
  BY DEF Sizes, DeviceOK
<1>8. StatsOf(bins) = Sum(Sizes(dev), old)
  BY DEF StatsOK
<1>9. StatsOf(new) = Sum(Sizes(dev), IdleIn(new, dev))
  BY <1>3, <1>4, <1>6, <1>7, <1>8
<1>10. QED
  BY <1>9 DEF StatsOK, new

LEMMA PopBins ==
  ASSUME NEW bins, NEW dev, BinsOK(bins, dev), NEW k \in Key, bins[k] # <<>>
  PROVE  /\ \A x : Binned(x, bins) => Binned(x, Popped(bins, k)) \/ x = Last(bins[k])
         /\ \A l \in Key \ {k} : Popped(bins, k)[l] = bins[l]
         /\ Len(Popped(bins, k)[k]) = Len(bins[k]) + (0 - 1)
<1> DEFINE n == Len(bins[k])
           new == Popped(bins, k)
<1>1. /\ new[k] = SubSeq(bins[k], 1, n - 1) /\ \A l \in Key \ {k} : new[l] = bins[l]
      /\ bins[k] \in Seq(DOMAIN dev) /\ n \in Nat \ {0}
  BY EmptySeq DEF BinsOK, Front, Popped
<1>2. /\ Len(new[k]) = n - 1
      /\ \A i \in 1 .. n - 1 : new[k][i] = bins[k][i]
  BY <1>1, SubSeqProperties
<1>3. Last(bins[k]) = bins[k][n]
  BY DEF Last
<1> HIDE DEF n, new
<1>4. ASSUME NEW x, Binned(x, bins), x # Last(bins[k]) PROVE Binned(x, new)
  <2>1. PICK l \in Key : \E i \in 1 .. Len(bins[l]) : bins[l][i] = x
    BY <1>4 DEF Binned
  <2>2. PICK i \in 1 .. Len(bins[l]) : bins[l][i] = x
    BY <2>1
  <2>3. CASE l = k
    <3>1. i \in 1 .. n /\ i # n
      BY <1>3, <1>4, <2>2, <2>3 DEF n
    <3>2. i \in 1 .. n - 1
      BY <1>1, <3>1
    <3>3. QED
      BY <1>2, <2>2, <2>3, <3>2 DEF Binned
  <2>4. CASE l # k
    BY <1>1, <2>2, <2>4 DEF Binned
  <2>5. QED
    BY <2>3, <2>4
<1>5. Len(new[k]) = n + (0 - 1)
  BY <1>1, <1>2
<1>6. QED
  BY <1>1, <1>4, <1>5 DEF n, new

LEMMA PopStats ==
  ASSUME NEW bins, NEW dev, BinsOK(bins, dev), DeviceOK(dev), NEW k \in Key,
         bins[k] # <<>>, StatsOK(bins, dev)
  PROVE  StatsOK(Popped(bins, k), dev)
<1> DEFINE b == Last(bins[k])
           new == Popped(bins, k)
           old == IdleIn(bins, dev)
<1>1. /\ BinsOK(new, dev) /\ ~Binned(b, new) /\ \A x : Binned(x, new) => Binned(x, bins)
      /\ Binned(b, bins) /\ b \in DOMAIN dev /\ dev[b].bytes = k[2]
  BY PopOK
<1>2. /\ \A x : Binned(x, bins) => Binned(x, new) \/ x = b
      /\ \A l \in Key \ {k} : new[l] = bins[l]
      /\ Len(new[k]) = Len(bins[k]) + (0 - 1)
  BY PopBins
<1> HIDE DEF b, new
<1>3. IdleIn(new, dev) = old \ {b} /\ b \in old
  BY <1>1, <1>2 DEF IdleIn
<1>4. StatsOf(bins) \in Int /\ StatsOf(new) = StatsOf(bins) + k[2] * (0 - 1)
  <2>1. \A d \in Int : Len(new[k]) = Len(bins[k]) + d =>
          StatsOf(bins) \in Int /\ StatsOf(new) = StatsOf(bins) + k[2] * d
    BY <1>1, <1>2, StatsChange
  <2>2. 0 - 1 \in Int
    OBVIOUS
  <2>3. QED
    BY <1>2, <2>1, <2>2
<1>5. IsFiniteSet(old) /\ Bounded(Sizes(dev), old) /\ Sum(Sizes(dev), old \ {b}) \in Int
  <2>1. old \in SUBSET DOMAIN dev /\ old \ {b} \in SUBSET DOMAIN dev
    BY DEF IdleIn
  <2> HIDE DEF old
  <2>2. QED
    BY <2>1, SizesType
<1>6. Sum(Sizes(dev), old) = Sizes(dev)[b] + Sum(Sizes(dev), old \ {b})
  <2> HIDE DEF old
  <2>1. QED
    BY <1>3, <1>5, SumRemove
<1>7. Sizes(dev)[b] = k[2] /\ k[2] \in Nat
  BY <1>1 DEF Sizes, DeviceOK
<1>8. StatsOf(bins) = Sum(Sizes(dev), old)
  BY DEF StatsOK
<1>9. StatsOf(new) = Sum(Sizes(dev), IdleIn(new, dev))
  <2> DEFINE rest == Sum(Sizes(dev), old \ {b})
  <2>1. StatsOf(new) = (k[2] + rest) + k[2] * (0 - 1)
    BY <1>4, <1>6, <1>7, <1>8
  <2>2. rest \in Int
    BY <1>5
  <2> HIDE DEF rest
  <2>3. StatsOf(new) = rest
    BY <1>7, <2>1, <2>2
  <2>4. QED
    BY <1>3, <2>3 DEF rest
<1>10. QED
  BY <1>9 DEF StatsOK, new

LEMMA OtherDeviceStats ==
  ASSUME NEW bins, NEW dev, NEW new, BinsOK(bins, dev), DeviceOK(dev), StatsOK(bins, dev),
         \A b \in DOMAIN dev : Binned(b, bins) =>
           b \in DOMAIN new /\ new[b].bytes = dev[b].bytes,
         \A b \in DOMAIN new : Binned(b, bins) => b \in DOMAIN dev
  PROVE  StatsOK(bins, new)
<1>1. IdleIn(bins, new) = IdleIn(bins, dev) /\ IdleIn(bins, dev) \in SUBSET DOMAIN dev
  BY DEF IdleIn
<1>2. IsFiniteSet(IdleIn(bins, dev))
  BY <1>1, SizesType
<1>3. \A b \in IdleIn(bins, dev) : Sizes(new)[b] = Sizes(dev)[b]
  BY DEF IdleIn, Sizes
<1>4. Sum(Sizes(new), IdleIn(bins, dev)) = Sum(Sizes(dev), IdleIn(bins, dev))
  BY <1>2, <1>3, SumEqual
<1>5. QED
  BY <1>1, <1>4 DEF StatsOK

LEMMA NoStats == ASSUME NEW dev PROVE StatsOK(NoBuffers, dev)
<1>1. IdleIn(NoBuffers, dev) = {}
  BY NoBuffersOK DEF IdleIn
<1>2. Sum(Sizes(dev), {}) = 0
  BY FS_EmptySet, SumStep
<1>3. QED
  BY <1>1, <1>2, StatsOfNone DEF StatsOK

---------------------------------------------------------------------------
(* What the pool asked for, and where it is.                               *)

NoThrow == \A c \in Client : ~Threw(c)

(* In some client's hands, whatever became of it, and not as a mask.       *)
Handed(b) ==
  \E c \in Client : \E i \in 1 .. Len(hands[c]) : i # 3 /\ hands[c][i] = b

Known(b) == Binned(b, pool.bins) \/ Handed(b) \/ b \in dropped

Counted == {b \in DOMAIN device : Known(b)}

(* What the pool asked for and was given.                                  *)
Granted == pool.total + uncounted - refused

DroppedInv ==
  \A b \in dropped : b \in DOMAIN device /\ ~Binned(b, pool.bins) /\ ~Held(b, hands)

CountInv ==
  /\ "total" \in DOMAIN pool /\ pool.total \in Int /\ uncounted \in Int /\ refused \in Int
  /\ Granted = Sum(Sizes(device), Counted)
  /\ NoThrow => refused = 0

AccountInv ==
  /\ DeviceOK(device) /\ DroppedInv /\ CountInv /\ StatsOK(pool.bins, device)

(* What is counted stays so, and so does what was granted.                 *)
LEMMA CountKept ==
  ASSUME DeviceOK(device), DeviceOK(device'), CountInv,
         \A b \in DOMAIN device' : Known(b)' =>
           b \in DOMAIN device /\ Known(b) /\ device'[b].bytes = device[b].bytes,
         \A b \in DOMAIN device : Known(b) => b \in DOMAIN device' /\ Known(b)',
         "total" \in DOMAIN pool', pool'.total \in Int, uncounted' \in Int, refused' \in Int,
         Granted' = Granted, NoThrow' => NoThrow /\ refused' = refused
  PROVE  CountInv'
<1>1. Counted' = Counted /\ Counted \in SUBSET DOMAIN device
  BY DEF Counted
<1>2. \A b \in Counted' : Sizes(device')[b] = Sizes(device)[b]
  BY DEF Counted, Sizes
<1>3. IsFiniteSet(Counted')
  BY <1>1, SizesType, FS_Subset
<1>4. Sum(Sizes(device'), Counted') = Sum(Sizes(device), Counted')
  BY <1>2, <1>3, SumEqual
<1>5. Granted' = Sum(Sizes(device'), Counted')
  BY <1>1, <1>4 DEF CountInv
<1>6. QED
  BY <1>5 DEF CountInv

(* A buffer that the pool asked for is counted.                            *)
LEMMA CountMore ==
  ASSUME DeviceOK(device), DeviceOK(device'), CountInv, NEW n, n \notin DOMAIN device,
         DOMAIN device' = DOMAIN device \cup {n},
         \A b \in DOMAIN device : device'[b].bytes = device[b].bytes,
         \A b \in DOMAIN device : Known(b)' <=> Known(b), Known(n)',
         "total" \in DOMAIN pool', pool'.total \in Int, uncounted' \in Int, refused' = refused,
         Granted' = Granted + device'[n].bytes, NoThrow' => NoThrow
  PROVE  CountInv'
<1>1. Counted' = Counted \cup {n} /\ n \notin Counted
  BY DEF Counted
<1>2. Counted \in SUBSET DOMAIN device /\ Counted' \in SUBSET DOMAIN device'
  BY DEF Counted
<1>3. /\ IsFiniteSet(Counted) /\ Sum(Sizes(device), Counted) \in Int
      /\ Bounded(Sizes(device'), Counted')
  BY <1>2, SizesType
<1>4. Sum(Sizes(device'), Counted) = Sum(Sizes(device), Counted)
  <2>1. \A b \in Counted : Sizes(device')[b] = Sizes(device)[b]
    BY <1>2 DEF Sizes
  <2>2. QED
    BY <1>3, <2>1, SumEqual
<1>5. Sum(Sizes(device'), Counted \cup {n}) = Sizes(device')[n] + Sum(Sizes(device'), Counted)
  BY <1>1, <1>3, SumAdd
<1>6. Sizes(device')[n] = device'[n].bytes /\ device'[n].bytes \in Nat
  BY DEF Sizes, DeviceOK
<1>7. Granted = Sum(Sizes(device), Counted)
  BY DEF CountInv
<1>8. Granted' = Sum(Sizes(device'), Counted')
  BY <1>1, <1>3, <1>4, <1>5, <1>6, <1>7
<1>9. QED
  BY <1>8 DEF CountInv

---------------------------------------------------------------------------
(* What is handed out, after each kind of step.                            *)

(* One client takes a buffer, which is its first, second or third.         *)
LEMMA HandedMore ==
  ASSUME NEW c \in Client, NEW b,
         \A d \in Client \ {c} : hands'[d] = hands[d],
         Len(hands[c]) \in Nat, Len(hands'[c]) = Len(hands[c]) + 1,
         hands'[c][Len(hands[c]) + 1] = b,
         \A i \in 1 .. Len(hands[c]) : hands'[c][i] = hands[c][i]
  PROVE  \A x : Handed(x)' <=> Handed(x) \/ (x = b /\ Len(hands[c]) # 2)
<1> DEFINE n == Len(hands[c])
<1>1. /\ n \in Nat /\ n + 1 \in 1 .. n + 1 /\ (n # 2 <=> n + 1 # 3)
      /\ \A i \in 1 .. n + 1 : i \in 1 .. n \/ i = n + 1
      /\ \A i \in 1 .. n : i \in 1 .. n + 1
  <2>1. n \in Nat
    OBVIOUS
  <2> HIDE DEF n
  <2>2. QED
    BY <2>1
<1>2. Len(hands'[c]) = n + 1 /\ hands'[c][n + 1] = b /\ \A i \in 1 .. n : hands'[c][i] = hands[c][i]
  OBVIOUS
<1>3. ASSUME NEW x, Handed(x)' PROVE Handed(x) \/ (x = b /\ n # 2)
  <2>1. PICK d \in Client : \E i \in 1 .. Len(hands'[d]) : i # 3 /\ hands'[d][i] = x
    BY <1>3 DEF Handed
  <2>2. CASE d # c
    BY <2>1, <2>2 DEF Handed
  <2>3. CASE d = c
    <3>1. PICK i \in 1 .. n + 1 : i # 3 /\ hands'[c][i] = x
      BY <1>2, <2>1, <2>3
    <3>2. CASE i \in 1 .. n
      BY <1>2, <3>1, <3>2 DEF Handed
    <3>3. CASE i = n + 1
      BY <1>1, <1>2, <3>1, <3>3
    <3>4. QED
      BY <1>1, <3>2, <3>3
  <2>4. QED
    BY <2>2, <2>3
<1>4. ASSUME NEW x, Handed(x) PROVE Handed(x)'
  <2>1. PICK d \in Client : \E i \in 1 .. Len(hands[d]) : i # 3 /\ hands[d][i] = x
    BY <1>4 DEF Handed
  <2>2. CASE d # c
    BY <2>1, <2>2 DEF Handed
  <2>3. CASE d = c
    BY <1>1, <1>2, <2>1, <2>3 DEF Handed
  <2>4. QED
    BY <2>2, <2>3
<1>5. n # 2 => Handed(b)'
  BY <1>1, <1>2 DEF Handed
<1>6. QED
  BY <1>3, <1>4, <1>5

(* One client gives back all it holds.                                     *)
LEMMA HandedBack ==
  ASSUME NEW c \in Client, \A d \in Client \ {c} : hands'[d] = hands[d], Len(hands'[c]) = 0
  PROVE  /\ \A x : Handed(x)' => Handed(x)
         /\ \A x : Handed(x) =>
              Handed(x)' \/ \E i \in 1 .. Len(hands[c]) : i # 3 /\ x = hands[c][i]
         /\ \A i \in 1 .. Len(hands[c]) : i # 3 => Handed(hands[c][i])
<1>1. 1 .. Len(hands'[c]) = {}
  OBVIOUS
<1>2. ASSUME NEW x, Handed(x)' PROVE Handed(x)
  BY <1>1, <1>2 DEF Handed
<1>3. ASSUME NEW x, Handed(x)
      PROVE  Handed(x)' \/ \E i \in 1 .. Len(hands[c]) : i # 3 /\ x = hands[c][i]
  BY <1>3 DEF Handed
<1>4. \A i \in 1 .. Len(hands[c]) : i # 3 => Handed(hands[c][i])
  BY DEF Handed
<1>5. QED
  BY <1>2, <1>3, <1>4

---------------------------------------------------------------------------
(* The steps.                                                              *)

(* A step that leaves the bins, the sizes and what was dropped alone.      *)
LEMMA NothingMoves ==
  ASSUME PlacesInv, AccountInv, hands' = hands, dropped' = dropped, uncounted' = uncounted,
         "bins" \in DOMAIN pool', pool'.bins = pool.bins,
         "total" \in DOMAIN pool', pool'.total \in Int, refused' \in Int,
         pool'.total - refused' = pool.total - refused,
         DOMAIN device' = DOMAIN device,
         \A b \in DOMAIN device : device'[b].bytes = device[b].bytes,
         NoThrow' => NoThrow /\ refused' = refused
  PROVE  AccountInv'
<1>1. \A x : Known(x)' <=> Known(x)
  BY DEF Known, Handed
<1>2. DeviceOK(device) /\ DeviceOK(device')
  BY DEF AccountInv, DeviceOK
<1>3. CountInv'
  <2>1. CountInv
    BY DEF AccountInv
  <2>2. uncounted' \in Int /\ Granted' = Granted
    BY <2>1 DEF CountInv, Granted
  <2>3. QED
    BY <1>1, <1>2, <2>1, <2>2, CountKept
<1>4. StatsOK(pool.bins, device')
  <2>1. BinsOK(pool.bins, device) /\ StatsOK(pool.bins, device)
    BY DEF AccountInv, PlacesInv, BufferInv
  <2>2. QED
    BY <1>2, <2>1, OtherDeviceStats
<1>5. DroppedInv'
  BY DEF AccountInv, DroppedInv, Binned, Held
<1>6. QED
  BY <1>2, <1>3, <1>4, <1>5 DEF AccountInv

LEMMA AsksForRoom ==
  ASSUME NEW bytes \in Nat, BucketSize(bytes) # Never
  PROVE  BucketSize(bytes) \in Nat /\ BinOf(bytes, "shared") \in Key
<1>1. BucketSize(bytes) \in Bucket /\ BucketSize(bytes) >= bytes
  BY BucketHasRoom
<1>2. BucketSize(bytes) \in Nat
  <2> DEFINE size == BucketSize(bytes)
  <2>1. size \in Int /\ size >= bytes
    BY <1>1, BucketType
  <2> HIDE DEF size
  <2>2. size \in Nat
    BY <2>1
  <2>3. QED
    BY <2>2 DEF size
<1>3. QED
  BY <1>1, <1>2 DEF BinOf, Key, Mode

LEMMA NextAsks ==
  ASSUME PlacesInv, NEW c \in Call, pc[c] = "take", BucketSize(Bytes(NextSide(c))) # Never
  PROVE  /\ Len(hands[c]) \in {0, 1} /\ BucketSize(Bytes(NextSide(c))) \in Nat
         /\ BinOf(Bytes(NextSide(c)), "shared") \in Key
<1>1. Len(hands[c]) \in {0, 1}
  BY DEF PlacesInv, ControlInv, HandsAt, Client
<1>2. Len(hands[c]) + 1 \in {1, 2}
  <2>1. \A x \in {0, 1} : x + 1 \in {1, 2}
    OBVIOUS
  <2>2. QED
    BY <1>1, <2>1, Zenon
<1>3. Bytes(NextSide(c)) \in Nat
  BY <1>2, SideType DEF NextSide, PlacesInv, ControlInv
<1>4. QED
  BY <1>1, <1>3, AsksForRoom

(* What is counted and refused is as much on either side of the books.     *)
LEMMA RefusedCount ==
  ASSUME PlacesInv, AccountInv, NEW k, k[2] \in Nat, RefusedNew(k),
         UNCHANGED <<hands, device, dropped, uncounted>>, ~NoThrow'
  PROVE  AccountInv'
<1>1. /\ pool' = AfterMiss(pool, k) /\ refused' = refused + k[2]
      /\ "bins" \in DOMAIN pool /\ "total" \in DOMAIN pool
      /\ pool.total \in Int /\ refused \in Int
  BY DEF RefusedNew, PlacesInv, BufferInv, AccountInv, CountInv
<1>2. /\ "bins" \in DOMAIN pool' /\ pool'.bins = pool.bins
      /\ "total" \in DOMAIN pool' /\ pool'.total = pool.total + k[2]
  BY <1>1 DEF AfterMiss
<1>3. pool'.total \in Int /\ refused' \in Int /\ pool'.total - refused' = pool.total - refused
  BY <1>1, <1>2
<1>4. QED
  BY <1>2, <1>3, NothingMoves

LEMMA QuietCount ==
  ASSUME PlacesInv, AccountInv, NEW c \in Call, Quiet(c)
  PROVE  AccountInv'
<1>1. UNCHANGED <<hands, device, dropped, uncounted>>
  BY DEF Quiet, RunOnCpu, ChooseGpu, Import, TakeRefused, Hang, NoKernel, buffers, history
<1>2. c \in Client /\ DOMAIN pc = Client
  BY DEF Client, PlacesInv, ControlInv
<1>3. pc[c] # "threw" /\ \A d \in Client \ {c} : pc'[d] = pc[d]
  BY <1>2 DEF Quiet, RunOnCpu, ChooseGpu, Import, TakeRefused, Hang, NoKernel, Throw, Go, Runs
<1>4. NoThrow' => NoThrow
  BY <1>3 DEF NoThrow, Threw
<1>5. ASSUME RunOnCpu(c) \/ ChooseGpu(c) \/ Import(c) \/ Hang(c) \/ NoKernel(c) PROVE AccountInv'
  <2>1. pool' = pool /\ refused' = refused
    BY <1>5 DEF RunOnCpu, ChooseGpu, Import, Hang, NoKernel, buffers, history
  <2>2. /\ "bins" \in DOMAIN pool /\ "total" \in DOMAIN pool
        /\ pool.total \in Int /\ refused \in Int
    BY DEF PlacesInv, BufferInv, AccountInv, CountInv
  <2>3. QED
    BY <1>1, <1>4, <2>1, <2>2, NothingMoves
<1>6. ASSUME TakeRefused(c) PROVE AccountInv'
  <2> DEFINE k == BinOf(Bytes(NextSide(c)), "shared")
  <2>1. pc[c] = "take" /\ k[2] # Never /\ RefusedNew(k) /\ Go(c, "threw")
    BY <1>6 DEF TakeRefused, Throw, Runs
  <2>2. ~NoThrow'
    BY <1>2, <2>1 DEF NoThrow, Threw, Go
  <2>3. k[2] \in Nat
    <3>1. BucketSize(Bytes(NextSide(c))) # Never
      BY <2>1 DEF BinOf
    <3>2. QED
      BY <2>1, <3>1, NextAsks DEF BinOf
  <2> HIDE DEF k
  <2>4. QED
    BY <1>1, <2>1, <2>2, <2>3, RefusedCount
<1>7. QED
  BY <1>5, <1>6 DEF Quiet

LEMMA BorrowRefusedCount ==
  ASSUME PlacesInv, AccountInv, NEW h \in Holder, BorrowRefused(h)
  PROVE  AccountInv'
<1> DEFINE k == BinOf(RegionBytes, "shared")
<1>1. /\ RefusedNew(k) /\ Go(h, "threw") /\ UNCHANGED <<hands, device, dropped, uncounted>>
  BY DEF BorrowRefused
<1>2. h \in Client /\ DOMAIN pc = Client
  BY DEF Client, PlacesInv, ControlInv
<1>3. ~NoThrow'
  BY <1>1, <1>2 DEF NoThrow, Threw, Go
<1>4. k[2] \in Nat
  <2>1. k[2] = BucketSize(RegionBytes)
    BY DEF BinOf
  <2>2. QED
    BY <2>1, RegionAssumption, AsksForRoom
<1> HIDE DEF k
<1>5. QED
  BY <1>1, <1>3, <1>4, RefusedCount

(* A client goes somewhere, and it had not thrown.                         *)
LEMMA OneMoves ==
  ASSUME PlacesInv, NEW c \in Client, NEW where, Go(c, where), pc[c] # "threw"
  PROVE  /\ pc'[c] = where /\ \A d \in Client \ {c} : pc'[d] = pc[d]
         /\ NoThrow' => NoThrow
<1>1. pc'[c] = where /\ \A d \in Client \ {c} : pc'[d] = pc[d]
  BY DEF Go, PlacesInv, ControlInv
<1>2. NoThrow' => NoThrow
  BY <1>1 DEF NoThrow, Threw
<1>3. QED
  BY <1>1, <1>2

LEMMA HandedIsHeld ==
  /\ \A x : Handed(x) => Held(x, hands)
  /\ \A x : Handed(x)' => Held(x, hands')
  BY DEF Handed, Held

(* What a client is given is the last it has in its hands.                 *)
LEMMA GivenLast ==
  ASSUME PlacesInv, NEW c \in Client, NEW b, hands' = Given(hands, c, b)
  PROVE  /\ Len(hands[c]) \in Nat /\ Len(hands'[c]) = Len(hands[c]) + 1
         /\ hands'[c][Len(hands[c]) + 1] = b
         /\ \A i \in 1 .. Len(hands[c]) : hands'[c][i] = hands[c][i]
         /\ \A d \in Client \ {c} : hands'[d] = hands[d]
<1>1. /\ hands'[c] = Append(hands[c], b) /\ hands[c] \in Seq(DOMAIN device)
      /\ \A d \in Client \ {c} : hands'[d] = hands[d]
  BY DEF Given, PlacesInv, BufferInv, HandsOK
<1>2. hands[c] \in Seq(DOMAIN device \cup {b}) /\ b \in DOMAIN device \cup {b}
  BY <1>1
<1>3. QED
  BY <1>1, <1>2, AppendOne

(* An idle buffer is lent.                                                 *)
LEMMA TakeIdleCount ==
  ASSUME PlacesInv, AccountInv, NEW c \in Client, NEW k \in Key, TakeIdle(c, k),
         UNCHANGED history, Len(hands[c]) \in {0, 1}, ~Ended(c),
         NEW where, Go(c, where), where \notin {"returned", "threw"}
  PROVE  AccountInv'
<1> DEFINE b == Last(pool.bins[k])
<1>1. /\ pool.bins[k] # <<>> /\ device' = device
      /\ hands' = Given(hands, c, b) /\ pool' = AfterHit(pool, k)
  BY DEF TakeIdle, IsHit, Recycled, Given
<1>2. /\ "bins" \in DOMAIN pool' /\ pool'.bins = Popped(pool.bins, k)
      /\ "total" \in DOMAIN pool' /\ pool'.total = pool.total
  BY <1>1 DEF AfterHit, PlacesInv, BufferInv, Popped, AccountInv, CountInv
<1>3. BinsOK(pool.bins, device) /\ HandsOK(hands, device) /\ DeviceOK(device)
  BY DEF PlacesInv, BufferInv, AccountInv
<1>4. /\ \A x : Binned(x, pool'.bins) => Binned(x, pool.bins)
      /\ Binned(b, pool.bins) /\ b \in DOMAIN device
  BY <1>1, <1>2, <1>3, PopOK
<1>5. \A x : Binned(x, pool.bins) => Binned(x, pool'.bins) \/ x = b
  BY <1>1, <1>2, <1>3, PopBins
<1>6. StatsOK(pool'.bins, device)
  BY <1>1, <1>2, <1>3, PopStats DEF AccountInv
<1> HIDE DEF b
<1>7. ~Held(b, hands)
  BY <1>4 DEF PlacesInv, BufferInv
<1>8. \A x : Held(x, hands') => Held(x, hands) \/ x = b
  BY <1>1, <1>3, <1>4, <1>7, TakeOK
<1>9. /\ pc'[c] = where /\ \A d \in Client \ {c} : pc'[d] = pc[d]
      /\ NoThrow' => NoThrow
  BY OneMoves DEF Ended
<1>10. \A x : Handed(x)' <=> Handed(x) \/ x = b
  <2>1. /\ Len(hands[c]) \in Nat /\ Len(hands'[c]) = Len(hands[c]) + 1
        /\ hands'[c][Len(hands[c]) + 1] = b
        /\ \A i \in 1 .. Len(hands[c]) : hands'[c][i] = hands[c][i]
        /\ \A d \in Client \ {c} : hands'[d] = hands[d]
    BY <1>1, GivenLast
  <2>2. Len(hands[c]) # 2
    OBVIOUS
  <2>3. \A x : Handed(x)' <=> Handed(x) \/ (x = b /\ Len(hands[c]) # 2)
    BY <2>1, HandedMore
  <2>4. QED
    BY <2>2, <2>3
<1>11. \A x : Known(x)' <=> Known(x)
  BY <1>4, <1>5, <1>10 DEF Known, history
<1>12. CountInv'
  <2>1. CountInv
    BY DEF AccountInv
  <2>2. /\ pool'.total \in Int /\ uncounted' \in Int /\ refused' \in Int /\ refused' = refused
        /\ Granted' = Granted
    BY <1>2, <2>1 DEF CountInv, Granted, history
  <2>3. QED
    BY <1>1, <1>2, <1>3, <1>9, <1>11, <2>1, <2>2, CountKept
<1>13. DroppedInv'
  <2> dropped' = dropped
    BY DEF history
  <2>1. \A x \in dropped : x \in DOMAIN device /\ ~Binned(x, pool'.bins) /\ ~Held(x, hands')
    BY <1>4, <1>8 DEF AccountInv, DroppedInv
  <2>2. QED
    BY <1>1, <2>1 DEF DroppedInv, Binned, Held
<1>14. QED
  BY <1>1, <1>3, <1>6, <1>12, <1>13 DEF AccountInv

(* The number of a new buffer is nowhere yet.                              *)
LEMMA AllocFacts ==
  ASSUME PlacesInv, AccountInv, NEW c \in Client, NEW bytes \in Nat, Alloc(c, bytes),
         pool'.bins = pool.bins, dropped' = dropped
  PROVE  /\ made + 1 \notin DOMAIN device /\ DOMAIN device' = DOMAIN device \cup {made + 1}
         /\ device'[made + 1].bytes = bytes
         /\ \A x \in DOMAIN device : device'[x].bytes = device[x].bytes
         /\ ~Known(made + 1)
         /\ \A x : Handed(x)' <=> Handed(x) \/ (x = made + 1 /\ Len(hands[c]) # 2)
         /\ DeviceOK(device') /\ StatsOK(pool'.bins, device') /\ DroppedInv'
<1> DEFINE b == made + 1
<1>1. /\ device' = [x \in DOMAIN device \cup {b} |->
           IF x = b THEN [bytes |-> bytes, cells |-> <<>>] ELSE device[x]]
      /\ hands' = Given(hands, c, b)
  BY DEF Alloc, Given
<1>2. b \notin DOMAIN device
  BY DEF PlacesInv, BufferInv
<1>3. BinsOK(pool.bins, device) /\ HandsOK(hands, device) /\ DeviceOK(device)
  BY DEF PlacesInv, BufferInv, AccountInv
<1>4. ~Held(b, hands) /\ ~Binned(b, pool.bins)
  BY <1>2, <1>3, ElementOfSeq DEF Held, Binned, HandsOK, BinsOK
<1>5. b \notin dropped
  BY <1>2 DEF AccountInv, DroppedInv
<1> HIDE DEF b
<1>6. /\ DOMAIN device' = DOMAIN device \cup {b} /\ device'[b].bytes = bytes
      /\ \A x \in DOMAIN device : device'[x].bytes = device[x].bytes
  BY <1>1, <1>2
<1>7. DeviceOK(device')
  BY <1>3, <1>6, FS_AddElement DEF DeviceOK
<1>8. StatsOK(pool'.bins, device')
  <2>1. StatsOK(pool.bins, device)
    BY DEF AccountInv
  <2>2. /\ \A x \in DOMAIN device : Binned(x, pool.bins) =>
             x \in DOMAIN device' /\ device'[x].bytes = device[x].bytes
        /\ \A x \in DOMAIN device' : Binned(x, pool.bins) => x \in DOMAIN device
    BY <1>4, <1>6
  <2>3. QED
    BY <1>3, <2>1, <2>2, OtherDeviceStats
<1>9. ~Known(b)
  BY <1>4, <1>5, HandedIsHeld DEF Known
<1>10. /\ Len(hands[c]) \in Nat /\ Len(hands'[c]) = Len(hands[c]) + 1
       /\ hands'[c][Len(hands[c]) + 1] = b
       /\ \A i \in 1 .. Len(hands[c]) : hands'[c][i] = hands[c][i]
       /\ \A d \in Client \ {c} : hands'[d] = hands[d]
  BY <1>1, GivenLast
<1>11. \A x : Handed(x)' <=> Handed(x) \/ (x = b /\ Len(hands[c]) # 2)
  BY <1>10, HandedMore
<1>12. DroppedInv'
  <2>1. HandsOK(hands, device')
    <3>1. \A x \in DOMAIN device : Binned(x, pool.bins) \/ Held(x, hands) =>
            x \in DOMAIN device' /\ device'[x].bytes = device[x].bytes
      BY <1>6
    <3>2. QED
      BY <1>3, <3>1, OtherDevice
  <2>2. \A x : Held(x, hands') => Held(x, hands) \/ x = b
    BY <1>1, <1>4, <1>6, <2>1, TakeOK
  <2>3. \A x \in dropped : x \in DOMAIN device' /\ ~Binned(x, pool'.bins) /\ ~Held(x, hands')
    BY <1>5, <1>6, <2>2 DEF AccountInv, DroppedInv
  <2>4. QED
    BY <2>3 DEF DroppedInv, Binned, Held
<1>13. QED
  BY <1>2, <1>6, <1>7, <1>8, <1>9, <1>11, <1>12 DEF b

(* The pool asks the device for a buffer, and lends it.                    *)
LEMMA TakeNewCount ==
  ASSUME PlacesInv, AccountInv, NEW c \in Client, NEW k \in Key, k[2] \in Nat, TakeNew(c, k),
         UNCHANGED history, Len(hands[c]) \in {0, 1}, ~Ended(c),
         NEW where, Go(c, where), where \notin {"returned", "threw"}
  PROVE  AccountInv'
<1>1. Alloc(c, k[2]) /\ pool' = AfterMiss(pool, k)
  BY DEF TakeNew
<1>2. CountInv
  BY DEF AccountInv
<1>3. /\ "bins" \in DOMAIN pool' /\ pool'.bins = pool.bins
      /\ "total" \in DOMAIN pool' /\ pool'.total = pool.total + k[2]
  BY <1>1, <1>2 DEF AfterMiss, PlacesInv, BufferInv, CountInv
<1>4. /\ pc'[c] = where /\ \A d \in Client \ {c} : pc'[d] = pc[d]
      /\ NoThrow' => NoThrow
  BY OneMoves DEF Ended
<1>5. Len(hands[c]) # 2 /\ dropped' = dropped /\ uncounted' = uncounted /\ refused' = refused
  <2>1. Len(hands[c]) # 2
    OBVIOUS
  <2>2. QED
    BY <2>1 DEF history
<1> PICK b : b = made + 1
  OBVIOUS
<1>6. /\ b \notin DOMAIN device /\ DOMAIN device' = DOMAIN device \cup {b}
      /\ device'[b].bytes = k[2]
      /\ \A x \in DOMAIN device : device'[x].bytes = device[x].bytes
      /\ ~Known(b)
      /\ \A x : Handed(x)' <=> Handed(x) \/ (x = b /\ Len(hands[c]) # 2)
      /\ DeviceOK(device') /\ StatsOK(pool'.bins, device') /\ DroppedInv'
  BY <1>1, <1>3, <1>5, AllocFacts
<1>7. \A x : Known(x)' <=> Known(x) \/ x = b
  BY <1>3, <1>5, <1>6 DEF Known
<1>8. CountInv'
  <2>1. pool'.total \in Int /\ uncounted' \in Int /\ Granted' = Granted + device'[b].bytes
    BY <1>2, <1>3, <1>5, <1>6 DEF CountInv, Granted
  <2>2. Known(b)' /\ \A x \in DOMAIN device : Known(x)' <=> Known(x)
    BY <1>6, <1>7
  <2>3. DeviceOK(device)
    BY DEF AccountInv
  <2>4. QED
    BY <1>2, <1>3, <1>4, <1>5, <1>6, <2>1, <2>2, <2>3, CountMore
<1>9. QED
  BY <1>6, <1>8 DEF AccountInv

LEMMA TakeCount ==
  ASSUME PlacesInv, AccountInv, NEW c \in Call, Take(c)
  PROVE  AccountInv'
<1> DEFINE k == BinOf(Bytes(NextSide(c)), "shared")
<1>1. /\ pc[c] = "take" /\ k[2] # Never /\ (TakeIdle(c, k) \/ TakeNew(c, k))
      /\ Go(c, "pack") /\ UNCHANGED history
  BY DEF Take, Runs
<1>2. c \in Client /\ ~Ended(c)
  BY <1>1 DEF Client, Ended
<1>3. Len(hands[c]) \in {0, 1} /\ k[2] \in Nat /\ k \in Key
  <2>1. k[2] = BucketSize(Bytes(NextSide(c)))
    BY DEF BinOf
  <2>2. QED
    BY <1>1, <2>1, NextAsks
<1> HIDE DEF k
<1>4. CASE TakeIdle(c, k)
  BY <1>1, <1>2, <1>3, <1>4, TakeIdleCount
<1>5. CASE TakeNew(c, k)
  BY <1>1, <1>2, <1>3, <1>5, TakeNewCount
<1>6. QED
  BY <1>1, <1>4, <1>5

LEMMA BorrowCount ==
  ASSUME PlacesInv, AccountInv, NEW h \in Holder, Borrow(h)
  PROVE  AccountInv'
<1> DEFINE k == BinOf(RegionBytes, "shared")
<1>1. /\ pc[h] = "idle" /\ (TakeIdle(h, k) \/ TakeNew(h, k))
      /\ Go(h, "holding") /\ UNCHANGED history
  BY DEF Borrow
<1>2. h \in Client /\ ~Ended(h)
  BY <1>1 DEF Client, Ended
<1>3. Len(hands[h]) \in {0, 1}
  BY <1>1, <1>2 DEF PlacesInv, ControlInv, HandsAt
<1>4. k[2] \in Nat /\ k \in Key
  <2>1. k[2] = BucketSize(RegionBytes)
    BY DEF BinOf
  <2>2. QED
    BY <2>1, RegionAssumption, AsksForRoom
<1> HIDE DEF k
<1>5. CASE TakeIdle(h, k)
  BY <1>1, <1>2, <1>3, <1>4, <1>5, TakeIdleCount
<1>6. CASE TakeNew(h, k)
  BY <1>1, <1>2, <1>3, <1>4, <1>6, TakeNewCount
<1>7. QED
  BY <1>1, <1>5, <1>6

(* A call writes to a buffer; where its terms do not fit, it throws with   *)
(* what it holds.                                                          *)
LEMMA WriteCount ==
  ASSUME PlacesInv, AccountInv, NEW c \in Call, UNCHANGED <<hands, pool, history>>,
         NEW b, NEW new, Writes(b, new), ~Ended(c),
         NEW where, Go(c, where)
  PROVE  AccountInv'
<1>1. c \in Client /\ pc[c] # "threw"
  BY DEF Client, Ended
<1>2. /\ pc'[c] = where /\ \A d \in Client \ {c} : pc'[d] = pc[d]
      /\ NoThrow' => NoThrow
  BY <1>1, OneMoves
<1>3. /\ "bins" \in DOMAIN pool' /\ pool'.bins = pool.bins
      /\ "total" \in DOMAIN pool' /\ pool'.total \in Int /\ pool'.total = pool.total
      /\ refused' \in Int /\ pool'.total - refused' = pool.total - refused
  BY DEF PlacesInv, BufferInv, AccountInv, CountInv, history
<1>4. dropped' = dropped /\ uncounted' = uncounted /\ refused' = refused
  BY DEF history
<1>5. QED
  BY <1>2, <1>3, <1>4, NothingMoves DEF Writes

LEMMA PackCount ==
  ASSUME PlacesInv, AccountInv, NEW c \in Call, Pack(c)
  PROVE  AccountInv'
<1>1. /\ UNCHANGED <<hands, pool, history>> /\ ~Ended(c)
      /\ Go(c, "take") \/ Go(c, "mask") \/ Go(c, "threw")
  BY DEF Pack, Runs, Ended, Throw
<1>2. PICK b, new : Writes(b, new)
  BY PackInv
<1>3. QED
  BY <1>1, <1>2, WriteCount

LEMMA RunKernelCount ==
  ASSUME PlacesInv, PackedInv, AccountInv, NEW c \in Call, RunKernel(c)
  PROVE  AccountInv'
<1>1. UNCHANGED <<hands, pool, history>> /\ ~Ended(c) /\ Go(c, "copy")
  BY DEF RunKernel, Runs, Ended
<1>2. PICK b, new : Writes(b, new)
  BY RunKernelInv
<1>3. QED
  BY <1>1, <1>2, WriteCount

(* The mask's buffer is not the pool's: it is never counted.               *)
LEMMA TakeMaskCount ==
  ASSUME PlacesInv, AccountInv, NEW c \in Call, TakeMask(c)
  PROVE  AccountInv'
<1>1. pc[c] = "mask" /\ UNCHANGED <<pool, history>> /\ ~Ended(c)
  BY DEF TakeMask, Runs, Ended
<1>2. c \in Client /\ Len(hands[c]) = 2
  BY <1>1 DEF PlacesInv, ControlInv, HandsAt, Client
<1>3. /\ "bins" \in DOMAIN pool' /\ pool'.bins = pool.bins
      /\ "total" \in DOMAIN pool' /\ pool'.total \in Int /\ uncounted' \in Int /\ refused' \in Int
      /\ pool'.total - refused' = pool.total - refused /\ Granted' = Granted
      /\ dropped' = dropped /\ uncounted' = uncounted /\ refused' = refused
  BY <1>1 DEF PlacesInv, BufferInv, AccountInv, CountInv, Granted, history
<1>4. CASE HasMemory(MaskBytes(c))
  <2>1. Alloc(c, MaskBytes(c)) /\ Go(c, "run")
    BY <1>4 DEF TakeMask
  <2>2. MaskBytes(c) \in Nat
    <3>1. Pairs(c) \in Nat
      BY SideType DEF PlacesInv, ControlInv
    <3>2. QED
      BY <3>1, RegionAssumption DEF MaskBytes
  <2>3. /\ pc'[c] = "run" /\ \A d \in Client \ {c} : pc'[d] = pc[d]
        /\ NoThrow' => NoThrow
    BY <1>1, <1>2, <2>1, OneMoves
  <2> PICK b : b = made + 1
    OBVIOUS
  <2>5. /\ b \notin DOMAIN device /\ DOMAIN device' = DOMAIN device \cup {b}
        /\ \A x \in DOMAIN device : device'[x].bytes = device[x].bytes
        /\ ~Known(b)
        /\ \A x : Handed(x)' <=> Handed(x) \/ (x = b /\ Len(hands[c]) # 2)
        /\ DeviceOK(device') /\ StatsOK(pool'.bins, device') /\ DroppedInv'
    BY <1>1, <1>2, <1>3, <2>1, <2>2, AllocFacts
  <2>6. \A x : Known(x)' <=> Known(x)
    BY <1>2, <1>3, <2>5 DEF Known
  <2>7. CountInv'
    <3>1. CountInv /\ DeviceOK(device)
      BY DEF AccountInv
    <3>2. /\ \A x \in DOMAIN device' : Known(x)' =>
               x \in DOMAIN device /\ Known(x) /\ device'[x].bytes = device[x].bytes
          /\ \A x \in DOMAIN device : Known(x) => x \in DOMAIN device' /\ Known(x)'
      BY <2>5, <2>6
    <3>3. QED
      BY <1>3, <2>3, <2>5, <3>1, <3>2, CountKept
  <2>8. QED
    BY <2>5, <2>7 DEF AccountInv
<1>5. CASE ~HasMemory(MaskBytes(c))
  <2>1. Go(c, "threw") /\ UNCHANGED <<device, hands>>
    BY <1>5 DEF TakeMask, Throw
  <2>2. pc'[c] = "threw"
    BY <1>1, <1>2, <2>1, OneMoves
  <2>3. ~NoThrow'
    BY <1>2, <2>2 DEF NoThrow, Threw
  <2>4. QED
    BY <1>3, <2>1, <2>3, NothingMoves
<1>6. QED
  BY <1>4, <1>5

(* Idle buffers are forgotten, which counts them as dropped.               *)
LEMMA FlushCount ==
  ASSUME PlacesInv, AccountInv, Flush \/ Drain
  PROVE  AccountInv'
<1>1. /\ UNCHANGED <<pc, hands, device>> /\ dropped' = dropped \cup Idle(pool)
      /\ refused' = refused
      /\ \/ pool' = PoolFlush(pool) /\ uncounted' = uncounted
         \/ pool' = EmptyPool /\ uncounted' = uncounted + pool.total
  BY DEF Flush, Drain, PoolDrain
<1>2. CountInv /\ DeviceOK(device) /\ BinsOK(pool.bins, device)
  BY DEF PlacesInv, BufferInv, AccountInv
<1>3. /\ "total" \in DOMAIN pool' /\ pool'.total \in Int /\ uncounted' \in Int
      /\ refused' \in Int /\ pool'.bins = NoBuffers /\ Granted' = Granted
  <2>1. CASE pool' = PoolFlush(pool) /\ uncounted' = uncounted
    BY <1>1, <1>2, <2>1 DEF PoolFlush, PlacesInv, BufferInv, CountInv, Granted
  <2>2. CASE pool' = EmptyPool /\ uncounted' = uncounted + pool.total
    BY <1>1, <1>2, <2>2 DEF EmptyPool, CountInv, Granted
  <2>3. QED
    BY <1>1, <2>1, <2>2
<1>4. \A x : x \in Idle(pool) <=> Binned(x, pool.bins)
  BY <1>2, IdleIsBinned DEF Idle
<1>5. \A x : ~Binned(x, pool'.bins)
  BY <1>3, NoBuffersOK
<1>6. (\A x : Handed(x)' <=> Handed(x)) /\ (NoThrow' <=> NoThrow)
  BY <1>1 DEF Handed, NoThrow, Threw
<1>7. \A x : Known(x)' <=> Known(x)
  BY <1>1, <1>4, <1>5, <1>6 DEF Known
<1>8. CountInv'
  BY <1>1, <1>2, <1>3, <1>6, <1>7, CountKept
<1>9. DroppedInv'
  <2>1. \A x \in Idle(pool) : x \in DOMAIN device /\ ~Held(x, hands)
    <3>1. \A x : Binned(x, pool.bins) => x \in DOMAIN device
      BY <1>2, ElementOfSeq DEF Binned, BinsOK
    <3>2. QED
      BY <1>4, <3>1 DEF PlacesInv, BufferInv
  <2>2. \A x \in dropped' : x \in DOMAIN device /\ ~Binned(x, pool'.bins) /\ ~Held(x, hands)
    BY <1>1, <1>5, <2>1 DEF AccountInv, DroppedInv
  <2>3. QED
    BY <1>1, <2>2 DEF DroppedInv, Binned, Held
<1>10. StatsOK(pool'.bins, device')
  BY <1>3, NoStats
<1>11. QED
  BY <1>1, <1>2, <1>8, <1>9, <1>10 DEF AccountInv

(* A client gives back what it has, which is idle from then on.            *)
LEMMA BackCount ==
  ASSUME PlacesInv, AccountInv, NEW c \in Client, ~Ended(c), Go(c, "returned"),
         hands' = Emptied(hands, c), UNCHANGED history,
         "total" \in DOMAIN pool', pool'.total = pool.total,
         DeviceOK(device'), StatsOK(pool'.bins, device'),
         \A x \in DOMAIN device' : x \in DOMAIN device /\ device'[x].bytes = device[x].bytes,
         \A x \in DOMAIN device : Known(x) => x \in DOMAIN device',
         \A x : Binned(x, pool'.bins) <=>
           \/ Binned(x, pool.bins)
           \/ \E i \in 1 .. Len(hands[c]) : i # 3 /\ x = hands[c][i]
  PROVE  AccountInv'
<1>1. /\ hands'[c] = <<>> /\ Len(hands'[c]) = 0 /\ \A d \in Client \ {c} : hands'[d] = hands[d]
  BY EmptySeq DEF Emptied, PlacesInv, BufferInv, HandsOK
<1>2. /\ pc'[c] = "returned" /\ \A d \in Client \ {c} : pc'[d] = pc[d]
      /\ NoThrow' => NoThrow
  BY OneMoves DEF Ended
<1>3. /\ \A x : Handed(x)' => Handed(x)
      /\ \A x : Handed(x) =>
           Handed(x)' \/ \E i \in 1 .. Len(hands[c]) : i # 3 /\ x = hands[c][i]
      /\ \A i \in 1 .. Len(hands[c]) : i # 3 => Handed(hands[c][i])
  BY <1>1, HandedBack
<1>4. \A x : Known(x)' <=> Known(x)
  BY <1>3 DEF Known, history
<1>5. CountInv'
  <2>1. CountInv /\ DeviceOK(device)
    BY DEF AccountInv
  <2>2. /\ pool'.total \in Int /\ uncounted' \in Int /\ refused' \in Int /\ refused' = refused
        /\ Granted' = Granted
    BY <2>1 DEF CountInv, Granted, history
  <2>3. QED
    BY <1>2, <1>4, <2>1, <2>2, CountKept
<1>6. DroppedInv'
  <2>1. \A x : Held(x, hands') => Held(x, hands)
    BY DropOK DEF PlacesInv, BufferInv
  <2>2. \A i \in 1 .. Len(hands[c]) : Held(hands[c][i], hands)
    BY DEF Held
  <2>3. \A x \in dropped : x \in DOMAIN device' /\ ~Binned(x, pool'.bins) /\ ~Held(x, hands')
    BY <2>1, <2>2 DEF AccountInv, DroppedInv, Known
  <2>4. dropped' = dropped
    BY DEF history
  <2>5. QED
    BY <2>3, <2>4 DEF DroppedInv, Binned, Held
<1>7. QED
  BY <1>5, <1>6 DEF AccountInv

LEMMA PoolFreeTotal ==
  ASSUME NEW p, NEW b, NEW bytes, NEW mode, "total" \in DOMAIN p
  PROVE  "total" \in DOMAIN PoolFree(p, b, bytes, mode) /\ PoolFree(p, b, bytes, mode).total = p.total
  BY DEF PoolFree

LEMMA GiveBackCount ==
  ASSUME PlacesInv, AccountInv, NEW h \in Holder, NEW t \in Packable, GiveBack(h, t)
  PROVE  AccountInv'
<1> DEFINE b == hands[h][1]
           k == BinOf(RegionBytes, "shared")
           bins == Put(pool.bins, k, b)
<1>1. /\ pc[h] = "holding" /\ UNCHANGED history /\ Go(h, "returned")
      /\ pool' = PoolFree(pool, b, RegionBytes, "shared") /\ hands' = Emptied(hands, h)
  BY DEF GiveBack, Emptied
<1>2. h \in Client /\ ~Ended(h)
  BY <1>1 DEF Client, Ended
<1>3. Len(hands[h]) = 1 /\ 1 \in 1 .. Len(hands[h]) /\ \A i \in 1 .. Len(hands[h]) : i = 1
  <2>1. Len(hands[h]) = 1
    BY <1>1, <1>2 DEF PlacesInv, ControlInv, HandsAt
  <2>2. QED
    BY <2>1
<1>4. b \in DOMAIN device /\ ~Binned(b, pool.bins) /\ device[b].bytes = k[2]
  BY <1>2, <1>3, HeldIsLive DEF PlacesInv, RoomInv, RoomFor, BinOf
<1>5. k \in Key
  BY RegionAssumption, AsksForRoom
<1>6. /\ "bins" \in DOMAIN pool' /\ pool'.bins = bins
      /\ "total" \in DOMAIN pool' /\ pool'.total = pool.total
  BY <1>1, PoolFreeBins, PoolFreeTotal DEF PlacesInv, BufferInv, AccountInv, CountInv
<1>7. /\ DOMAIN device' = DOMAIN device
      /\ \A x \in DOMAIN device : device'[x].bytes = device[x].bytes
  BY GiveBackInv DEF Writes
<1>8. BinsOK(pool.bins, device) /\ DeviceOK(device) /\ StatsOK(pool.bins, device)
  BY DEF PlacesInv, BufferInv, AccountInv
<1> HIDE DEF b, k, bins
<1>9. BinsOK(bins, device) /\ \A x : Binned(x, bins) <=> Binned(x, pool.bins) \/ x = b
  <2>1. BinsOK(bins, device) /\ \A x : Binned(x, bins) => Binned(x, pool.bins) \/ x = b
    BY <1>4, <1>5, <1>8, PutOK DEF bins
  <2>2. \A x : Binned(x, pool.bins) \/ x = b => Binned(x, bins)
    BY <1>4, <1>5, <1>8, PutBins DEF bins
  <2>3. QED
    BY <2>1, <2>2
<1>10. StatsOK(bins, device)
  BY <1>4, <1>5, <1>8, PutStats DEF bins
<1>11. StatsOK(pool'.bins, device')
  <2>1. StatsOK(bins, device')
    BY <1>7, <1>8, <1>9, <1>10, OtherDeviceStats
  <2>2. QED
    BY <1>6, <2>1
<1>12. DeviceOK(device')
  BY <1>7, <1>8 DEF DeviceOK
<1>13. \A x : Binned(x, pool'.bins) <=>
         Binned(x, pool.bins) \/ \E i \in 1 .. Len(hands[h]) : i # 3 /\ x = hands[h][i]
  BY <1>3, <1>6, <1>9 DEF b
<1>14. QED
  BY <1>1, <1>2, <1>6, <1>7, <1>11, <1>12, <1>13, BackCount

LEMMA FinishCount ==
  ASSUME PlacesInv, AccountInv, NEW c \in Call, Finish(c)
  PROVE  AccountInv'
<1> DEFINE b1 == hands[c][1]
           b2 == hands[c][2]
           b3 == hands[c][3]
           bins == BothBack(c)
<1>1. /\ pc[c] = "copy" /\ UNCHANGED history /\ Go(c, "returned")
      /\ pool' = ReleaseSides(c)
  BY DEF Finish, Runs
<1>2. c \in Client /\ ~Ended(c)
  BY <1>1 DEF Client, Ended
<1>3. /\ Len(hands[c]) = 3 /\ hands' = Emptied(hands, c)
      /\ "bins" \in DOMAIN pool' /\ pool'.bins = bins
      /\ BinsOK(OneBack(c), device) /\ BinsOK(bins, device)
      /\ DOMAIN device' = DOMAIN device \ {b3}
      /\ \A x \in DOMAIN device \ {b3} : device'[x] = device[x]
  BY FinishMoves
<1>4. /\ b1 \in DOMAIN device /\ ~Binned(b1, pool.bins) /\ b1 # b3
      /\ b2 \in DOMAIN device /\ ~Binned(b2, OneBack(c)) /\ b2 # b3
      /\ b3 \in DOMAIN device /\ ~Binned(b3, pool.bins) /\ ~Binned(b3, bins)
      /\ SideBin(c, 1) \in Key /\ device[b1].bytes = SideBin(c, 1)[2]
      /\ SideBin(c, 2) \in Key /\ device[b2].bytes = SideBin(c, 2)[2]
  <2>1. \A i \in 1 .. 3 : hands[c][i] \in DOMAIN device /\ ~Binned(hands[c][i], pool.bins)
    BY FinishMoves
  <2>2. 1 \in 1 .. 3 /\ 2 \in 1 .. 3 /\ 3 \in 1 .. 3
    OBVIOUS
  <2>3. QED
    BY <2>1, <2>2, FinishMoves
<1>5. OneBack(c) = Put(pool.bins, SideBin(c, 1), b1) /\ bins = Put(OneBack(c), SideBin(c, 2), b2)
  BY DEF OneBack, BothBack
<1>6. BinsOK(pool.bins, device) /\ DeviceOK(device) /\ StatsOK(pool.bins, device)
  BY DEF PlacesInv, BufferInv, AccountInv
<1>7. "total" \in DOMAIN pool' /\ pool'.total = pool.total
  BY <1>1, PoolFreeTotal DEF ReleaseSides, AccountInv, CountInv
<1> HIDE DEF b1, b2, b3, bins
<1>8. StatsOK(OneBack(c), device)
  BY <1>4, <1>5, <1>6, PutStats
<1>9. StatsOK(bins, device)
  BY <1>3, <1>4, <1>5, <1>6, <1>8, PutStats
<1>10. \A x : Binned(x, bins) <=> Binned(x, pool.bins) \/ x = b1 \/ x = b2
  <2>1. \A x : Binned(x, OneBack(c)) <=> Binned(x, pool.bins) \/ x = b1
    <3>1. \A x : Binned(x, OneBack(c)) => Binned(x, pool.bins) \/ x = b1
      BY <1>4, <1>5, <1>6, PutOK
    <3>2. \A x : Binned(x, pool.bins) \/ x = b1 => Binned(x, OneBack(c))
      BY <1>4, <1>5, <1>6, PutBins
    <3>3. QED
      BY <3>1, <3>2
  <2>2. \A x : Binned(x, bins) => Binned(x, OneBack(c)) \/ x = b2
    BY <1>3, <1>4, <1>5, PutOK
  <2>3. \A x : Binned(x, OneBack(c)) \/ x = b2 => Binned(x, bins)
    BY <1>3, <1>4, <1>5, PutBins
  <2>4. QED
    BY <2>1, <2>2, <2>3
<1>11. StatsOK(pool'.bins, device')
  <2>1. \A x \in DOMAIN device : Binned(x, bins) =>
          x \in DOMAIN device' /\ device'[x].bytes = device[x].bytes
    BY <1>3, <1>4
  <2>2. \A x \in DOMAIN device' : Binned(x, bins) => x \in DOMAIN device
    BY <1>3
  <2>3. StatsOK(bins, device')
    BY <1>3, <1>6, <1>9, <2>1, <2>2, OtherDeviceStats
  <2>4. QED
    BY <1>3, <2>3
<1>12. DeviceOK(device')
  <2>1. IsFiniteSet(DOMAIN device')
    BY <1>3, <1>6, FS_RemoveElement DEF DeviceOK
  <2>2. QED
    BY <1>3, <1>6, <2>1 DEF DeviceOK
<1>13. \A x : Binned(x, pool'.bins) <=>
         Binned(x, pool.bins) \/ \E i \in 1 .. Len(hands[c]) : i # 3 /\ x = hands[c][i]
  <2>1. \A x : (\E i \in 1 .. Len(hands[c]) : i # 3 /\ x = hands[c][i]) <=> x = b1 \/ x = b2
    <3>1. /\ 1 \in 1 .. Len(hands[c]) /\ 2 \in 1 .. Len(hands[c])
          /\ \A i \in 1 .. Len(hands[c]) : i = 1 \/ i = 2 \/ i = 3
      BY <1>3
    <3>2. QED
      BY <3>1 DEF b1, b2
  <2>2. QED
    BY <1>3, <1>10, <2>1
<1>14. ~Known(b3)
  <2>1. 3 \in 1 .. Len(hands[c]) /\ hands[c][3] = b3
    BY <1>3 DEF b3
  <2>2. Held(b3, hands)
    BY <1>2, <2>1 DEF Held
  <2>3. ~Handed(b3)
    <3>1. ASSUME NEW d \in Client, NEW i \in 1 .. Len(hands[d]), hands[d][i] = b3 PROVE i = 3
      BY <1>2, <2>1, <3>1, HeldOnce DEF PlacesInv
    <3>2. QED
      BY <3>1 DEF Handed
  <2>4. QED
    BY <1>4, <2>2, <2>3 DEF Known, AccountInv, DroppedInv
<1>15. /\ \A x \in DOMAIN device' : x \in DOMAIN device /\ device'[x].bytes = device[x].bytes
       /\ \A x \in DOMAIN device : Known(x) => x \in DOMAIN device'
  BY <1>3, <1>14
<1>16. QED
  BY <1>1, <1>2, <1>3, <1>7, <1>11, <1>12, <1>13, <1>15, BackCount

---------------------------------------------------------------------------
(* The invariant and the theorem.                                          *)

LEMMA InitCount == Init => AccountInv
<1> SUFFICES ASSUME Init PROVE AccountInv
  OBVIOUS
<1>1. /\ pool.bins = NoBuffers /\ "total" \in DOMAIN pool /\ pool.total = 0 /\ uncounted = 0 /\ refused = 0
      /\ device = << >> /\ dropped = {}
  BY DEF Init, EmptyPool
<1>2. DOMAIN device = {}
  BY <1>1
<1>3. Counted = {}
  BY <1>2 DEF Counted
<1>4. Sum(Sizes(device), Counted) = 0
  BY <1>3, FS_EmptySet, SumStep
<1>5. CountInv
  BY <1>1, <1>4 DEF CountInv, Granted
<1>6. DeviceOK(device)
  BY <1>2, FS_EmptySet DEF DeviceOK
<1>7. StatsOK(pool.bins, device)
  BY <1>1, NoStats
<1>8. QED
  BY <1>1, <1>5, <1>6, <1>7 DEF AccountInv, DroppedInv

LEMMA StepCount == PlacesInv /\ ContentsInv /\ AccountInv /\ [Next]_vars => AccountInv'
<1> SUFFICES ASSUME PlacesInv, ContentsInv, AccountInv, [Next]_vars PROVE AccountInv'
  OBVIOUS
<1>1. ASSUME NEW c \in Call, Step(c) PROVE AccountInv'
  <2>1. CASE Quiet(c)
    BY <2>1, QuietCount
  <2>2. CASE Take(c)
    BY <2>2, TakeCount
  <2>3. CASE Pack(c)
    BY <2>3, PackCount
  <2>4. CASE TakeMask(c)
    BY <2>4, TakeMaskCount
  <2>5. CASE RunKernel(c)
    BY <2>5, ContentsArePacked, RunKernelCount
  <2>6. CASE Finish(c)
    BY <2>6, FinishCount
  <2>7. QED
    BY <1>1, <2>1, <2>2, <2>3, <2>4, <2>5, <2>6 DEF Step, Quiet
<1>2. ASSUME NEW h \in Holder, Borrow(h) PROVE AccountInv'
  BY <1>2, BorrowCount
<1>2a. ASSUME NEW h \in Holder, BorrowRefused(h) PROVE AccountInv'
  BY <1>2a, BorrowRefusedCount
<1>3. ASSUME NEW h \in Holder, NEW t \in Packable, GiveBack(h, t) PROVE AccountInv'
  BY <1>3, GiveBackCount
<1>4. ASSUME Flush \/ Drain PROVE AccountInv'
  BY <1>4, FlushCount
<1>5. ASSUME UNCHANGED vars PROVE AccountInv'
  <2>1. UNCHANGED <<pc, hands, device, pool, dropped, uncounted, refused>>
    BY <1>5 DEF vars, buffers, history
  <2>2. \A x : Known(x)' <=> Known(x)
    BY <2>1 DEF Known, Handed
  <2>3. Counted' = Counted
    BY <2>1, <2>2 DEF Counted
  <2>4. CountInv'
    BY <2>1, <2>3 DEF AccountInv, CountInv, Granted, NoThrow, Threw
  <2>5. DroppedInv'
    BY <2>1 DEF AccountInv, DroppedInv, Binned, Held
  <2>6. QED
    BY <2>1, <2>4, <2>5 DEF AccountInv
<1>6. QED
  BY <1>1, <1>2, <1>2a, <1>3, <1>4, <1>5 DEF Next

(* A buffer in the hands of some of the clients, in the property's words.  *)
LEMMA HandedToMeans ==
  ASSUME PlacesInv, NEW C \in SUBSET Client
  PROVE  \A x : x \in HandedTo(C) <=>
           \E c \in C : \E i \in 1 .. Len(hands[c]) : i # 3 /\ hands[c][i] = x
<1>1. \A c \in C : \A i : i \in 1 .. Len(hands[c]) /\ i # 3 <=> i \in 1 .. 2 /\ i <= Len(hands[c])
  <2> SUFFICES ASSUME NEW c \in C
               PROVE  \A i : i \in 1 .. Len(hands[c]) /\ i # 3 <=> i \in 1 .. 2 /\ i <= Len(hands[c])
    OBVIOUS
  <2>1. Len(hands[c]) \in {0, 1, 2, 3}
    BY DEF PlacesInv, ControlInv, HandsAt
  <2>2. \A n \in Nat : n <= 3 => \A i : i \in 1 .. n /\ i # 3 <=> i \in 1 .. 2 /\ i <= n
    OBVIOUS
  <2>3. \A n \in {0, 1, 2, 3} : n \in Nat /\ n <= 3
    OBVIOUS
  <2>4. QED
    BY <2>1, <2>2, <2>3, Zenon
<1>2. ASSUME NEW x \in HandedTo(C)
      PROVE  \E c \in C : \E i \in 1 .. Len(hands[c]) : i # 3 /\ hands[c][i] = x
  <2>1. PICK q \in C \X (1 .. 2) : q[2] <= Len(hands[q[1]]) /\ InHand(q) = x
    BY <1>2 DEF HandedTo
  <2>2. q[1] \in C /\ q[2] \in 1 .. Len(hands[q[1]]) /\ q[2] # 3
    BY <1>1, <2>1
  <2>3. QED
    BY <2>1, <2>2 DEF InHand
<1>3. ASSUME NEW x, NEW c \in C, NEW i \in 1 .. Len(hands[c]), i # 3, hands[c][i] = x
      PROVE  x \in HandedTo(C)
  <2>1. <<c, i>> \in C \X (1 .. 2) /\ i <= Len(hands[c])
    BY <1>1, <1>3
  <2>2. InHand(<<c, i>>) = x
    BY <1>3 DEF InHand
  <2>3. QED
    BY <2>1, <2>2 DEF HandedTo
<1>4. QED
  BY <1>2, <1>3

(* The sets of BooksBalance are those that the invariant counts, and what  *)
(* a call left behind is nowhere else.                                     *)
LEMMA WhatIsCounted ==
  ASSUME PlacesInv, AccountInv
  PROVE  /\ Idle(pool) = IdleIn(pool.bins, device)
         /\ Idle(pool) \cup Lent \cup dropped \cup LeftBehind = Counted
         /\ LeftBehind \cap (Idle(pool) \cup Lent \cup dropped) = {}
<1> DEFINE Thrown == {c \in Client : Threw(c)}
<1>1. BinsOK(pool.bins, device) /\ HandsOK(hands, device)
  BY DEF PlacesInv, BufferInv
<1>2. \A x : x \in Idle(pool) <=> Binned(x, pool.bins)
  BY <1>1, IdleIsBinned DEF Idle
<1>3. \A x : Binned(x, pool.bins) => x \in DOMAIN device
  BY <1>1, ElementOfSeq DEF Binned, BinsOK
<1>4. /\ \A x : x \in Lent <=>
           \E c \in Active : \E i \in 1 .. Len(hands[c]) : i # 3 /\ hands[c][i] = x
      /\ \A x : x \in LeftBehind <=>
           \E c \in Thrown : \E i \in 1 .. Len(hands[c]) : i # 3 /\ hands[c][i] = x
  <2>1. Active \in SUBSET Client /\ Thrown \in SUBSET Client
    BY DEF Active
  <2>2. QED
    BY <2>1, HandedToMeans DEF Lent, LeftBehind
<1>5. \A c \in Client : 1 .. Len(hands[c]) = {} \/ c \in Active \/ c \in Thrown
  <2> SUFFICES ASSUME NEW c \in Client, c \notin Active, c \notin Thrown
               PROVE  1 .. Len(hands[c]) = {}
    OBVIOUS
  <2>1. pc[c] = "returned"
    BY DEF Active, Ended, Threw
  <2>2. Len(hands[c]) = 0
    BY <2>1 DEF PlacesInv, ControlInv, HandsAt
  <2>3. QED
    BY <2>2
<1>6. \A x : Handed(x) <=> x \in Lent \cup LeftBehind
  BY <1>4, <1>5 DEF Handed, Active
<1>7. \A x : Handed(x) => x \in DOMAIN device /\ Held(x, hands)
  BY HeldIsLive DEF Handed, Held, PlacesInv
<1>8. Idle(pool) = IdleIn(pool.bins, device)
  BY <1>2, <1>3 DEF IdleIn
<1>9. Idle(pool) \cup Lent \cup dropped \cup LeftBehind = Counted
  BY <1>2, <1>3, <1>6, <1>7 DEF Counted, Known, AccountInv, DroppedInv
<1>10. ASSUME NEW x \in LeftBehind PROVE x \notin Idle(pool) \cup Lent \cup dropped
  <2>1. Held(x, hands) /\ x \in DOMAIN device
    BY <1>6, <1>7
  <2>2. ~Binned(x, pool.bins) /\ x \notin dropped
    BY <2>1 DEF PlacesInv, BufferInv, AccountInv, DroppedInv
  <2>3. PICK c \in Thrown : \E i \in 1 .. Len(hands[c]) : hands[c][i] = x
    BY <1>4
  <2>4. ASSUME NEW d \in Active, NEW j \in 1 .. Len(hands[d]) PROVE hands[d][j] # x
    <3>1. c \in Client /\ d \in Client /\ c # d
      BY <2>3, <2>4 DEF Active, Ended, Threw
    <3>2. QED
      BY <1>1, <2>3, <3>1 DEF HandsOK
  <2>5. x \notin Lent
    BY <1>4, <2>4
  <2>6. QED
    BY <1>2, <2>2, <2>5
<1>11. QED
  BY <1>8, <1>9, <1>10

(* Every byte that the pool of src/engine/gpu/pool.js ever asked for is    *)
(* accounted for, in every state, after a call threw as well: idle, lent,  *)
(* dropped by a flush, left in the hands of a call that threw and nowhere  *)
(* else, or refused by the device.  What poolStats reports is what is idle.*)
THEOREM BooksBalanceHolds == Spec => []BooksBalance
<1>1. ASSUME PlacesInv, AccountInv PROVE BooksBalance
  <2>1. \A B : SizeOf(B) = Sum(Sizes(device), B)
    BY DEF SizeOf, Sum, Sizes
  <2>2. /\ Idle(pool) = IdleIn(pool.bins, device)
        /\ Idle(pool) \cup Lent \cup dropped \cup LeftBehind = Counted
        /\ LeftBehind \cap (Idle(pool) \cup Lent \cup dropped) = {}
    BY <1>1, WhatIsCounted
  <2>3. pool.total + uncounted = SizeOf(Counted) + refused
    <3>1. /\ pool.total \in Int /\ uncounted \in Int /\ refused \in Int
          /\ pool.total + uncounted - refused = Sum(Sizes(device), Counted)
      BY <1>1 DEF AccountInv, CountInv, Granted
    <3>2. QED
      BY <2>1, <3>1
  <2>4. refused # 0 => \E c \in Client : Threw(c)
    BY <1>1 DEF AccountInv, CountInv, NoThrow
  <2>5. \A m : PoolStats(pool, m).bytes = Sum(InMode(pool.bins, m), Bucket)
    <3> SUFFICES ASSUME NEW m PROVE PoolStats(pool, m).bytes = Sum(InMode(pool.bins, m), Bucket)
      OBVIOUS
    <3>1. DOMAIN InMode(pool.bins, m) = Bucket
      BY DEF InMode
    <3>2. PoolStats(pool, m).bytes = SumFunction(InMode(pool.bins, m))
      BY DEF PoolStats, InMode
    <3>3. QED
      BY <3>1, <3>2 DEF SumFunction, Sum
  <2>6. PoolStats(pool, "shared").bytes + PoolStats(pool, "private").bytes = SizeOf(Idle(pool))
    BY <1>1, <2>1, <2>2, <2>5 DEF AccountInv, StatsOK, StatsOf
  <2>7. QED
    BY <2>2, <2>3, <2>4, <2>6 DEF BooksBalance
<1>2. Init => PlacesInv /\ ContentsInv /\ AccountInv
  BY InitInv, InitCount
<1>3. PlacesInv /\ ContentsInv /\ AccountInv /\ [Next]_vars
        => PlacesInv' /\ ContentsInv' /\ AccountInv'
  BY StepInv, StepCount
<1>4. QED
  BY <1>1, <1>2, <1>3, PTL DEF Spec

=============================================================================
