----------------------------- MODULE BufferPool -----------------------------
(***************************************************************************)
(* The pool of Metal buffers (src/engine/gpu/pool.js): bins of idle        *)
(* buffers per storage mode and bucket, last in first out.                 *)
(*                                                                         *)
(* A pool is [bins, hits, misses, total]; a bin's key is <<mode, bucket>>. *)
(***************************************************************************)
EXTENDS Integers, Sequences, SequencesExt, FiniteSetsExt

CONSTANTS
  Width,      \* bits of the integers that << works on: 32
  MinBucket,  \* bytes of the smallest bucket: 256
  Never       \* no bucket: the rounding loop does not end

ASSUME PoolAssumption == Width \in Nat \ {0, 1} /\ MinBucket \in Nat \ {0}

Mode == {"shared", "private"}

(* s <<= 1 in signed arithmetic.                                           *)
Doubled(s) ==
  LET bits == (2 * s) % 2^Width
  IN IF bits < 2^(Width - 1) THEN bits ELSE bits - 2^Width

(* The values of s; after Width turns it is 0 and stays so.                *)
Doubling[n \in 0 .. Width] == IF n = 0 THEN 1 ELSE Doubled(Doubling[n - 1])

(* Faulty variant: goes on while s <= bytes.                               *)
BucketBeyond(bytes) ==
  LET enough == {n \in 0 .. Width : Doubling[n] > bytes}
  IN IF bytes <= MinBucket THEN MinBucket
     ELSE IF enough = {} THEN Never ELSE Doubling[Min(enough)]

BucketSize(bytes) ==
  LET enough == {n \in 0 .. Width : Doubling[n] >= bytes}
  IN IF bytes <= MinBucket THEN MinBucket
     ELSE IF enough = {} THEN Never ELSE Doubling[Min(enough)]

Bucket == {MinBucket} \cup {Doubling[n] : n \in 0 .. Width}

---------------------------------------------------------------------------

NoBuffers == [k \in Mode \X Bucket |-> <<>>]

EmptyPool == [bins |-> NoBuffers, hits |-> 0, misses |-> 0, total |-> 0]

BinOf(bytes, mode) == <<mode, BucketSize(bytes)>>

IsHit(pool, k) == pool.bins[k] # <<>>

Recycled(pool, k) == Last(pool.bins[k])

AfterHit(pool, k) == [pool EXCEPT !.bins[k] = Front(@), !.hits = @ + 1]

(* Counted before the device is asked, which may refuse.                   *)
AfterMiss(pool, k) == [pool EXCEPT !.misses = @ + 1, !.total = @ + k[2]]

PoolFree(pool, buffer, bytes, mode) ==
  [pool EXCEPT !.bins[BinOf(bytes, mode)] = Append(@, buffer)]

(* poolFlush forgets the idle buffers; it does not release them.           *)
PoolFlush(pool) == [pool EXCEPT !.bins = NoBuffers]

PoolDrain(pool) == EmptyPool

Idle(pool) == UNION {Range(pool.bins[k]) : k \in Mode \X Bucket}

(* poolStats for one storage mode.                                         *)
PoolStats(pool, mode) ==
  [count |-> SumFunction([b \in Bucket |-> Len(pool.bins[<<mode, b>>])]),
   bytes |-> SumFunction([b \in Bucket |-> b * Len(pool.bins[<<mode, b>>])])]

=============================================================================
