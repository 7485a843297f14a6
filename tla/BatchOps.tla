------------------------------ MODULE BatchOps ------------------------------
(***************************************************************************)
(* The batch operations on the CPU and the GPU backend: unifyBatch,        *)
(* coverageVector and constraintMask (src/engine/ops), the backend they    *)
(* choose, the buffers they take from the pool and the kernel they run     *)
(* (src/engine/gpu).  After its last await an operation runs to its end on *)
(* the one thread of JavaScript; its steps are actions here so that what   *)
(* happens between them, a throw above all, can be seen.                   *)
(*                                                                         *)
(* A packed region is its term with the symbol table it was packed against;*)
(* what a kernel makes of two regions is the relation Unifies, which       *)
(* UnifyPacked says how to compute.                                        *)
(***************************************************************************)
EXTENDS BufferPool

CONSTANTS
  Call,         \* calls of the operations
  Holder,       \* code that takes a buffer from the pool and gives it back
  Requests,     \* what may be asked: functions from Call to requests
  Packable,     \* the terms that fit the layout
  Unifies,      \* the pairs of packed terms that unify
  RegionBytes,  \* bytes of one packed term
  MinMask,      \* the smallest mask: 256
  DeviceBytes,  \* memory of the device
  Metallibs,    \* the kernels that a build of the shaders may hold
  Nobody        \* no call has the thread

ASSUME ClientAssumption == Call \cap Holder = {} /\ Nobody \notin Call
ASSUME RequestsAssumption ==
  \A r \in Requests : \A c \in Call : \A n \in {1, 2} :
    r[c].sides[n] \in Seq(Range(r[c].sides[n]))
ASSUME RegionAssumption ==
  RegionBytes \in Nat /\ MinMask \in Nat /\ BucketSize(RegionBytes) # Never

VARIABLES
  request,    \* per call: its op, sides (two sequences of terms) and backend
  metal,      \* the kernels of this platform's metallib, Nobody without Metal
  pc,         \* per client: where it is
  hands,      \* per client: the buffers it holds, in the order it took them
  mask,       \* per call: the mask it returns
  thread,     \* the call that is running, or Nobody
  pool,
  device,     \* the live buffers: number -> [bytes, cells]
  made,       \* how many buffers the device has made
  pipelines,  \* the kernels with a pipeline
  dropped,    \* history: the idle buffers that poolFlush forgot
  uncounted,  \* history: the total that poolDrain reset
  refused     \* history: the bytes counted for buffers that the device refused

platform == <<request, metal>>
history  == <<dropped, uncounted, refused>>
buffers  == <<hands, pool, device, made>>

vars == <<platform, pc, mask, thread, buffers, pipelines, history>>

Client == Call \cup Holder

Init ==
  /\ request \in Requests
  /\ metal \in {Nobody} \cup Metallibs
  /\ pc = [c \in Client |-> IF c \in Call THEN "called" ELSE "idle"]
  /\ hands = [c \in Client |-> <<>>]
  /\ mask = [c \in Call |-> <<>>]
  /\ thread = Nobody
  /\ pool = EmptyPool
  /\ device = << >>
  /\ made = 0
  /\ pipelines = {}
  /\ dropped = {}
  /\ uncounted = 0
  /\ refused = 0

---------------------------------------------------------------------------
(* What a mask says.                                                       *)

(* Regions of two tables have nothing to do with one another.              *)
Holds(op, a, b) ==
  /\ a.symbols = b.symbols
  /\ IF op = "constraint_mask" THEN a.term = b.term ELSE <<a.term, b.term>> \in Unifies

(* Faulty variant: rows and columns are swapped.                           *)
CellsByColumn(op, left, right) ==
  [n \in 1 .. Len(left) * Len(right) |->
     Holds(op, left[((n - 1) % Len(left)) + 1], right[(n - 1) \div Len(left) + 1])]

(* One thread per pair, row-major; a grid of 0 becomes one thread, whose   *)
(* byte nobody copies.                                                     *)
Cells(op, left, right) ==
  [n \in 1 .. Len(left) * Len(right) |->
     Holds(op, left[(n - 1) \div Len(right) + 1], right[((n - 1) % Len(right)) + 1])]

Region(symbols, t) == [symbols |-> symbols, term |-> t]

Regions(symbols, terms) == [i \in DOMAIN terms |-> Region(symbols, terms[i])]

Fits(terms) == Range(terms) \subseteq Packable

(* Packing throws at the first term that does not fit.                     *)
PackedTerms(terms) ==
  LET n == SelectInSeq(terms, LAMBDA t : t \notin Packable)
  IN IF n = 0 THEN terms ELSE SubSeq(terms, 1, n - 1)

(* A recycled buffer keeps what earlier terms left behind the new ones.    *)
Overwrite(cells, new) == new \o SubSeq(cells, Len(new) + 1, Len(cells))

---------------------------------------------------------------------------
(* The choice of the backend, and the CPU.                                 *)

Ended(c) == pc[c] \in {"returned", "threw"}

Free == thread = Nobody

Go(c, where) == pc' = [pc EXCEPT ![c] = where]

Side(c, n) == request[c].sides[n]

(* gpuAvailable asks once whether the device module loads.                 *)
Backend(c) ==
  IF request[c].backend # "auto" THEN request[c].backend
  ELSE IF metal # Nobody THEN "gpu" ELSE "cpu"

RunOnCpu(c) ==
  /\ Free
  /\ pc[c] = "called"
  /\ Backend(c) = "cpu"
  /\ IF Fits(Side(c, 1)) /\ Fits(Side(c, 2))
       THEN /\ Go(c, "returned")
            /\ mask' = [mask EXCEPT ![c] =
                 Cells(request[c].op, Regions(c, Side(c, 1)), Regions(c, Side(c, 2)))]
       ELSE Go(c, "threw") /\ UNCHANGED mask
  /\ UNCHANGED <<platform, thread, buffers, pipelines, history>>

(* The first of the awaited imports; without Metal it rejects.             *)
ChooseGpu(c) ==
  /\ Free
  /\ pc[c] = "called"
  /\ Backend(c) = "gpu"
  /\ Go(c, IF metal = Nobody THEN "threw" ELSE "importing")
  /\ UNCHANGED <<platform, mask, thread, buffers, pipelines, history>>

(* The last import resolves: from here the call has the thread.            *)
Import(c) ==
  /\ Free
  /\ pc[c] = "importing"
  /\ thread' = c
  /\ Go(c, "take")
  /\ UNCHANGED <<platform, mask, buffers, pipelines, history>>

---------------------------------------------------------------------------
(* Buffers.                                                                *)

SizeOf(B) == SumFunctionOnSet([b \in DOMAIN device |-> device[b].bytes], B)

UsedBytes == SizeOf(DOMAIN device)

HasMemory(bytes) == UsedBytes + bytes <= DeviceBytes

Alloc(c, bytes) ==
  /\ device' = [b \in DOMAIN device \cup {made + 1} |->
       IF b = made + 1 THEN [bytes |-> bytes, cells |-> <<>>] ELSE device[b]]
  /\ made' = made + 1
  /\ hands' = [hands EXCEPT ![c] = Append(@, made + 1)]

(* poolAlloc, when the rounding ends.                                      *)
TakeIdle(c, k) ==
  /\ IsHit(pool, k)
  /\ hands' = [hands EXCEPT ![c] = Append(@, Recycled(pool, k))]
  /\ pool' = AfterHit(pool, k)
  /\ UNCHANGED <<device, made>>

TakeNew(c, k) ==
  /\ ~IsHit(pool, k)
  /\ HasMemory(k[2])
  /\ Alloc(c, k[2])
  /\ pool' = AfterMiss(pool, k)

RefusedNew(k) ==
  /\ ~IsHit(pool, k)
  /\ ~HasMemory(k[2])
  /\ pool' = AfterMiss(pool, k)
  /\ refused' = refused + k[2]

Bytes(terms) == RegionBytes * Len(terms)

(* The side whose buffer comes next.                                       *)
NextSide(c) == Side(c, Len(hands[c]) + 1)

(* The side of the last buffer taken.                                      *)
ThisSide(c) == Side(c, Len(hands[c]))

Runs(c, where) == thread = c /\ pc[c] = where

(* What the call holds stays in its hands: nothing gives it back.          *)
Throw(c) == Go(c, "threw") /\ thread' = Nobody

Take(c) ==
  LET k == BinOf(Bytes(NextSide(c)), "shared") IN
    /\ Runs(c, "take")
    /\ k[2] # Never
    /\ TakeIdle(c, k) \/ TakeNew(c, k)
    /\ Go(c, "pack")
    /\ UNCHANGED <<platform, mask, thread, pipelines, history>>

(* The device has no memory left.                                          *)
TakeRefused(c) ==
  LET k == BinOf(Bytes(NextSide(c)), "shared") IN
    /\ Runs(c, "take")
    /\ k[2] # Never
    /\ RefusedNew(k)
    /\ Throw(c)
    /\ UNCHANGED <<platform, mask, hands, device, made, pipelines, dropped, uncounted>>

(* The rounding does not end, and with it the process.                     *)
Hang(c) ==
  /\ Runs(c, "take")
  /\ BucketSize(Bytes(NextSide(c))) = Never
  /\ Go(c, "hung")
  /\ UNCHANGED <<platform, mask, thread, buffers, pipelines, history>>

(* packTerms, which throws at a term that does not fit.                    *)
Pack(c) ==
  /\ Runs(c, "pack")
  /\ device' = [device EXCEPT ![Last(hands[c])].cells =
       Overwrite(@, Regions(c, PackedTerms(ThisSide(c))))]
  /\ IF Fits(ThisSide(c))
       THEN Go(c, IF Len(hands[c]) = 1 THEN "take" ELSE "mask") /\ UNCHANGED thread
       ELSE Throw(c)
  /\ UNCHANGED <<platform, mask, hands, pool, made, pipelines, history>>

Pairs(c) == Len(Side(c, 1)) * Len(Side(c, 2))

MaskBytes(c) == IF Pairs(c) > MinMask THEN Pairs(c) ELSE MinMask

(* The mask's buffer is the device's own, not the pool's.                  *)
TakeMask(c) ==
  /\ Runs(c, "mask")
  /\ IF HasMemory(MaskBytes(c))
       THEN Alloc(c, MaskBytes(c)) /\ Go(c, "run") /\ UNCHANGED thread
       ELSE Throw(c) /\ UNCHANGED <<device, made, hands>>
  /\ UNCHANGED <<platform, mask, pool, pipelines, history>>

HasPipeline(op) == op \in pipelines \cup metal

(* run: the pipeline is looked up or made, then the kernel reads the two   *)
(* buffers and writes the mask; endSync waits for it.                      *)
RunKernel(c) ==
  LET op == request[c].op
      regions(n) == SubSeq(device[hands[c][n]].cells, 1, Len(Side(c, n))) IN
    /\ Runs(c, "run")
    /\ HasPipeline(op)
    /\ pipelines' = pipelines \cup {op}
    /\ device' = [device EXCEPT ![hands[c][3]].cells = Cells(op, regions(1), regions(2))]
    /\ Go(c, "copy")
    /\ UNCHANGED <<platform, mask, thread, hands, pool, made, history>>

(* The metallib was built without this kernel.                             *)
NoKernel(c) ==
  /\ Runs(c, "run")
  /\ ~HasPipeline(request[c].op)
  /\ Throw(c)
  /\ UNCHANGED <<platform, mask, buffers, pipelines, history>>

(* Faulty variant: the examples' buffer is forgotten.                      *)
ReleaseCandidates(c) == PoolFree(pool, hands[c][1], Bytes(Side(c, 1)), "shared")

(* Faulty variant: the candidates' buffer goes back twice.                 *)
ReleaseTwice(c) ==
  PoolFree(PoolFree(pool, hands[c][1], Bytes(Side(c, 1)), "shared"),
           hands[c][1], Bytes(Side(c, 1)), "shared")

ReleaseSides(c) ==
  PoolFree(PoolFree(pool, hands[c][1], Bytes(Side(c, 1)), "shared"),
           hands[c][2], Bytes(Side(c, 2)), "shared")

(* The mask is copied, the sides return to the pool and the mask's buffer  *)
(* to the device.                                                          *)
Finish(c) ==
  /\ Runs(c, "copy")
  /\ mask' = [mask EXCEPT ![c] = SubSeq(device[hands[c][3]].cells, 1, Pairs(c))]
  /\ pool' = ReleaseSides(c)
  /\ device' = [b \in DOMAIN device \ {hands[c][3]} |-> device[b]]
  /\ hands' = [hands EXCEPT ![c] = <<>>]
  /\ Go(c, "returned")
  /\ thread' = Nobody
  /\ UNCHANGED <<platform, made, pipelines, history>>

Step(c) ==
  \/ RunOnCpu(c) \/ ChooseGpu(c) \/ Import(c)
  \/ Take(c) \/ TakeRefused(c) \/ Hang(c) \/ Pack(c)
  \/ TakeMask(c) \/ RunKernel(c) \/ NoKernel(c) \/ Finish(c)

---------------------------------------------------------------------------
(* Code outside the operations: a PackedBuffer of one term that is held    *)
(* for a while, and the pool's maintenance.                                *)

Borrow(h) ==
  LET k == BinOf(RegionBytes, "shared") IN
    /\ Free /\ metal # Nobody
    /\ pc[h] = "idle"
    /\ TakeIdle(h, k) \/ TakeNew(h, k)
    /\ Go(h, "holding")
    /\ UNCHANGED <<platform, mask, thread, pipelines, history>>

(* The device has no memory left for it.                                   *)
BorrowRefused(h) ==
  /\ Free /\ metal # Nobody
  /\ pc[h] = "idle"
  /\ RefusedNew(BinOf(RegionBytes, "shared"))
  /\ Go(h, "threw")
  /\ UNCHANGED <<platform, mask, thread, hands, device, made, pipelines, dropped, uncounted>>

(* It has written to its buffer meanwhile.                                 *)
GiveBack(h, t) ==
  /\ Free
  /\ pc[h] = "holding"
  /\ device' = [device EXCEPT ![hands[h][1]].cells = Overwrite(@, <<Region(h, t)>>)]
  /\ pool' = PoolFree(pool, hands[h][1], RegionBytes, "shared")
  /\ hands' = [hands EXCEPT ![h] = <<>>]
  /\ Go(h, "returned")
  /\ UNCHANGED <<platform, mask, thread, made, pipelines, history>>

Flush ==
  /\ Free
  /\ pool' = PoolFlush(pool)
  /\ dropped' = dropped \cup Idle(pool)
  /\ UNCHANGED <<platform, pc, mask, thread, hands, device, made, pipelines, uncounted, refused>>

Drain ==
  /\ Free
  /\ pool' = PoolDrain(pool)
  /\ dropped' = dropped \cup Idle(pool)
  /\ uncounted' = uncounted + pool.total
  /\ UNCHANGED <<platform, pc, mask, thread, hands, device, made, pipelines, refused>>

Next ==
  \/ \E c \in Call : Step(c)
  \/ \E h \in Holder : Borrow(h) \/ BorrowRefused(h) \/ \E t \in Packable : GiveBack(h, t)
  \/ Flush \/ Drain

(* Imports settle and the event loop comes back to every call.             *)
Spec == Init /\ [][Next]_vars /\ \A c \in Call : WF_vars(Step(c))

---------------------------------------------------------------------------
(* Properties.                                                             *)

Active == {c \in Client : ~Ended(c)}

(* Where buffers of the pool are: in a bin, or in a hand.                  *)
BinPlaces  == {p \in (Mode \X Bucket) \X (1 .. made + 1) : p[2] <= Len(pool.bins[p[1]])}
HandPlaces == {q \in Active \X (1 .. 3) : q[2] <= Len(hands[q[1]])}

InBin(place)  == pool.bins[place[1]][place[2]]
InHand(place) == hands[place[1]][place[2]]

(* No buffer is in two places, whatever was recycled, flushed or lost; all *)
(* are alive, those in a bin have the bin's size and those in a hand room  *)
(* for what is packed into them.                                           *)
NoBufferIsShared ==
  /\ \A p, q \in BinPlaces : InBin(p) = InBin(q) => p = q
  /\ \A p, q \in HandPlaces : InHand(p) = InHand(q) => p = q
  /\ \A p \in BinPlaces : \A q \in HandPlaces : InBin(p) # InHand(q)
  /\ \A p \in BinPlaces : InBin(p) \in DOMAIN device /\ device[InBin(p)].bytes = p[1][2]
  /\ \A q \in HandPlaces : InHand(q) \in DOMAIN device /\
       device[InHand(q)].bytes >= (IF q[1] \in Holder THEN RegionBytes
                                   ELSE IF q[2] = 3 THEN Pairs(q[1]) ELSE Bytes(Side(q[1], q[2])))

(* "Either backend produces identical masks" (backend.test.js): a call     *)
(* that returns has the mask of its own terms, whatever its buffers held   *)
(* before; and on the CPU only a term that does not fit makes it throw.    *)
MasksAreExact ==
  \A c \in Call :
    /\ pc[c] = "returned" =>
         /\ Fits(Side(c, 1)) /\ Fits(Side(c, 2))
         /\ mask[c] = [n \in 1 .. Pairs(c) |->
              LET e == Len(Side(c, 2))
                  pair == <<Side(c, 1)[(n - 1) \div e + 1], Side(c, 2)[((n - 1) % e) + 1]>>
              IN IF request[c].op = "constraint_mask" THEN pair[1] = pair[2] ELSE pair \in Unifies]
    /\ pc[c] = "threw" /\ Backend(c) = "cpu" => ~(Fits(Side(c, 1)) /\ Fits(Side(c, 2)))

(* The pool's buffers (not the mask's, which comes third) that clients have.*)
HandedTo(C) == {InHand(q) : q \in {p \in C \X (1 .. 2) : p[2] <= Len(hands[p[1]])}}

Lent == HandedTo(Active)

Threw(c) == pc[c] = "threw"

LeftBehind == HandedTo({c \in Client : Threw(c)})

(* "Every buffer must stay pooled for reuse" (pool.js), and where it is    *)
(* not, whose it was: every byte the pool ever asked for is idle, lent,    *)
(* dropped by a flush, left behind by a call that threw, and by nobody     *)
(* else then, or was refused by the device, which made its client throw.   *)
(* What poolStats reports is what is idle.                                 *)
BooksBalance ==
  /\ pool.total + uncounted = SizeOf(Idle(pool) \cup Lent \cup dropped \cup LeftBehind) + refused
  /\ LeftBehind \cap (Idle(pool) \cup Lent \cup dropped) = {}
  /\ refused # 0 => \E c \in Client : Threw(c)
  /\ PoolStats(pool, "shared").bytes + PoolStats(pool, "private").bytes = SizeOf(Idle(pool))

(* The largest power of two that fits.                                     *)
Limit == 2^(Width - 2)

Sizable == {r \in Requests : \A c \in Call : \A n \in {1, 2} : Bytes(r[c].sides[n]) <= Limit}

(* Every call returns or throws, unless a buffer above the limit is asked  *)
(* for: then the rounding never ends.                                      *)
EveryCallEnds == request \in Sizable ~> \A c \in Call : Ended(c)

=============================================================================
