# Copper: TLA+ models, model checking and proofs

Copper synthesizes logic programs from examples (`README.md`): an enumerator
proposes candidate programs, a constraint learner discards those it can rule out,
an SLD interpreter evaluates the rest, and a server wraps the search in jobs,
streams and lowered source code. This directory models the parts where control,
ordering or shared state decide whether an answer is right, checks the models with
TLC and proves the central invariants with TLAPS.

Paths below are relative to the repository, `src/` being its `src` directory.

## 1. Inventory of the system

| Component | Source | State | Operations | What is hard | What makes it correct |
|---|---|---|---|---|---|
| Anytime search | `src/engine/synthesize.js` | counters, best so far, a suspended generator, the clock | pull, early return, one loop iteration, yields | two budgets, a pruning store, a gate and exceptions mix in one loop; consumers stop anywhere | no solution lost, best is the earliest maximum, budgets exact, one terminal step, heartbeats |
| Constraint learner | `src/engine/constrain.js` | `seen`, `tooGeneralSets`, `tooSpecificClauses`, a memo | `prune`, `learn`, canonical forms, theta-subsumption, type check | every stored failure condemns candidates not yet seen | a pruned candidate is no solution that matters |
| Enumerator | `src/engine/enumerate.js` | nested generators | `enumerateClauses`, `enumerate` | symmetry breaking, typing, modes and connectivity filters interact | complete up to renaming, simplest first, no ill-formed clause |
| Interpreter | `src/core/resolve.js`, `unify.js`, `background.js`, `verify.js` | goal stacks, persistent substitutions, fresh ids, per-path expansion counts | `step`, `stepProof`, `interpret`, `firstProof`, `covers`, `coverage`, `verify` | backtracking over shared structure, standardizing apart, the recursion bound | sound, complete up to the bound, terminating; `covers` and `firstProof` agree |
| Normalizer and schema | `src/core/normalize.js`, `schema.js` | none | id assignment, validation | clause-local scoping of names | a bijection on names per clause |
| Server | `src/engine/server.js` | jobs, subscribers, partial results, timers | POST, poll, stream, hang up, `runJob` | turns of one event loop interleave; a timer races a job; replay meets subscription | exact streams, no leaked subscriber, true answers, every request answered |
| Registry and harness | `src/engine/registry.js`, `src/core/harness.js`, `src/core/conformance.js` | files, the module cache of `import()` | `list`, `resolveVersion`, `manifest`, `load`, the hash checks | files change between two reads | an implementation runs only under the manifest it was built for |
| Lowering cache | `src/engine/lowering-cache.js` | an unbounded map, counters | `lower` | the key must hold all that the result depends on | invisible, as far as stamps tell semantics |
| Lowering | `src/core/lowering/` | none | analysis and one emitter per target | clause order, modes, determinism | emitted code computes what the interpreter does |
| Packing and structural coverage | `src/engine/pack.js`, `unpack.js`, `buffer.js`, `structural.js`, `ops/` | packed buffers, bindings | `packTerms`, `unpackTerms`, `unifyPacked`, masks | fixed slots, no occurs check | packed unification decides what term unification does |
| GPU pool and dispatch | `src/engine/gpu/` | bins of buffers | `poolAlloc`, `poolFree`, `poolFlush`, `poolDrain`, `run` | sizes rounded to powers of two in 32 bits, buffers returned by size | no buffer handed out twice or too small |
| LLM bias proposer | `src/engine/bias.js` | none | prompt text, parsing of an answer | none: formatting and validation | |
| Native bridge, shaders | `native/` | Metal objects | C calls, kernels | GPU scheduling | seen only through `gpu/device.js` |
| Applications, bench | `applications/`, `bench/` | none | demos and measurements | none | |

How they interact. `server.doSynthesize` validates a request, waits for
`registry.load` and starts `runJob`, which pulls `synthesizeStream`; each pull runs
the search loop until it yields. The loop pulls the enumerator, asks
`constraints.prune`, evaluates coverage with the interpreter, tells
`constraints.learn` and may call the target gate, which calls `lower`. When the
search ends, `buildSolution` verifies the program and lowers it through the cache.
Everything runs on one JavaScript thread: the interleavings are those of turns
(tasks and microtasks), of consumers with suspended generators, and of the process
with its files and its clock.

## 2. Plan

Ordered by what matters most to the answers a user gets.

1. `Constraints`, `Search`, `AnytimeStream`: the loop and its store; the abstract
   stream; proofs of the safety properties. **Done**, with every invariant proved.
2. `JobServer`: the event loop. **Done**, with proofs of its invariants and of the
   streams it implements.
3. `Registry`, `LoweringCache`: what "latest" means while authors publish, load, harness
   check, cache. **Done**, with proofs of all of it, alone and behind the registry.
4. `Clauses`, `Enumerate`, `ProgramSpace`: canonical forms, theta-subsumption, the type
   check and the candidates of a bias, against reference definitions; `Pipeline`:
   `Search` over them. **Done**, with every invariant proved.
5. `Terms`, `Normalize`, `Resolve`: unification against a reference definition, the
   interpreter's generators as a stack machine against a bounded ground semantics.
   **Done**, with proofs of standardizing apart, the recursion bound, soundness, completeness
   and evidence; the last three for any unification with the properties checked in `unify`.
6. `Packing`, `Structural`, `UnifyPacked`: packed terms, structural coverage, packed
   unification on the CPU and in a kernel. **Done**; the verdict of packed unification
   is proved, packing and structural coverage are model-checked.
7. `BufferPool`, `BatchOps`: the batch operations, the buffers they share and the
   kernels they run. **Done**, with proofs of the pool, the masks and the accounts.
8. `Lowering`: analysis and the control of the emitted code against the interpreter.
   **Done**, model-checked.
9. Left: `Terms`, `Normalize`, `Packing`, `Structural` and `Lowering` recurse over terms,
   which the prover does not reach (section 6); as recursive functions over a height or
   the slots of a layout, as `UnifyPacked` has them, their operators could be reasoned
   about.

## 3. Modules

A module's definitions carry the names of the code where they can; `PROJECT.json`
gives the lines each stands for. Some modules also hold, next to a definition and
marked *Faulty variant*, the form a plausible bug would give it: each property of a
passing run is known to fail when one of these takes its definition's place.

### The search: `Constraints`, `Search`, `AnytimeStream`, `MCSearch`

A *problem* is a record: the candidates in the enumerator's order, the examples each
one covers, which ones the target gate accepts, and the clause-level facts that the
learner reads (keys, subsumption, ill-typed clauses). `Constraints` has the store of
`makeConstraints()` with `Prune` and `Learn`. `Search` is the generator `search()`:
one action per outcome of one iteration of its loop, in the order of the code's tests
(`StopOnBudget`, `PruneCandidate`, `EvaluationThrows`,
`AcceptCandidate`, `ImproveBest`, `YieldHeartbeat`, `TestQuietly`, `Exhaust`). A yield
suspends it until the consumer acts (`Pull`, `Return`); `Tick` is the wall clock. The
heartbeat counts evaluated candidates, and an improvement does not reset it, as in the
code. `out` holds the steps yielded and `log` the candidates evaluated, for the
properties.

`AnytimeStream` is what a consumer relies on, and no more: while the stream is open
the best only gets strictly better, and it ends once. `Search` implements it, and so
does each job of the server.

### The server: `JobServer`

One JavaScript thread, so one action is one turn of the event loop: a handler up to
its first await, a continuation, a timer callback. Continuations of resolved promises
run before any task; `QueueEmpty` is that rule. `runJob` only awaits resolved promises,
so a running job always has one. `Embedded` says whether the callers are in the
process (their calls interleave with the job's microtasks) or on the network (they
wait for the queue to be empty). Each client posts once and its job has its name; the
job's search is abstracted to the scores it reports.

### Registry, harness, cache: `Registry`, `LoweringCache`, `MCLoweringCache`

`Registry` is how a request finds the version it means: `list()` reads the directory and
then probes each version for its manifest, waiting every time, while authors make
directories and write their files in any order; `Resolve` takes the last in
`compareVersions`' order. An explicit version passes through unseen. The request then
goes on as one of `LoweringCache`, which `Registry` extends, as long as the files it needs
are there; otherwise the server answers 404 (`NotFound`). One library is modelled, since
the listing of others is filtered out; a version is its sequence of numbers.

A request reads a manifest, imports the implementation (which `import()` caches for
the life of the process), is checked by the harness, searches, and lowers through the
cache; these are separate actions because the code awaits between them, and `Edit`, an
author who publishes a library, may come between any two. A manifest is its semantics and
its stamp; the hash is injective. `Stamping` is what authors do: stamp with the code's own
helper (`core/harness.js:85`), leave the stamp out, as the schema allows, or leave that of
an older text in. `AnswersFollowStamps` is what the cache promises of all of them: an answer
is the lowering of the same query for a manifest of the same stamp that some request read, the
same for all requests alike. That it is the lowering for the manifest that *this* request
read (`CacheIsTransparent`) is more, and holds while `StampsTell`; see observation c for what
happens otherwise. In `MCLoweringCache` all versions start as copies of one another, and
revisions make them differ.

### Clauses and candidates: `Clauses`, `Enumerate`, `ProgramSpace`, `Pipeline`, `MCPipeline`

Pure functions, so operators. `Clauses` has `CanonicalClause`, `Subsumes` and
`IsTypeUnsatisfiable`; `Enumerate` the sequence of candidates that the nested
generators of `enumerate.js` yield, with the symmetry breaking, the typing of
constants, the modes and the connectivity filter in the order of the code.
`ProgramSpace` defines the hypothesis space of a bias and knows nothing of the
generators. `Pipeline` composes `Search` with the real enumeration of each bias and the
learner's real operators, and judges the stream by what the search pulled from it. What a
program covers is what follows from it and a background, a set of facts: the model after
`Rounds` rounds of its clauses. That is the least model, since a round that adds no ground
head is followed by none that does; the proofs hold for any number of rounds, and so also for a search cut
off by a bound. A body with an input that is not bound when it is read proves nothing
(`Runs`). The properties are in `Pipeline`, the instance in `MCPipeline`.

### The interpreter: `Terms`, `Normalize`, `Resolve`, `MCResolve`

`Terms` is `unify.js`: `Walk`, `Unify` with the occurs check, `Apply`. The persistent
trie that holds a substitution is a function, because no binding is changed in place.
`Normalize` numbers the named variables of a clause. `Resolve` is `step()` and
`stepProof()`, which have one control flow: the suspended generators are a stack, a
frame is one call with its goals, substitution and the next alternative, and an action
is what happens between two of them: `YieldSolution`, `CallBackground`,
`BackgroundThrows`, `SkipClause`, `MissClause`, `EnterClause`, `Backtrack`, `Finish`.
`covers`, `firstProof` and the coverage of an example are consumers that pull once and
return. Unification, renaming and the background are parameters of `Resolve`, so that
the theorems do not depend on how they are computed; `MCResolve` gives them `Terms`.
Programs are authored with names and normalized; their meaning (`MCDerivable`,
`MCReplays`) is taken from the authored clauses, so an error of the numbering would show.

### Lowering: `Lowering`, `MCLowering`

The analysis (`Feasible`, modes, what is fresh at each goal, SQL's own conditions, C's
determinism check) and what the emitted source computes when it runs: nested loops
that bind names (JavaScript and Python), functions that keep one answer (C), and views
(SQL). Text, quoting and literals are left out. `MCLowering` extends `MCResolve`: the
interpreter runs each program to its last solution, and the answers are compared with
those of each target.

### Packed terms: `Packing`, `Structural`, `UnifyPacked`, `MCUnify`

`Packing` writes a term into a region of slots that may hold what an earlier batch
left, throws when it does not fit the layout, and reads it back. `Structural` is
`structural.js`: the layout it makes of the atoms it is given, the cells it unifies and
the fact patterns it enumerates. `UnifyPacked` is the loop of `unify_packed.js`, one
action per turn: a stack of pairs of refs, bindings per side, no occurs check. The Metal
kernels have the same loop with a stack of `MaxStack` pairs, and answer 0 when it is full
(`StackHolds`).

### Batches on the GPU: `BufferPool`, `BatchOps`, `MCBatchOps`

`BufferPool` is `pool.js` as operators on a record: bins per storage mode and bucket,
and `BucketSize`, whose doubling is that of 32-bit signed integers (`Width` bits), so that
it may never reach what is asked (`Never`). `BatchOps` is `unifyBatch`, `coverageVector`
and `constraintMask`, which have one control flow: choose a backend, wait for the imports
(`ChooseGpu`, `Import`), and then, on the one thread, take and pack a buffer for each side
(`Take`, `Pack`), take the mask's from the device (`TakeMask`), run the kernel, copy and
give back (`Finish`). Every step that may throw has its action: `TakeRefused`, `Pack`,
`TakeMask`, `NoKernel`; a request that cannot be rounded hangs (`Hang`). `Holder` is
other code with a pooled buffer in its hands, which the device may refuse it
(`BorrowRefused`), and `Flush` and `Drain` come in between. `dropped`, `uncounted` and
`refused` are history: what maintenance forgot or reset, and the bytes the pool counted for
buffers it did not get. What a kernel makes of two regions is the relation `Unifies`, one
for both backends; a kernel with a full stack is judged in `UnifyPacked` only.

### Proofs

`SearchProofs`, `JobServerProofs`, `RegistryProofs`, `ResolveProofs`, `BatchOpsProofs`,
`UnifyPackedProofs` and `PipelineProofs`; each extends the module it is about, and
`PipelineProofs` also `SearchProofs`. `Induction` has what they share: the least
counterexample, which stands for induction on numbers, and that functions defined by
recursion on numbers exist.

See section 6.

## 4. Runs

The configurations check every reachable state of the instances below.

| Run | What it shows | Instance |
|---|---|---|
| `search` | No solution is lost, the best is the earliest maximum, the counts add up, budgets end a search only when spent, results come in order, no consumer waits for more than a heartbeat of evaluations; each search is an anytime stream and ends | 9 candidates: five single clauses, one a renamed variant, and four pairs; two positives, one negative; every extension of two literals; targets of 100 % and 50 %, noise 0 and 1, three gates, bounds of 3 and of none, with and without the learner; throwing evaluations, a clock of 2, moded and ill-typed clauses; `Heartbeat` 3 |
| `search_partial` | Finding 1 | the same with a target of 50 % |
| `jobs` | Streams are exact, subscribers are the open streams, answers stay true, jobs are anytime streams, every request is answered and every stream ends | two clients, two readers, two scores, calls from within the process |
| `jobs_window` | Finding 2 | one client and one reader on the network |
| `cache` | "latest" has a manifest and nothing that was there before is newer; no implementation runs under a manifest of other semantics; an answer follows the stamps, whatever authors do about them (`AnswersFollowStamps`) | versions 2, 2.9 and 2.10 of a library, copies at first, whose files appear in any order; two semantics, two queries of which one throws, two requests, one revision that leaves a fresh stamp, an old one or none; symmetric in requests and semantics |
| `resolve` | The interpreter ends; ids of suspended calls are never reused; the bound holds; answers are sound and complete within it; traces prove them; the emitted code of all targets computes the same | 384 tasks: left, right, mutual and structural recursion over cyclic and forked facts, ground and open queries, generators, plain functions, moded and throwing background, bounds 1 to 3; and more than a thousand flat programs with all modes |
| `lowering_repeated`, `lowering_choice` | Findings 4 and 5 | the flat programs of each kind |
| `pipeline` | What a search without the learner evaluates before it reports the space exhausted is the whole space up to renaming, nothing else, nothing twice (`StreamIsTheSpace`), and the simplest first; keys merge exactly the variants; what the proof of `NoSolutionLost` assumes holds of the real keys, subsumption and types, and no ill-typed clause comes before a well-typed one (`PruningIsSound`); the search returns the first solution | 55 biases of up to 3 body atoms, 3 variables, 2 clauses, 2 heads, with modes, types, constants and recursion, each asked without the learner for what cannot be, and with it over one background when it has no input mode; with the learner also every binary relation over 3 constants for one clause of two `q` literals, over 2 constants with `p`, and two clauses with recursion |
| `pipeline_moded` | Finding 3 | one background, three literals, a moded `q` |
| `unify` | The unifier is in solved form and means what the equation means, packing loses nothing and throws only when a term does not fit, packed unification ends with the precise verdict, and its bindings say what the equation of the two terms says of ground values; a kernel with a full stack misses and never claims | some thousands of pairs of terms with shared and repeated variables, on the CPU in fresh and in a kernel in recycled regions of 8 slots, `MaxStack` 2; fact patterns against six lists of examples in the layouts made for them; three ground values |
| `gpu` | No buffer has two owners; every mask is exact; the pool's books balance, what throwing calls left behind and what the device refused being entries of their own (`BooksBalance`); every call ends whose sizes can be rounded | every pair of eleven batch operations with a third user of the pool; terms that do not fit, an empty batch, a metallib without a kernel and no Metal at all; `Width` 5, a term of 4 bytes, buckets from 4, a device of 24 |

Why these bounds are enough to be interesting. Two literals give each clause a
generalization and a specialization, and the four pairs make each store of the learner
fire and condemn a later candidate; three heartbeats fit into nine candidates. Two clients and two readers give every pair of turns of different requests
an interleaving, and two scores an improvement before and after a subscription. Two
requests and one revision allow an import, a change of both files under an old stamp, a
miss and a hit on what another version left in the cache, and
three versions one that a listing sees without one that appeared before it.
A cycle of three nodes is longer than the smallest bound and shorter than the largest
plus one, so bounds cut some derivations and not others. Two variables per side and a
term of depth two reach chains of bindings on both sides and a full region, and a stack
of two pairs is full for some of them and not for others. With 5 bits a bucket of 8 is the
largest, so two terms of 4 bytes are rounded and three are not; a device of 24 bytes
cannot hold fresh buffers for every user, so that recycling, a refusal and what another
batch left behind all happen.

In `pipeline` coverage is the least model; what the recursion bound does to coverage
is the subject of `resolve`, where completeness is stated relative to it. The moded
and throwing tasks of `resolve` claim soundness and the end of the search, and no
completeness. The runs that check no deadlock are those whose system stops: a search
that ended, requests that are answered, a finished interpreter.

## 5. Fairness

Liveness is checked under these, and no others.

- `Search`: weak fairness of `Loop` (a resumed generator runs to its next yield) and of
  `Pull` (the consumer keeps pulling: `synthesize` and `runJob` both drain it). The
  clock need not advance, and `Return` need not happen.
- `Resolve`: the same of `Step` and `Pull`.
- `JobServer`: per client, of the handler's continuations, the job and the timer: the
  event loop starves no microtask, a library load settles, a timer runs out. A search
  ends because scores are bounded here, which `Search!Terminates` and the candidate
  budget justify. Nobody has to post, to subscribe or to hang up.
- `UnifyPacked`: of `Next`, a loop that nothing suspends.
- `BatchOps`: per call, of its steps: imports settle, the event loop comes back to every
  call, and nothing suspends one that has the thread. Nobody has to give a buffer back.

## 6. Proofs

**`SearchProofs`**: for every family of problems, heartbeat and clock. The inductive
invariant is a conjunction of named parts.

- `TypeInv`: the types, and that the problem is one of the family.
- `Accounting` has two parts, each inductive with the types: tested and pruned
  candidates are those consumed, and the budget is tested before each one
  (`CountsAddUp`); a search that says its budget is spent is right (`SpentIsHonest`).
- `BestInv`: `best` is the earliest of the highest score among the evaluated candidates,
  and these are all before `next`. Without the second part a later candidate with the
  score of the best could come before it.
- `LosslessInv` needs to say why each entry of the store is there
  (`StoreJustified`): a key in `seen` belongs to a candidate that is no solution, a set
  in `tooGeneral` to one that covers too many negatives, a clause in `tooSpecific` to one
  that misses a positive. That a candidate pruned by such an entry is no solution then
  follows from `SoundPruning`: equal keys cover and lower the same, more clauses cover
  more negatives, subsuming clauses cover more, a solution with an ill-typed clause is
  never the only one, and a missed positive is fatal. These are hypotheses on the problem, because
  `Search` does not know what a clause is; `PipelineProofs` proves them of the real
  clauses. Where they do not hold (a partial target, moded bodies) the code does lose
  solutions: findings 1 and 3. `FirstSolutionIsFoundHolds` is the same invariant read
  at the end of a search, with no ill-typed clause before a well-typed one.
- `QuietInv` for `HeartbeatBound`: the evaluations since the last
  report are at most `tested % Heartbeat`, which a bound of `Heartbeat` alone does not
  preserve; an exception may add one.
- `OutInv` for `StreamIsOrdered`: no step's counters are ahead of the loop's, only a
  search that ended has yielded a terminal step, and no improvement reported beats the
  best. The property compares steps with each other; the next one to be yielded takes its
  numbers from the loop.
- `SearchImplementsStream`: initial states map to initial states and each step to
  `Improve`, `Finish`, `Abandon` or a stutter. It rests on `BestInv`: a new best is
  strictly better.

**`JobServerProofs`**: for any clients, readers and scores. `PostInv` relates the stage of
a request, the status of its job, the answer and the race with the window: a job enters
the map once, after its library was loading, and a race the job won was won by its end.
`TypeOK` rests on it, and `AnswersAgree` is part of it. `StreamInv` is `StreamsAreExact`
with `SubscribersAreOpen` and that a stream's job is a client: none is inductive alone,
since a job's event is sent to its set of subscribers and to nobody else.
`JobsAreStreamsHolds` maps each step to a step or a stutter of `AnytimeStream`, one job
at a time.

**`RegistryProofs`** begins with `LoweringCache`, for any libraries, requests and edits.
`LoadInv` adds to `LoadedIsConsistent` that files and requests are well formed: a module
once imported stays, so what a request loaded still matches the manifest it read, whatever
the authors do. `CacheInv` looks at the cache from both ends: each entry is the lowering for
a request that was served under its key (`EntriesAreServed`), and whoever was served finds
its answer there (`ServedHaveEntries`), since no entry is changed. Together they give
`AnswersFollowStampsHolds`, with no assumption on what authors stamp, and
`CacheIsTransparentHolds`: in every state in which equal stamps mean equal semantics
(`StampsTell`), the cache is invisible. Without `StampsTell` it is not: observation c.

Then the registry: that `compareVersions` orders versions strictly
(`NewerIsAStrictOrder`, for numbers of any length), which is what the sort of
`resolveVersion` needs. `LatestInv` for `LatestIsNewest`: what was published when the
request came is still to be probed or was found, and what was found is published, because
authors take nothing back. `RegistryImplementsCache` is the refinement of `LoweringCache`
by the whole path of a request, and carries the theorems of the cache over.

**`ResolveProofs`**, first part: for every program, query and bound, `IInv` says that each
id in a frame (goals and substitution) is below `fresh`, and that the counts a goal carries are
within the bound. Only with all frames in it is it inductive: backtracking resumes a
frame made long before, and `fresh` is never set back. It needs of the parameters that
unification and the background invent no id (`NoInventedIds`) and renaming shifts
(`RenameShifts`).

Its second part is what the interpreter answers, for every program, query and bound and
over any set of ground terms. A valuation gives every variable a ground term.

- `MeaningInv`, for `AnswersAreSound` and `TracesAreEvidence`, says of each suspended
  call what its end would prove: under any valuation that respects its substitution, the
  goals that are left imply the query, and a trace that proves them, put after the
  call's own trace, proves the query. Stated so, a step of resolution replaces the first
  goal and nothing has to be said about how the branch came about.
- `CompleteInv`, for `AnswersAreComplete`: an instance of the query that holds was
  answered, or some suspended call has an alternative *left* that leads to it. The clause
  that proves the goal under one valuation and the goal under another are brought together
  by `Merged`, a valuation that agrees with the call below `fresh` and with the clause from
  there on: this is where standardizing apart is needed, and why `CallInv` extends `IInv`.
- The hypotheses are of two kinds. Those on the parameters: values depend on the variables
  that occur, renaming keeps values, unifiers are sound and most general, the background
  is sound and, for tasks of `AnswersAll`, gives every solution. The `unify` run checks
  those about unification on `Terms` (`UnifierIsMostGeneral`, of which `SolvedForm` is a
  part) from the empty substitution, arguments after the first being unified under what
  those before them bound. And the defining equations of what the properties speak of:
  `Instances`, `Derivable` and `Replays` are constants of `Resolve`, since a recursive
  definition of them would put the module out of the prover's reach; `MCResolve` gives them
  recursive definitions over finite universes and the authored clauses, and the run
  `resolve` checks the very formulas that the theorems state.

**`BatchOpsProofs`**: for any requests, region size, width and pool. `PlacesInv` (that a
buffer is in one bin or in one pair of hands, that hands and stages agree, and that what a
call holds has the size of the bucket it is given back to) gives `NoBufferIsShared`; the
parts are inductive only together, for a buffer in a wrong bin is handed out too small. `ContentsInv` says what a
buffer holds from packing to the end of a call, across the turns of other calls, and gives
`MasksAreExact`. The assumptions are that a request is as many regions as it packs, and
that sizes are positive numbers.

`BooksBalance`, the last part, equates counters with sums over bins and hands, so
each step is an argument about sums: one summand moves, the others stay. The sum over a
finite set is a fold; its laws (`SumRemove`, `SumAdd`, `SumEqual`, `SumChange`) are proved by the
smallest set that breaks them, since a theorem of the library that takes an operator cannot
be used. That buckets are powers of two is an argument of the same kind, by the smallest
number of doublings (`DoublingSteps`). `AccountInv` says that the statistics of the pool
are the sums over its bins, that dropped buffers are in no bin and no hand, and that what
the pool asked of the device is the sum over all buffers known (binned, in the hands of
anyone who has not returned, or dropped) and what the device refused. It is an equation in
every state: a throw moves a buffer from the hands of the working to those of the failed
(`LeftBehind`), and a refusal enters `refused` in the step that throws.

**`UnifyPackedProofs`**: for any pair of well packed terms, of any width and depth, any
stack and any ground values. `UnifyInv` has three parts, inductive only together. The types:
every ref on the stack and in the bindings is a slot that holds a term, which packing
guarantees of what lies below a term (`WellPacked`). `Ranked`: the bound variables have
ranks, no higher than there are bindings, that rise along every chain. The loop binds only what ends a chain, so the new variable can be ranked
above all the others; without occurs check nothing else keeps `resolve` from walking in a
circle, and `WalksEndHolds` follows by counting.
`Faithful`: the ground values that solve the equation of the two terms are those that obey
the bindings and make the pairs on the stack equal. Each turn moves one pair from the
stack into the bindings, or replaces it by the pairs of its arguments.
`VerdictIsTheEquationHolds` is its case of an ended loop. The hypotheses, `TasksArePacked` and
`GroundAssumption`, are what `RoundTrip` and the run check.

**`PipelineProofs`**: for any family of biases, backgrounds and examples. What it needs of
a bias is that each predicate and each constant is declared once and that its bounds are numbers
(`BiasAssumption`); what it needs of a problem is that it says of its clauses what the
learner and the interpreter find (`ClausesAssumption`). TLC evaluates both on the run's
family.

- The sequences. A generator of the code is a flattening, a product or a choice of
  combinations; a lemma on each says what it yields, that it yields it once, and in which
  order. Through the five loops of `enumerateClauses` they give the set `Kept(b)` of
  the clauses that pass the filters: each is yielded, with its body in some order, once,
  and none before a simpler one. `EnumeratorIsSoundHolds` and
  `SimplestFirstHolds` follow.
- The space, for `StreamIsTheSpaceHolds`. The filters are fixpoints over rounds, the space
  speaks of islands and of orders of the body. What is reached in as many rounds
  as there are atoms can be put in an order in which each atom finds what it needs, and
  an order is caught up with by the rounds (`FillsOrdered`, `OrderFills`): one argument for
  `connected` and for `wellModedFeasible`. So what is kept is in the space
  (`KeptInSpace`). The converse renames: a clause of the space uses any of the pool's
  variables, a clause of the stream the first ones, and every filter is indifferent to
  a renaming of body variables (`SpaceIsMet`). That the search pulled all of it before it
  said so is `LosslessInv` of `SearchProofs`.
- The keys, for `KeysTellVariantsHolds`. Two clauses of one form have a renaming that takes
  the body of one to the body of the other (`SameForm`), and such a renaming carries
  the renderings of one to those of the other, so that whatever is chosen from the set of
  them (the least, in the code) is the same for both (`AlikeForms`).
- Coverage, for `PruningIsSoundHolds`. Each solution of a clause's body is one of the body of a
  clause that subsumes it, and clauses of one form subsume each other; so what a
  program proves, a more general one proves in the same round (`MoreIsCovered`). The theorem has
  the hypothesis `PlainQuestions`: whoever learns asks for every positive, over a
  background without input modes, and the target gate judges programs of the same keys
  alike. Findings 1 and 3 are what happens otherwise. The run's problems satisfy it
  (`FamilyAssumption`).
- `LearningLosesNothing` puts this into `FirstSolutionIsFoundHolds`: nothing is assumed of
  coverage, keys or subsumption any more.

**Model-checked only.** Every liveness property: the prover has no `ENABLED`.
`UnifierIsMostGeneral`, `RoundTrip` and `VerdictIsExact` of `unify`: `Terms`, `Packing` and
`Structural` recurse over terms, and so do the definitions they are compared with. `GeneratorsAgree`
and `FunctionsAndViewsAgree` of `resolve`: so does `Lowering`, over goals. Recursive
operators are out of the prover's reach; an argument by the least counterexample, as
`Induction` has it, serves functions over numbers and finite sets. What
`ResolveProofs` and `UnifyPackedProofs` assume of these modules is what those runs check.

## 7. Findings

Disagreements between the code and its own words, each with a run that exhibits it.

1. `search_partial`: with `target_coverage` below 1, one missed positive condemns all
   specializations of a clause (`src/engine/constrain.js:216`), among them solutions;
   the header (`:14`) promises that pruned candidates are none.
2. `jobs_window`: a job keeps the thread in microtasks, so the timer of `respond-sync`
   fires after the search and not after its window (`src/engine/server.js:168`,
   against `docs/server.md:44`).
3. `pipeline_moded`: with input modes the redundant check takes a well-ordered body for
   the ill-ordered one it saw before (`src/engine/constrain.js:198`, against `:23`).
4. `lowering_repeated`: a new variable at two outputs of one goal is feasible to the
   analysis and breaks the emitted JavaScript and Python
   (`src/core/lowering/javascript.js:63`, against `:2`).
5. `lowering_choice`: C's determinism check looks at primitives only; a function that
   calls a predicate of two clauses keeps its first answer
   (`src/core/lowering/c.js:82`, against `:7`).

Seen while modelling and not made a run:

- a. A repeated input in a head, `p(X, X)` with both in: JavaScript and C declare a
  parameter twice, Python keeps the last. The enumerator makes no such head; the runs
  leave it out (`RepeatsInput`).
- b. The target gate of `synthesize.js` lowers without a harness, so what depends on
  the harness (C's determinism) is decided only at the final lowering.
- c. The key of the cache holds the stamp that the manifest happens to carry, or null
  (`src/engine/lowering-cache.js:27`), and not "the harness's semantic hash" (`:7`): the
  schema lets manifests be without one, and nothing between `load` and the cache looks at
  it. As `CacheIsTransparent` the wording fails in the instance of `cache`: of two versions
  without stamps, the second is answered with the source of the first.
- d. Packed unification does not end on some pairs that the occurs check would reject, such as
  `p(Y, g(f(f(Y)), Y))` against `p(W, g(W, W))` (`src/engine/ops/unify_packed.js:37`), although
  "the depth/slot bounds the packing already enforces keep it total" (`:4`): they bound
  the terms, not what their bindings lead to. Examples are ground in this version
  (`docs/roadmap.md:41`), and a linear example never needs the check; `unify` therefore takes
  linear examples and those that unify.
- e. The loop over heads is outside that over variable counts
  (`src/engine/enumerate.js:207`), so with two heads the simplest-first order holds per
  head; and a moded body is yielded in the enumerator's order, not in the order the
  analysis finds for it. `SimplestFirst` is stated for one head.
- f. The layout that `structuralCoverage` makes for itself has as many slots as the depth
  times the arity of the atoms (`src/engine/structural.js:32`): an atom with two compound
  arguments, or with a wider term inside, does not fit it and the call throws.
  `RoundTrip` says exactly when.
- g. A batch operation that throws after it took a buffer keeps it
  (`src/engine/ops/coverage.js:35`), though "Every buffer must stay pooled for reuse"
  (`src/engine/gpu/pool.js:27`), and the pool has counted a buffer that the device then
  refuses (`:41`). `BooksBalance` says that nothing else is ever missing.
- h. A size above 2^30 bytes is never rounded (`src/engine/gpu/pool.js:15`): `s <<= 1`
  turns negative, then 0. `EveryCallEnds` leaves such requests out.
- i. A version component that is no number compares as equal to everything
  (`src/engine/registry.js:26`), and "latest" then depends on the order of the directory;
  versions are numbers here.
- j. An empty batch is dispatched as one thread (`src/engine/gpu/dispatch.js:39`), which
  divides by a number of examples of 0 (`src/native/shaders/unify_batch.metal:38`). Its
  byte lies beyond the mask that is copied, so no result depends on it.
- k. `docs/shaders.md:26` calls a problem beyond the compile-time bounds no silent failure,
  and the kernel's header asks for agreement with the CPU on every input; with a full
  stack the kernel answers 0 (`src/native/shaders/unify_batch.metal:108`). `VerdictIsExact`
  says of a kernel only that it never claims too much. The kernel's 32 variables are
  beyond the models, whose terms have fewer.
- l. The heartbeat counts evaluated candidates, where the comment promises one "every HEARTBEAT
  candidates" (`src/engine/synthesize.js:107`): a run of pruned ones (`:121`) is silent however
  long it is. `HeartbeatBound` is stated of evaluations.

## 8. Not modelled

- **Schema validation** (`core/schema.js`): stateless checks of shape; its outcome is the
  `PostInvalid` of `JobServer`, and every input of the models is a valid one.
- **The rest of the registry**: an HTTP root, which cannot be listed, and the endpoints
  that only read files. **Manifest validation** (`structuralErrors`) is a verdict like the
  schema's: the manifests of the models are valid.
- **Conformance suite** (`core/conformance.js`): a report on an implementation that nothing
  on the server's path asks for; `solve`, on which it rests, is in `Resolve`.
- **Some throws.** A lowering that throws inside the target gate
  (`engine/synthesize.js:132`) would end the search as a throwing evaluation does; and a term
  of an unknown type or a variable without an id makes packing throw
  (`engine/pack.js:46`, `:63`). Programs come from the enumerator and terms from the
  normalizer, which make no such input.
- **GPU profiler** (`engine/gpu/profile.js`): timers and averages that nothing else reads.
- **Device information, shader compilation, command encoding** (`engine/gpu/device.js`,
  `native/`): foreign calls without state of their own here; the scheduling of kernels is
  the driver's, and a dispatch is waited for.
- **Denormalization, literals, quoting, metadata and the target runtimes** of lowering:
  text.
- **LLM bias proposer** (`engine/bias.js`): prompt text and the parsing of an answer.
- **Applications, benchmarks**: consumers of the above.

## 9. Running

`tlc -config <cfg> <module>` for each row of section 4 (`PROJECT.json` names the pairs);
`jobs`, `cache`, `pipeline` and `unify` take minutes, the others less. `tlapm` on each of the
modules of section 3's last part checks the proofs: `PipelineProofs` takes five minutes, the
others two at most.
