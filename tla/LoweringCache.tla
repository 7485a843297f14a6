--------------------------- MODULE LoweringCache ---------------------------
(***************************************************************************)
(* Loading a curated library and lowering against it, over the life of one *)
(* server: src/engine/registry.js (load), src/core/harness.js (the checks) *)
(* and src/engine/lowering-cache.js.  Each request of src/engine/server.js *)
(* reads the manifest, imports the implementation, searches, and lowers    *)
(* its program with the manifest it read; authors may edit the library in  *)
(* between.                                                                *)
(*                                                                         *)
(* A manifest is its primitives' semantics and the stamp it carries.       *)
(* The semantic hash has no collisions, so a hash is the semantics itself. *)
(***************************************************************************)
EXTENDS Integers, FiniteSets

CONSTANTS
  Library,     \* library directories, one per (name, version)
  Semantics,   \* what the primitives of a manifest may declare
  Query,       \* programs with their lowering options
  Throws,      \* the queries lower() throws on
  Request,     \* requests the server handles
  Stamping,    \* what authors do about semantic_hash: "fresh", "none", "old"
  NoStamp,     \* no semantic_hash in the manifest
  NotImported, \* a module this process has not imported
  MaxEdits     \* bound on the authors' edits

ASSUME StampAssumption == NoStamp \notin Semantics
ASSUME ThrowsAssumption == Throws \subseteq Query
ASSUME NotImportedAssumption == NotImported \notin Semantics

VARIABLES
  disk,       \* the files of each library: manifest and implementation
  imported,   \* the module cache of import(): the hash each module records
  request,    \* each request: its stage, library, query and manifest
  store,      \* the cache's Map
  stats,      \* its hits and misses
  edits       \* how often authors edited

vars == <<disk, imported, request, store, stats, edits>>

Manifest == [semantics : Semantics, stamp : Semantics \cup {NoStamp}]

(* lower(program, manifest, options): the primitives' modes shape the code.*)
Lower(q, man) == <<q, man.semantics>>

---------------------------------------------------------------------------

(* What an author publishes: a manifest and its implementation.  withHash  *)
(* stamps the manifest; the schema lets it have no stamp, or that of an    *)
(* older text, and nothing on the server's path checks it.                 *)
Stamp(kind, s, old) ==
  IF kind = "fresh" THEN s ELSE IF kind = "none" THEN NoStamp ELSE old

Publication(s, kind, old) ==
  [manifest |-> [semantics |-> s, stamp |-> Stamp(kind, s, old)], implementation |-> s]

Init ==
  /\ disk \in [Library -> {Publication(s, kind, old) :
                             s \in Semantics, kind \in Stamping, old \in Semantics}]
  /\ imported = [l \in Library |-> NotImported]
  /\ request = [r \in Request |-> [stage |-> "idle"]]
  /\ store = << >>
  /\ stats = [hits |-> 0, misses |-> 0]
  /\ edits = 0

(* An author edits a library.                                              *)
Edit(l, s, kind) ==
  /\ edits < MaxEdits
  /\ disk' = [disk EXCEPT ![l] = Publication(s, kind, @.manifest.stamp)]
  /\ edits' = edits + 1
  /\ UNCHANGED <<imported, request, store, stats>>

(* registry.load reads manifest.json and validates its structure.          *)
ReadManifest(r, l, q) ==
  /\ request[r].stage = "idle"
  /\ request' = [request EXCEPT ![r] =
       [stage |-> "read", library |-> l, query |-> q, manifest |-> disk[l].manifest]]
  /\ UNCHANGED <<disk, imported, store, stats, edits>>

(* import() evaluates a module once per process; loadHarness then compares *)
(* the hash it records with the hash computed from the manifest read.      *)
Imported(l) == IF imported[l] = NotImported THEN disk[l].implementation ELSE imported[l]

(* Faulty variant: the recorded hash is not compared.                      *)
MatchesAnything(l, man) == TRUE

Matches(l, man) == Imported(l) = man.semantics

Import(r) ==
  /\ request[r].stage = "read"
  /\ LET l == request[r].library IN
       /\ imported' = [imported EXCEPT ![l] = Imported(l)]
       /\ request' = [request EXCEPT ![r].stage =
            IF Matches(l, request[r].manifest) THEN "loaded" ELSE "rejected"]
  /\ UNCHANGED <<disk, store, stats, edits>>

(* Faulty variant: the key of a program whatever its harness.              *)
KeyWithoutHarness(q, man) == <<NoStamp, q>>

(* The key: LOWERING_VERSION is fixed while the process lives.             *)
Key(q, man) == <<man.stamp, q>>

Answer(r, source) ==
  request' = [request EXCEPT ![r] =
    [stage |-> "served", query |-> @.query, manifest |-> @.manifest, source |-> source]]

Hit(r) ==
  /\ request[r].stage = "loaded"
  /\ LET k == Key(request[r].query, request[r].manifest) IN
       /\ k \in DOMAIN store
       /\ Answer(r, store[k])
  /\ stats' = [stats EXCEPT !.hits = @ + 1]
  /\ UNCHANGED <<disk, imported, store, edits>>

Misses(r) ==
  /\ request[r].stage = "loaded"
  /\ Key(request[r].query, request[r].manifest) \notin DOMAIN store
  /\ stats' = [stats EXCEPT !.misses = @ + 1]
  /\ UNCHANGED <<disk, imported, edits>>

Miss(r) ==
  /\ Misses(r)
  /\ LET q == request[r].query
         man == request[r].manifest
         k == Key(q, man) IN
       /\ q \notin Throws
       /\ store' = [x \in DOMAIN store \cup {k} |-> IF x = k THEN Lower(q, man) ELSE store[x]]
       /\ Answer(r, Lower(q, man))

(* lower throws: nothing is stored, the job fails.                         *)
MissThrows(r) ==
  /\ Misses(r)
  /\ request[r].query \in Throws
  /\ request' = [request EXCEPT ![r].stage = "failed"]
  /\ UNCHANGED store

Serve(r) ==
  \/ \E l \in Library, q \in Query : ReadManifest(r, l, q)
  \/ Import(r) \/ Hit(r) \/ Miss(r) \/ MissThrows(r)

Next ==
  \/ \E l \in Library, s \in Semantics, kind \in Stamping : Edit(l, s, kind)
  \/ \E r \in Request : Serve(r)

Spec == Init /\ [][Next]_vars

---------------------------------------------------------------------------
(* Properties.                                                             *)

(* No request runs an implementation built against other semantics than    *)
(* those of the manifest it lowers with, whatever was edited between the   *)
(* reading of the manifest and the import.                                 *)
LoadedIsConsistent ==
  \A r \in Request : request[r].stage = "loaded" =>
    imported[request[r].library] = request[r].manifest.semantics

Served == {r \in Request : request[r].stage = "served"}

Alike(r, x) ==
  /\ request[x].query = request[r].query
  /\ request[x].manifest.stamp = request[r].manifest.stamp

(* What the cache promises whatever authors stamp: an answer is the        *)
(* lowering of the same query for a manifest of the same stamp that some   *)
(* request read, and requests alike get the same source.                   *)
AnswersFollowStamps ==
  \A r \in Served :
    /\ \E x \in Served : Alike(r, x) /\ request[r].source = Lower(request[x].query, request[x].manifest)
    /\ \A x \in Served : Alike(r, x) => request[x].source = request[r].source

(* The cache is invisible: every answer is what lower would return now for *)
(* that program and the manifest the request read ("identical inputs       *)
(* always produce identical output", lowering-cache.js).                   *)
CacheIsTransparent ==
  \A r \in Served : request[r].source = Lower(request[r].query, request[r].manifest)

(* Among the manifests that were served, a stamp tells the semantics.      *)
StampsTell ==
  \A r, x \in Served : request[r].manifest.stamp = request[x].manifest.stamp =>
    request[r].manifest.semantics = request[x].manifest.semantics

=============================================================================
