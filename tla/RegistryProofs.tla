--------------------------- MODULE RegistryProofs ---------------------------
(***************************************************************************)
(* Theorems about LoweringCache, for any libraries, requests and edits, and*)
(* about Registry, for any number of versions.  The registry only ever     *)
(* takes the steps of LoweringCache, so what is proved of the cache holds  *)
(* behind it; and "latest" means the latest.                               *)
(***************************************************************************)
EXTENDS Registry, TLAPS

---------------------------------------------------------------------------
(* The cache.                                                              *)

(* What the disk, the cache of modules and a request under way hold.       *)
FilesOK ==
  disk \in [Library -> [manifest : Manifest, implementation : Semantics]]

RequestsOK ==
  /\ DOMAIN request = Request
  /\ \A r \in Request :
       /\ request[r].stage \in {"read", "loaded"} => request[r].library \in Library
       /\ request[r].stage # "idle" => request[r].manifest \in Manifest

LoadInv ==
  /\ FilesOK /\ RequestsOK
  /\ DOMAIN imported = Library
  /\ LoadedIsConsistent

LEMMA StepFilesOK == FilesOK /\ [Next]_vars => FilesOK'
<1> SUFFICES ASSUME FilesOK, [Next]_vars PROVE FilesOK'
  OBVIOUS
<1>1. CASE UNCHANGED disk
  BY <1>1 DEF FilesOK
<1>2. ASSUME NEW l \in Library, NEW s \in Semantics, NEW kind \in Stamping, Edit(l, s, kind)
      PROVE  FilesOK'
  <2>1. disk[l].manifest \in Manifest
    BY DEF FilesOK
  <2>2. Stamp(kind, s, disk[l].manifest.stamp) \in Semantics \cup {NoStamp}
    BY <2>1 DEF Stamp, Manifest
  <2>3. QED
    BY <1>2, <2>2 DEF FilesOK, Edit, Publication, Manifest
<1>3. QED
  BY <1>1, <1>2
  DEF Next, Serve, ReadManifest, Import, Hit, Miss, MissThrows, Misses, vars

LEMMA StepRequestsOK == FilesOK /\ RequestsOK /\ [Next]_vars => RequestsOK'
<1> SUFFICES ASSUME FilesOK, RequestsOK, [Next]_vars PROVE RequestsOK'
  OBVIOUS
<1>1. CASE UNCHANGED request
  BY <1>1 DEF RequestsOK
<1>2. ASSUME NEW r \in Request, NEW l \in Library, NEW q \in Query, ReadManifest(r, l, q)
      PROVE  RequestsOK'
  <2>1. disk[l].manifest \in Manifest
    BY DEF FilesOK
  <2>2. QED
    BY <1>2, <2>1 DEF RequestsOK, ReadManifest
<1>3. ASSUME NEW r \in Request, Import(r) PROVE RequestsOK'
  BY <1>3 DEF RequestsOK, Import
<1>4. ASSUME NEW r \in Request, NEW src, request[r].stage = "loaded", Answer(r, src)
      PROVE  RequestsOK'
  BY <1>4 DEF RequestsOK, Answer
<1>5. ASSUME NEW r \in Request, Hit(r) \/ Miss(r) PROVE RequestsOK'
  BY <1>4, <1>5 DEF Hit, Miss, Misses
<1>6. ASSUME NEW r \in Request, MissThrows(r) PROVE RequestsOK'
  BY <1>6 DEF RequestsOK, MissThrows, Misses
<1>7. QED
  BY <1>1, <1>2, <1>3, <1>5, <1>6 DEF Next, Serve, Edit, vars

LEMMA StepLoadInv == LoadInv /\ [Next]_vars => LoadInv'
<1> SUFFICES ASSUME LoadInv, [Next]_vars PROVE LoadInv'
  OBVIOUS
<1>0. FilesOK' /\ RequestsOK'
  BY StepFilesOK, StepRequestsOK DEF LoadInv
<1> SUFFICES (DOMAIN imported = Library)' /\ LoadedIsConsistent'
  BY <1>0 DEF LoadInv
<1>1. CASE UNCHANGED <<request, imported>>
  BY <1>1 DEF LoadInv, LoadedIsConsistent
<1>2. ASSUME NEW r \in Request, NEW l \in Library, NEW q \in Query, ReadManifest(r, l, q)
      PROVE  (DOMAIN imported = Library)' /\ LoadedIsConsistent'
  BY <1>2 DEF LoadInv, LoadedIsConsistent, RequestsOK, ReadManifest
<1>3. ASSUME NEW r \in Request, Import(r)
      PROVE  (DOMAIN imported = Library)' /\ LoadedIsConsistent'
  <2> DEFINE l == request[r].library
  <2>1. /\ l \in Library /\ request[r].stage = "read"
        /\ imported' = [imported EXCEPT ![l] = Imported(l)]
        /\ request' = [request EXCEPT ![r].stage =
             IF Matches(l, request[r].manifest) THEN "loaded" ELSE "rejected"]
    BY <1>3 DEF Import, LoadInv, RequestsOK
  <2>2. ASSUME NEW x \in Request, request'[x].stage = "loaded"
        PROVE  imported'[request'[x].library] = request'[x].manifest.semantics
    <3>1. CASE x = r
      <4>1. Matches(l, request[r].manifest) /\ request'[x].library = l
            /\ request'[x].manifest = request[r].manifest
        BY <2>1, <2>2, <3>1 DEF LoadInv, RequestsOK
      <4>2. imported'[l] = Imported(l)
        BY <2>1 DEF LoadInv
      <4>3. QED
        BY <4>1, <4>2 DEF Matches
    <3>2. CASE x # r
      <4>1. request'[x] = request[x] /\ request[x].library \in Library
            /\ imported[request[x].library] = request[x].manifest.semantics
        BY <2>1, <2>2, <3>2 DEF LoadInv, RequestsOK, LoadedIsConsistent
      <4>2. CASE request[x].library = l
        <5>1. request[x].manifest.semantics \in Semantics
          BY <2>2, <4>1 DEF LoadInv, RequestsOK, Manifest
        <5>2. imported[l] # NotImported
          BY <4>1, <4>2, <5>1, NotImportedAssumption
        <5>3. QED
          BY <2>1, <4>1, <4>2, <5>2 DEF LoadInv, Imported
      <4>3. CASE request[x].library # l
        BY <2>1, <4>1, <4>3 DEF LoadInv
      <4>4. QED
        BY <4>2, <4>3
    <3>3. QED
      BY <3>1, <3>2
  <2>3. QED
    BY <2>1, <2>2 DEF LoadInv, LoadedIsConsistent
<1>4. ASSUME NEW r \in Request, Hit(r) \/ Miss(r) \/ MissThrows(r)
      PROVE  (DOMAIN imported = Library)' /\ LoadedIsConsistent'
  <2>1. /\ imported' = imported
        /\ \A x \in Request : x # r => request'[x] = request[x]
        /\ request'[r].stage # "loaded"
    <3>1. CASE Hit(r)
      BY <3>1 DEF LoadInv, RequestsOK, Hit, Answer
    <3>2. CASE Miss(r)
      BY <3>2 DEF LoadInv, RequestsOK, Miss, Misses, Answer
    <3>3. CASE MissThrows(r)
      BY <3>3 DEF LoadInv, RequestsOK, MissThrows, Misses
    <3>4. QED
      BY <1>4, <3>1, <3>2, <3>3
  <2>2. QED
    BY <2>1 DEF LoadInv, LoadedIsConsistent
<1>5. QED
  BY <1>1, <1>2, <1>3, <1>4 DEF Next, Serve, Edit, vars

(* A request lowers with the manifest its implementation was built against.*)
THEOREM LoadedIsConsistentHolds == Spec => []LoadedIsConsistent
<1>1. Init => LoadInv
  BY DEF Init, LoadInv, FilesOK, Publication, Stamp, Manifest, RequestsOK, LoadedIsConsistent
<1>2. LoadInv /\ [Next]_vars => LoadInv'
  BY StepLoadInv
<1>3. LoadInv => LoadedIsConsistent
  BY DEF LoadInv
<1>4. QED
  BY <1>1, <1>2, <1>3, PTL DEF Spec

---------------------------------------------------------------------------
(* What the cache answers, whatever authors stamp.  Each entry is the      *)
(* lowering for a request that was served under that key, and whoever was  *)
(* served has its entry in the store, which changes no entry.              *)

KeyOf(r) == Key(request[r].query, request[r].manifest)

LoweredFor(r) == Lower(request[r].query, request[r].manifest)

EntriesAreServed ==
  \A k \in DOMAIN store : \E r \in Served : KeyOf(r) = k /\ store[k] = LoweredFor(r)

ServedHaveEntries ==
  \A r \in Served : KeyOf(r) \in DOMAIN store /\ request[r].source = store[KeyOf(r)]

CacheInv == RequestsOK /\ EntriesAreServed /\ ServedHaveEntries

LEMMA AlikeIsKey ==
  ASSUME NEW r, NEW x
  PROVE  Alike(r, x) <=> KeyOf(x) = KeyOf(r)
  BY DEF Alike, KeyOf, Key

(* A step that serves nobody leaves the invariant alone.                   *)
LEMMA NobodyIsServed ==
  ASSUME CacheInv, store' = store, NEW r \in Request, request[r].stage # "served",
         request'[r].stage # "served",
         \A x \in Request : x # r => request'[x] = request[x]
  PROVE  EntriesAreServed' /\ ServedHaveEntries'
<1>1. Served' = Served /\ r \notin Served
  BY DEF Served
<1>2. \A x \in Served : /\ request'[x] = request[x]
                       /\ KeyOf(x)' = KeyOf(x) /\ LoweredFor(x)' = LoweredFor(x)
  BY <1>1 DEF Served, KeyOf, LoweredFor
<1>3. QED
  BY <1>1, <1>2 DEF CacheInv, EntriesAreServed, ServedHaveEntries

(* A request is answered with the entry of its key, an old one or the one  *)
(* that its own lowering makes.                                            *)
LEMMA SomebodyIsServed ==
  ASSUME CacheInv, NEW r \in Request, request[r].stage = "loaded", NEW source,
         Answer(r, source),
         KeyOf(r) \in DOMAIN store',
         DOMAIN store' = DOMAIN store \cup {KeyOf(r)},
         \A k \in DOMAIN store : store'[k] = store[k],
         source = store'[KeyOf(r)],
         KeyOf(r) \notin DOMAIN store => source = LoweredFor(r)
  PROVE  EntriesAreServed' /\ ServedHaveEntries'
<1>1. /\ request'[r] = [stage |-> "served", query |-> request[r].query,
                        manifest |-> request[r].manifest, source |-> source]
      /\ \A x \in Request : x # r => request'[x] = request[x]
  BY DEF Answer, CacheInv, RequestsOK
<1>2. Served' = Served \cup {r} /\ r \notin Served
  BY <1>1 DEF Served
<1>3. KeyOf(r)' = KeyOf(r) /\ LoweredFor(r)' = LoweredFor(r) /\ request'[r].source = source
  BY <1>1 DEF KeyOf, LoweredFor
<1>4. \A x \in Served : /\ request'[x] = request[x]
                       /\ KeyOf(x)' = KeyOf(x) /\ LoweredFor(x)' = LoweredFor(x)
  BY <1>1, <1>2 DEF Served, KeyOf, LoweredFor
<1>5. EntriesAreServed'
  <2> SUFFICES ASSUME NEW k \in DOMAIN store'
               PROVE  \E x \in Served' : KeyOf(x)' = k /\ store'[k] = LoweredFor(x)'
    BY DEF EntriesAreServed
  <2>1. CASE k \in DOMAIN store
    <3>1. PICK x \in Served : KeyOf(x) = k /\ store[k] = LoweredFor(x)
      BY <2>1 DEF CacheInv, EntriesAreServed
    <3>2. QED
      BY <1>2, <1>4, <2>1, <3>1
  <2>2. CASE k \notin DOMAIN store
    <3>1. k = KeyOf(r) /\ store'[k] = LoweredFor(r)
      BY <2>2
    <3>2. QED
      BY <1>2, <1>3, <3>1
  <2>3. QED
    BY <2>1, <2>2
<1>6. ServedHaveEntries'
  <2> SUFFICES ASSUME NEW x \in Served'
               PROVE  KeyOf(x)' \in DOMAIN store' /\ request'[x].source = store'[KeyOf(x)']
    BY DEF ServedHaveEntries
  <2>1. CASE x = r
    BY <1>3, <2>1
  <2>2. CASE x \in Served
    BY <1>4, <2>2 DEF CacheInv, ServedHaveEntries
  <2>3. QED
    BY <1>2, <2>1, <2>2
<1>7. QED
  BY <1>5, <1>6

LEMMA StepCacheInv == FilesOK /\ CacheInv /\ [Next]_vars => CacheInv'
<1> SUFFICES ASSUME FilesOK, CacheInv, [Next]_vars PROVE CacheInv'
  OBVIOUS
<1>0. RequestsOK'
  BY StepRequestsOK DEF CacheInv
<1> SUFFICES EntriesAreServed' /\ ServedHaveEntries'
  BY <1>0 DEF CacheInv
<1>1. CASE UNCHANGED <<store, request>>
  BY <1>1 DEF CacheInv, EntriesAreServed, ServedHaveEntries, Served, KeyOf, LoweredFor
<1>2. ASSUME NEW r \in Request, NEW l \in Library, NEW q \in Query, ReadManifest(r, l, q)
      PROVE  EntriesAreServed' /\ ServedHaveEntries'
  <2>1. /\ store' = store /\ request[r].stage = "idle" /\ request'[r].stage = "read"
        /\ \A x \in Request : x # r => request'[x] = request[x]
    BY <1>2 DEF ReadManifest, CacheInv, RequestsOK
  <2>2. QED
    BY <2>1, NobodyIsServed
<1>3. ASSUME NEW r \in Request, Import(r) PROVE EntriesAreServed' /\ ServedHaveEntries'
  <2>1. /\ store' = store /\ request[r].stage = "read" /\ request'[r].stage # "served"
        /\ \A x \in Request : x # r => request'[x] = request[x]
    BY <1>3 DEF Import, CacheInv, RequestsOK
  <2>2. QED
    BY <2>1, NobodyIsServed
<1>4. ASSUME NEW r \in Request, MissThrows(r) PROVE EntriesAreServed' /\ ServedHaveEntries'
  <2>1. /\ store' = store /\ request[r].stage = "loaded" /\ request'[r].stage # "served"
        /\ \A x \in Request : x # r => request'[x] = request[x]
    BY <1>4 DEF MissThrows, Misses, CacheInv, RequestsOK
  <2>2. QED
    BY <2>1, NobodyIsServed
<1>5. ASSUME NEW r \in Request, Hit(r) PROVE EntriesAreServed' /\ ServedHaveEntries'
  <2>1. /\ request[r].stage = "loaded" /\ KeyOf(r) \in DOMAIN store /\ store' = store
        /\ Answer(r, store[KeyOf(r)])
    BY <1>5 DEF Hit, KeyOf
  <2>2. QED
    BY <2>1, SomebodyIsServed
<1>6. ASSUME NEW r \in Request, Miss(r) PROVE EntriesAreServed' /\ ServedHaveEntries'
  <2>1. /\ request[r].stage = "loaded" /\ KeyOf(r) \notin DOMAIN store
        /\ store' = [x \in DOMAIN store \cup {KeyOf(r)} |->
                       IF x = KeyOf(r) THEN LoweredFor(r) ELSE store[x]]
        /\ Answer(r, LoweredFor(r))
    BY <1>6 DEF Miss, Misses, KeyOf, LoweredFor
  <2>2. /\ DOMAIN store' = DOMAIN store \cup {KeyOf(r)}
        /\ store'[KeyOf(r)] = LoweredFor(r)
        /\ \A k \in DOMAIN store : store'[k] = store[k]
    BY <2>1
  <2>3. QED
    BY <2>1, <2>2, SomebodyIsServed
<1>7. QED
  BY <1>1, <1>2, <1>3, <1>4, <1>5, <1>6 DEF Next, Serve, Edit, vars

LEMMA CacheInvHolds == Spec => [](FilesOK /\ CacheInv)
<1>1. Init => FilesOK /\ CacheInv
  BY DEF Init, CacheInv, FilesOK, Publication, Stamp, Manifest, RequestsOK,
         EntriesAreServed, ServedHaveEntries, Served
<1>2. FilesOK /\ CacheInv /\ [Next]_vars => (FilesOK /\ CacheInv)'
  BY StepFilesOK, StepCacheInv DEF CacheInv
<1>3. QED
  BY <1>1, <1>2, PTL DEF Spec

(* Whatever authors stamp, an answer is the lowering of the same query for *)
(* a manifest of the same stamp, and requests alike get the same source.   *)
THEOREM AnswersFollowStampsHolds == Spec => []AnswersFollowStamps
<1>1. CacheInv => AnswersFollowStamps
  <2> SUFFICES ASSUME CacheInv, NEW r \in Served
               PROVE  /\ \E x \in Served : Alike(r, x) /\ request[r].source = LoweredFor(x)
                      /\ \A x \in Served : Alike(r, x) => request[x].source = request[r].source
    BY DEF AnswersFollowStamps, LoweredFor
  <2>1. KeyOf(r) \in DOMAIN store /\ request[r].source = store[KeyOf(r)]
    BY DEF CacheInv, ServedHaveEntries
  <2>2. PICK x \in Served : KeyOf(x) = KeyOf(r) /\ store[KeyOf(r)] = LoweredFor(x)
    BY <2>1 DEF CacheInv, EntriesAreServed
  <2>3. \A y \in Served : KeyOf(y) = KeyOf(r) => request[y].source = request[r].source
    BY <2>1 DEF CacheInv, ServedHaveEntries
  <2>4. QED
    BY <2>1, <2>2, <2>3, AlikeIsKey
<1>2. QED
  BY <1>1, CacheInvHolds, PTL

(* So the cache is invisible as long as the stamps that were served tell   *)
(* the semantics, and only an old or missing stamp can show it.            *)
THEOREM CacheIsTransparentHolds == Spec => [](StampsTell => CacheIsTransparent)
<1>1. AnswersFollowStamps /\ StampsTell => CacheIsTransparent
  <2> SUFFICES ASSUME AnswersFollowStamps, StampsTell, NEW r \in Served
               PROVE  request[r].source = Lower(request[r].query, request[r].manifest)
    BY DEF CacheIsTransparent
  <2>1. PICK x \in Served :
          Alike(r, x) /\ request[r].source = Lower(request[x].query, request[x].manifest)
    BY DEF AnswersFollowStamps
  <2>2. request[x].query = request[r].query
        /\ request[x].manifest.semantics = request[r].manifest.semantics
    BY <2>1 DEF Alike, StampsTell
  <2>3. QED
    BY <2>1, <2>2 DEF Lower
<1>2. QED
  BY <1>1, AnswersFollowStampsHolds, PTL

---------------------------------------------------------------------------
(* The order of versions.                                                  *)

LEMMA ComponentType ==
  ASSUME NEW v \in Library, NEW i
  PROVE  Component(v, i) \in Nat /\ Len(v) \in Nat /\ DOMAIN v = 1 .. Len(v)
<1>1. v \in Seq(Nat)
  BY VersionAssumption
<1>2. QED
  BY <1>1 DEF Component

(* compareVersions, which skips what is missing, decides as the order does *)
(* that writes every component out.                                        *)
LEMMA NewerIsPrecedes ==
  ASSUME NEW a \in Library, NEW b \in Library
  PROVE  Newer(b, a) <=> Precedes(a, b)
<1> DEFINE n == Len(a) + Len(b)
<1>1. /\ Len(a) \in Nat /\ DOMAIN a = 1 .. Len(a)
      /\ Len(b) \in Nat /\ DOMAIN b = 1 .. Len(b)
  BY ComponentType
<1>2. \A i \in 1 .. n : /\ Written(a, n)[i] = Component(a, i)
                        /\ Written(b, n)[i] = Component(b, i)
  BY <1>1 DEF Written, Component
<1>3. DOMAIN a \cup DOMAIN b \subseteq 1 .. n
  BY <1>1
<1>4. \A i : Component(a, i) \in Nat /\ Component(b, i) \in Nat
  BY ComponentType
<1>5. ASSUME Newer(b, a) PROVE Precedes(a, b)
  <2>1. PICK i \in DOMAIN b \cup DOMAIN a :
          /\ Component(b, i) > Component(a, i)
          /\ \A j \in 1 .. (i - 1) : Component(b, j) = Component(a, j)
    BY <1>5 DEF Newer
  <2>2. i \in 1 .. n /\ 1 .. (i - 1) \subseteq 1 .. n
    BY <1>1, <1>3, <2>1
  <2>3. /\ Written(a, n)[i] < Written(b, n)[i]
        /\ \A j \in 1 .. (i - 1) : Written(a, n)[j] = Written(b, n)[j]
    BY <1>2, <1>4, <2>1, <2>2
  <2>4. QED
    BY <2>2, <2>3 DEF Precedes
<1>6. ASSUME Precedes(a, b) PROVE Newer(b, a)
  <2>1. PICK i \in 1 .. n :
          /\ Written(a, n)[i] < Written(b, n)[i]
          /\ \A j \in 1 .. i - 1 : Written(a, n)[j] = Written(b, n)[j]
    BY <1>6 DEF Precedes
  <2>2. i \in Nat /\ 1 .. (i - 1) \subseteq 1 .. n
    BY <1>1, <2>1
  <2>3. /\ Component(b, i) > Component(a, i)
        /\ \A j \in 1 .. (i - 1) : Component(b, j) = Component(a, j)
    BY <1>2, <1>4, <2>1, <2>2
  <2>4. i \in DOMAIN b
    BY <1>4, <2>3 DEF Component
  <2>5. QED
    BY <2>3, <2>4 DEF Newer
<1>7. QED
  BY <1>5, <1>6

(* The order is strict, so that sorting by it means something.             *)
THEOREM NewerIsAStrictOrder ==
  /\ \A a \in Library : ~Newer(a, a)
  /\ \A a, b, c \in Library : Newer(a, b) /\ Newer(b, c) => Newer(a, c)
<1>1. \A a \in Library : ~Newer(a, a)
  BY ComponentType DEF Newer
<1>2. ASSUME NEW a \in Library, NEW b \in Library, NEW c \in Library, Newer(a, b), Newer(b, c)
      PROVE  Newer(a, c)
  <2>1. PICK i \in DOMAIN a \cup DOMAIN b :
          /\ Component(a, i) > Component(b, i)
          /\ \A j \in 1 .. (i - 1) : Component(a, j) = Component(b, j)
    BY <1>2 DEF Newer
  <2>2. PICK k \in DOMAIN b \cup DOMAIN c :
          /\ Component(b, k) > Component(c, k)
          /\ \A j \in 1 .. (k - 1) : Component(b, j) = Component(c, j)
    BY <1>2 DEF Newer
  <2>3. \A x : Component(a, x) \in Nat /\ Component(b, x) \in Nat /\ Component(c, x) \in Nat
    BY ComponentType
  <2>4. i \in Nat \ {0} /\ k \in Nat \ {0}
    BY <2>1, <2>2, ComponentType
  <2> DEFINE m == IF i < k THEN i ELSE k
  <2>5. m \in Nat \ {0} /\ m <= i /\ m <= k
    BY <2>4
  <2>6. \A j \in 1 .. (m - 1) : j \in 1 .. (i - 1) /\ j \in 1 .. (k - 1)
    BY <2>4, <2>5
  <2>7. Component(a, m) > Component(c, m)
    <3>1. CASE i < k
      BY <2>1, <2>2, <2>3, <2>4, <3>1
    <3>2. CASE i = k
      BY <2>1, <2>2, <2>3, <2>4, <3>2
    <3>3. CASE k < i
      BY <2>1, <2>2, <2>3, <2>4, <3>3
    <3>4. QED
      BY <2>4, <3>1, <3>2, <3>3
  <2> HIDE DEF m
  <2>8. m \in DOMAIN a
    BY <2>3, <2>7 DEF Component
  <2>9. \A j \in 1 .. (m - 1) : Component(a, j) = Component(c, j)
    BY <2>1, <2>2, <2>6
  <2>10. QED
    BY <2>7, <2>8, <2>9 DEF Newer
<1>3. QED
  BY <1>1, <1>2

---------------------------------------------------------------------------
(* Looking a version up.                                                   *)

Lookup ==
  [stage : {"idle", "failed"}]
    \cup [stage : {"opening"}, asked : SUBSET Library]
    \cup [stage : {"listing"}, asked : SUBSET Library, unread : SUBSET Library,
          found : SUBSET Library]
    \cup [stage : {"resolved"}, version : Library, asked : SUBSET Library]
    \cup [stage : {"loading"}, version : Library]

LookupOK ==
  /\ DOMAIN files \subseteq Library
  /\ files \in [DOMAIN files -> SUBSET File]
  /\ lookup \in [Request -> Lookup]

(* What was published when the request came is still to be probed or was   *)
(* found, and what was found is published: authors take nothing back.      *)
ListingOK(l) ==
  /\ l.stage = "opening" => l.asked \subseteq Published
  /\ l.stage = "listing" => /\ l.asked \subseteq Published
                            /\ l.asked \subseteq l.unread \cup l.found
                            /\ l.found \subseteq Published
  /\ l.stage = "resolved" /\ l.asked # {} =>
       /\ l.version \in Published
       /\ \A v \in l.asked : ~Newer(v, l.version)

LatestInv == LookupOK /\ \A r \in Request : ListingOK(lookup[r])

LEMMA LookupStages ==
  ASSUME NEW l \in Lookup
  PROVE  /\ l.stage = "opening" => l.asked \subseteq Library
         /\ l.stage = "listing" => l \in [stage : {"listing"}, asked : SUBSET Library,
                                          unread : SUBSET Library, found : SUBSET Library]
         /\ l.stage = "resolved" => l.version \in Library /\ l.asked \subseteq Library
  BY DEF Lookup

(* One request's lookup moves on, the rest stands still.                   *)
LEMMA AdvanceOK ==
  ASSUME LatestInv, NEW r \in Request, NEW l \in Lookup, ListingOK(l),
         UNCHANGED files, lookup' = [lookup EXCEPT ![r] = l]
  PROVE  LatestInv'
<1>1. LookupOK'
  BY DEF LatestInv, LookupOK
<1>2. \A x \in Request : lookup'[x] = IF x = r THEN l ELSE lookup[x]
  BY DEF LatestInv, LookupOK
<1>3. \A x \in Request : ListingOK(lookup'[x])
  BY <1>2, Zenon DEF LatestInv
<1>4. Published' = Published
  BY DEF Published, Has
<1>5. QED
  BY <1>1, <1>3, <1>4 DEF LatestInv, ListingOK

(* Authors add files and take none away.                                   *)
LEMMA PublishOK ==
  ASSUME LatestInv, UNCHANGED lookup, LookupOK', Published \subseteq Published'
  PROVE  LatestInv'
  BY DEF LatestInv, ListingOK

LEMMA AuthorsOK ==
  ASSUME LatestInv, NEW v \in Library, NEW file \in File, MakeDirectory(v) \/ Write(v, file)
  PROVE  LatestInv'
<1>1. CASE MakeDirectory(v)
  <2>1. LookupOK'
    BY <1>1 DEF MakeDirectory, LatestInv, LookupOK
  <2>2. Published \subseteq Published'
    BY <1>1 DEF MakeDirectory, Published, Has
  <2>3. QED
    BY <1>1, <2>1, <2>2, PublishOK DEF MakeDirectory
<1>2. CASE Write(v, file)
  <2>1. LookupOK'
    BY <1>2 DEF Write, LatestInv, LookupOK
  <2>2. Published \subseteq Published'
    BY <1>2 DEF Write, Published, Has, LatestInv, LookupOK
  <2>3. QED
    BY <1>2, <2>1, <2>2, PublishOK DEF Write
<1>3. QED
  BY <1>1, <1>2

LEMMA AskVersionOK ==
  ASSUME LatestInv, NEW r \in Request, NEW v \in Library, AskVersion(r, v)
  PROVE  LatestInv'
<1> DEFINE l == [stage |-> "resolved", version |-> v, asked |-> {}]
<1>1. l \in Lookup /\ ListingOK(l)
  BY DEF Lookup, ListingOK
<1>2. QED
  BY <1>1, AdvanceOK DEF AskVersion, Advance

LEMMA AskLatestOK ==
  ASSUME LatestInv, NEW r \in Request, AskLatest(r)
  PROVE  LatestInv'
<1> DEFINE l == [stage |-> "opening", asked |-> Published]
<1>1. Published \subseteq Library
  BY DEF Published, LatestInv, LookupOK
<1>2. l \in Lookup /\ ListingOK(l)
  BY <1>1 DEF Lookup, ListingOK
<1>3. QED
  BY <1>2, AdvanceOK DEF AskLatest, Advance

LEMMA ReadDirectoryOK ==
  ASSUME LatestInv, NEW r \in Request, ReadDirectory(r)
  PROVE  LatestInv'
<1> DEFINE l == [stage |-> "listing", asked |-> lookup[r].asked,
                 unread |-> DOMAIN files, found |-> {}]
<1>1. /\ lookup[r] \in Lookup /\ lookup[r].stage = "opening" /\ ListingOK(lookup[r])
      /\ DOMAIN files \subseteq Library
  BY DEF ReadDirectory, LatestInv, LookupOK
<1>2. lookup[r].asked \subseteq Library /\ lookup[r].asked \subseteq Published
  BY <1>1, LookupStages DEF ListingOK
<1>3. l \in Lookup
  BY <1>1, <1>2 DEF Lookup
<1>4. ListingOK(l)
  BY <1>2 DEF ListingOK, Published
<1>5. QED
  BY <1>3, <1>4, AdvanceOK DEF ReadDirectory, Advance

(* A version that was published when the request came is found.            *)
LEMMA ProbeOK ==
  ASSUME LatestInv, NEW r \in Request, NEW v \in Library, Probe(r, v)
  PROVE  LatestInv'
<1> DEFINE o == lookup[r]
           l == [o EXCEPT !.unread = @ \ {v}, !.found = Probed(@, v)]
<1>1. o \in Lookup /\ o.stage = "listing" /\ ListingOK(o) /\ v \in o.unread
  BY DEF Probe, LatestInv, LookupOK
<1>2. o \in [stage : {"listing"}, asked : SUBSET Library, unread : SUBSET Library,
             found : SUBSET Library]
  BY <1>1, LookupStages
<1>3. /\ l.stage = "listing" /\ l.asked = o.asked /\ l.unread = o.unread \ {v}
      /\ l.found = Probed(o.found, v)
      /\ l \in [stage : {"listing"}, asked : SUBSET Library, unread : SUBSET Library,
                found : SUBSET Library]
  BY <1>2 DEF Probed
<1>4. v \in Published <=> Has(v, "manifest")
  BY DEF Published, Has
<1>5. ListingOK(l)
  BY <1>1, <1>3, <1>4 DEF ListingOK, Probed
<1>6. QED
  BY <1>3, <1>5, AdvanceOK DEF Probe, Advance, Lookup

LEMMA ResolveOK ==
  ASSUME LatestInv, NEW r \in Request, Resolve(r)
  PROVE  LatestInv'
<1> DEFINE o == lookup[r]
<1>1. o \in Lookup /\ o.stage = "listing" /\ o.unread = {} /\ ListingOK(o)
  BY DEF Resolve, Listed, LatestInv, LookupOK
<1>2. o.asked \subseteq Library /\ o.found \subseteq Library
  BY <1>1, LookupStages
<1>3. PICK v \in Latest(o.found) :
        lookup' = [lookup EXCEPT ![r] = [stage |-> "resolved", version |-> v, asked |-> o.asked]]
  BY DEF Resolve, Advance
<1>4. v \in o.found /\ \A w \in o.found : ~Newer(w, v)
  BY <1>3 DEF Latest
<1> DEFINE l == [stage |-> "resolved", version |-> v, asked |-> o.asked]
<1>5. l \in Lookup
  BY <1>2, <1>4 DEF Lookup
<1>6. ListingOK(l)
  BY <1>1, <1>4 DEF ListingOK
<1>7. QED
  BY <1>3, <1>5, <1>6, AdvanceOK DEF Resolve, Advance

LEMMA BeginOK ==
  ASSUME LatestInv, NEW r \in Request, NotFound(r) \/ Begin(r)
  PROVE  LatestInv'
<1>1. CASE NotFound(r)
  <2> DEFINE l == [stage |-> "failed"]
  <2>1. l \in Lookup /\ ListingOK(l)
    BY DEF Lookup, ListingOK
  <2>2. QED
    BY <1>1, <2>1, AdvanceOK DEF NotFound, Advance
<1>2. CASE Begin(r)
  <2> DEFINE l == [stage |-> "loading", version |-> lookup[r].version]
  <2>1. lookup[r] \in Lookup /\ lookup[r].stage = "resolved"
    BY <1>2 DEF Begin, LatestInv, LookupOK
  <2>2. lookup[r].version \in Library
    BY <2>1, LookupStages
  <2>3. l \in Lookup /\ ListingOK(l)
    BY <2>2 DEF Lookup, ListingOK
  <2>4. QED
    BY <1>2, <2>3, AdvanceOK DEF Begin
<1>3. QED
  BY <1>1, <1>2

LEMMA StepLatestInv == LatestInv /\ [RegistryNext]_registryVars => LatestInv'
<1> SUFFICES ASSUME LatestInv, [RegistryNext]_registryVars PROVE LatestInv'
  OBVIOUS
<1>1. CASE UNCHANGED <<files, lookup>>
  <2>1. LookupOK' /\ Published' = Published
    BY <1>1 DEF LatestInv, LookupOK, Published, Has
  <2>2. QED
    BY <1>1, <2>1, PublishOK
<1>2. ASSUME NEW v \in Library, MakeDirectory(v) PROVE LatestInv'
  BY <1>2, AuthorsOK, FileAssumption
<1>3. ASSUME NEW v \in Library, NEW file \in File, Write(v, file) PROVE LatestInv'
  BY <1>3, AuthorsOK
<1>4. ASSUME NEW r \in Request, NEW v \in Library, AskVersion(r, v) \/ Probe(r, v)
      PROVE  LatestInv'
  BY <1>4, AskVersionOK, ProbeOK
<1>5. ASSUME NEW r \in Request, AskLatest(r) PROVE LatestInv'
  BY <1>5, AskLatestOK
<1>6. ASSUME NEW r \in Request, ReadDirectory(r) PROVE LatestInv'
  BY <1>6, ReadDirectoryOK
<1>7. ASSUME NEW r \in Request, Resolve(r) \/ NotFound(r) \/ Begin(r) PROVE LatestInv'
  BY <1>7, ResolveOK, BeginOK
<1>8. QED
  BY <1>1, <1>2, <1>3, <1>4, <1>5, <1>6, <1>7 DEF RegistryNext, Revise, Load, registryVars

LEMMA LatestInvHolds == RegistrySpec => []LatestInv
<1>1. RegistryInit => LatestInv
  <2> SUFFICES ASSUME RegistryInit PROVE LatestInv
    OBVIOUS
  <2>1. PICK whole \in SUBSET Library : files = [v \in whole |-> File]
    BY DEF RegistryInit
  <2>2. lookup = [r \in Request |-> [stage |-> "idle"]]
    BY DEF RegistryInit
  <2>3. LookupOK
    BY <2>1, <2>2 DEF LookupOK, Lookup
  <2>4. QED
    BY <2>2, <2>3 DEF LatestInv, ListingOK
<1>2. LatestInv /\ [RegistryNext]_registryVars => LatestInv'
  BY StepLatestInv
<1>3. QED
  BY <1>1, <1>2, PTL DEF RegistrySpec

(* Whatever is published while the directory is read and probed, "latest"  *)
(* is a published version that nothing published before it is newer than.  *)
THEOREM LatestIsNewestHolds == RegistrySpec => []LatestIsNewest
<1>1. LatestInv => LatestIsNewest
  <2> SUFFICES ASSUME LatestInv, NEW r \in Request,
                      lookup[r].stage = "resolved", lookup[r].asked # {}
               PROVE  /\ lookup[r].version \in Published
                      /\ \A v \in lookup[r].asked : ~Precedes(lookup[r].version, v)
    BY DEF LatestIsNewest
  <2>1. lookup[r] \in Lookup /\ ListingOK(lookup[r])
    BY DEF LatestInv, LookupOK
  <2>2. lookup[r].version \in Library /\ lookup[r].asked \subseteq Library
    BY <2>1, LookupStages
  <2>3. QED
    BY <2>1, <2>2, NewerIsPrecedes DEF ListingOK
<1>2. QED
  BY <1>1, LatestInvHolds, PTL

---------------------------------------------------------------------------
(* The registry as a user of the cache.                                    *)

LEMMA RegistryStepIsStep == LatestInv /\ [RegistryNext]_registryVars => [Next]_vars
<1> SUFFICES ASSUME LatestInv, [RegistryNext]_registryVars PROVE [Next]_vars
  OBVIOUS
<1>1. CASE UNCHANGED vars
  BY <1>1
<1>2. ASSUME NEW v \in Library, NEW s \in Semantics, NEW kind \in Stamping, Revise(v, s, kind)
      PROVE  Next
  BY <1>2 DEF Revise, Next
<1>3. ASSUME NEW r \in Request, Begin(r) PROVE Next
  <2>1. lookup[r].version \in Library
    BY <1>3, LookupStages DEF Begin, LatestInv, LookupOK
  <2>2. PICK q \in Query : ReadManifest(r, lookup[r].version, q)
    BY <1>3 DEF Begin
  <2>3. QED
    BY <2>1, <2>2 DEF Next, Serve
<1>4. ASSUME NEW r \in Request, Load(r) PROVE Next
  BY <1>4 DEF Load, Next, Serve
<1>5. QED
  BY <1>1, <1>2, <1>3, <1>4
  DEF RegistryNext, registryVars, MakeDirectory, Write, AskVersion, AskLatest, ReadDirectory,
      Probe, Resolve, NotFound, Advance

(* However versions are published and resolved, the registry drives the    *)
(* cache as LoweringCache says: every step is one of its own or a stutter. *)
THEOREM RegistryImplementsCache == RegistrySpec => Spec
<1>1. RegistryInit => Init
  BY DEF RegistryInit
<1>2. LatestInv /\ [RegistryNext]_registryVars => [Next]_vars
  BY RegistryStepIsStep
<1>3. QED
  BY <1>1, <1>2, LatestInvHolds, PTL DEF RegistrySpec, Spec

(* So a request loads an implementation of its own manifest, whichever way *)
(* it came to its version.                                                 *)
THEOREM LoadedIsConsistentBehindRegistry == RegistrySpec => []LoadedIsConsistent
  BY RegistryImplementsCache, LoadedIsConsistentHolds, PTL

(* And its answer follows the stamps, however versions were resolved.      *)
THEOREM AnswersFollowStampsBehindRegistry == RegistrySpec => []AnswersFollowStamps
  BY RegistryImplementsCache, AnswersFollowStampsHolds, PTL

(* So the cache is invisible as long as the stamps tell the semantics.     *)
THEOREM CacheIsTransparentBehindRegistry ==
  RegistrySpec => [](StampsTell => CacheIsTransparent)
  BY RegistryImplementsCache, CacheIsTransparentHolds, PTL

=============================================================================
