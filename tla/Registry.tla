------------------------------ MODULE Registry ------------------------------
(***************************************************************************)
(* Finding the version of a curated library that a request means, while    *)
(* authors publish new ones: src/engine/registry.js.  A Library of         *)
(* LoweringCache is one version's directory, here of one library, and is   *)
(* the version itself: a sequence of numbers.  "latest" is resolved by     *)
(* reading the directory and probing each version for its manifest, with a *)
(* wait at every step; the request then loads what it resolved.            *)
(***************************************************************************)
EXTENDS LoweringCache, Sequences, FiniteSetsExt

CONSTANT File   \* the files of a version: "manifest" and "implementation"

ASSUME FileAssumption == {"manifest", "implementation"} \subseteq File
ASSUME VersionAssumption == Library \subseteq Seq(Nat)

VARIABLES
  files,   \* the files written so far, a function of the version directories
  lookup   \* each request's way to its version

registryVars == <<vars, files, lookup>>

Has(v, file) == v \in DOMAIN files /\ file \in files[v]

Published == {v \in DOMAIN files : Has(v, "manifest")}

---------------------------------------------------------------------------

(* Faulty variant: a component that is missing is the largest there is.    *)
ComponentOrMore(v, i) == IF i \in DOMAIN v THEN v[i] ELSE 1 + Max(UNION {{w[j] : j \in DOMAIN w} : w \in Library})

Component(v, i) == IF i \in DOMAIN v THEN v[i] ELSE 0

(* compareVersions(a, b) > 0.                                              *)
Newer(a, b) ==
  \E i \in DOMAIN a \cup DOMAIN b :
    /\ Component(a, i) > Component(b, i)
    /\ \A j \in 1..(i - 1) : Component(a, j) = Component(b, j)

(* list() sorts what it found and resolveVersion takes the last: of equal  *)
(* versions ("2" and "2.0"), the one the directory happens to name last.   *)
Latest(found) == {v \in found : \A w \in found : ~Newer(w, v)}

RegistryInit ==
  /\ Init
  /\ \E whole \in SUBSET Library : files = [v \in whole |-> File]
  /\ lookup = [r \in Request |-> [stage |-> "idle"]]

(* Authors: a directory, then its files in any order.                      *)
MakeDirectory(v) ==
  /\ v \notin DOMAIN files
  /\ files' = [w \in DOMAIN files \cup {v} |-> IF w = v THEN {} ELSE files[w]]
  /\ UNCHANGED <<vars, lookup>>

Write(v, file) ==
  /\ v \in DOMAIN files /\ file \notin files[v]
  /\ files' = [files EXCEPT ![v] = @ \cup {file}]
  /\ UNCHANGED <<vars, lookup>>

Revise(v, s, kind) ==
  /\ v \in DOMAIN files /\ files[v] = File
  /\ Edit(v, s, kind)
  /\ UNCHANGED <<files, lookup>>

---------------------------------------------------------------------------
(* A request: resolveVersion, then load.                                   *)

Advance(r, l) ==
  /\ lookup' = [lookup EXCEPT ![r] = l]
  /\ UNCHANGED <<vars, files>>

AskVersion(r, v) ==
  /\ lookup[r].stage = "idle"
  /\ Advance(r, [stage |-> "resolved", version |-> v, asked |-> {}])

(* asked remembers what was published when the request came.               *)
AskLatest(r) ==
  /\ lookup[r].stage = "idle"
  /\ Advance(r, [stage |-> "opening", asked |-> Published])

ReadDirectory(r) ==
  /\ lookup[r].stage = "opening"
  /\ Advance(r, [stage |-> "listing", asked |-> lookup[r].asked,
                 unread |-> DOMAIN files, found |-> {}])

Probed(found, v) == IF Has(v, "manifest") THEN found \cup {v} ELSE found

Probe(r, v) ==
  /\ lookup[r].stage = "listing" /\ v \in lookup[r].unread
  /\ Advance(r, [lookup[r] EXCEPT !.unread = @ \ {v}, !.found = Probed(@, v)])

Listed(r) == lookup[r].stage = "listing" /\ lookup[r].unread = {}

Resolve(r) ==
  /\ Listed(r)
  /\ \E v \in Latest(lookup[r].found) :
       Advance(r, [stage |-> "resolved", version |-> v, asked |-> lookup[r].asked])

(* "no versions", no manifest to read, or no implementation to import: the *)
(* load throws and the server answers 404.                                 *)
Missing(r) ==
  \/ Listed(r) /\ lookup[r].found = {}
  \/ lookup[r].stage = "resolved" /\ ~Has(lookup[r].version, "manifest")
  \/ /\ lookup[r].stage = "loading" /\ request[r].stage = "read"
     /\ ~Has(lookup[r].version, "implementation")

NotFound(r) == Missing(r) /\ Advance(r, [stage |-> "failed"])

Begin(r) ==
  /\ lookup[r].stage = "resolved" /\ ~Missing(r)
  /\ \E q \in Query : ReadManifest(r, lookup[r].version, q)
  /\ lookup' = [lookup EXCEPT ![r] = [stage |-> "loading", version |-> @.version]]
  /\ UNCHANGED files

Load(r) ==
  /\ lookup[r].stage = "loading" /\ ~Missing(r)
  /\ Import(r) \/ Hit(r) \/ Miss(r) \/ MissThrows(r)
  /\ UNCHANGED <<files, lookup>>

RegistryNext ==
  \/ \E v \in Library : MakeDirectory(v)
  \/ \E v \in Library, file \in File : Write(v, file)
  \/ \E v \in Library, s \in Semantics, kind \in Stamping : Revise(v, s, kind)
  \/ \E r \in Request : \/ \E v \in Library : AskVersion(r, v) \/ Probe(r, v)
                        \/ AskLatest(r) \/ ReadDirectory(r) \/ Resolve(r)
                        \/ NotFound(r) \/ Begin(r) \/ Load(r)

RegistrySpec == RegistryInit /\ [][RegistryNext]_registryVars

---------------------------------------------------------------------------
(* Properties.                                                             *)

(* The order of the versions, with all their components written out.       *)
Written(v, n) == [i \in 1 .. n |-> IF i <= Len(v) THEN v[i] ELSE 0]

Precedes(a, b) ==
  LET n == Len(a) + Len(b)
      x == Written(a, n)
      y == Written(b, n)
  IN \E i \in 1 .. n : x[i] < y[i] /\ \A j \in 1 .. i - 1 : x[j] = y[j]

(* "latest" ("the highest available version", registry.js) is resolved to  *)
(* a version with a manifest, and none that was there when the request came*)
(* is newer, whatever is published while it lists.                         *)
LatestIsNewest ==
  \A r \in Request : lookup[r].stage = "resolved" /\ lookup[r].asked # {} =>
    /\ lookup[r].version \in Published
    /\ \A v \in lookup[r].asked : ~Precedes(lookup[r].version, v)

=============================================================================
