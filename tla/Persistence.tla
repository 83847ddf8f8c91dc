----------------------------- MODULE Persistence -----------------------------
(***************************************************************************)
(* The catalog across restarts (Catalog::save and load, catalog.cpp:538-   *)
(* 648, persistence.cpp): what an image keeps of the catalog, how load     *)
(* builds the rest again from the records, and what is left when it        *)
(* refuses an image half way, after it has cleared what was there.         *)
(*                                                                         *)
(* A restart is on the image of the moment: what load makes of an image    *)
(* does not depend on what the catalog did after it was saved, so a        *)
(* restart on an older image leads where a restart right after that save   *)
(* would have led.  Encoding is lossless for what the records hold here.   *)
(***************************************************************************)
EXTENDS Catalog

VARIABLE intact   \* no image has been refused yet

persistentVars == <<vars, intact>>

PersistentInit == Init /\ intact = TRUE

Saved == {a \in Artifacts : Registered(a)}

DependencySet(a) == {artifacts[a].deps[i] : i \in 1..Len(artifacts[a].deps)}

(* The graph load has built from the artifacts before a, and from the      *)
(* dependencies of a before the i-th; i = 0 stands before a's own node.    *)
Rebuilt(a, i) ==
  LET edges == [b \in Artifacts |->
                  IF b \in Saved /\ b < a THEN DependencySet(b)
                  ELSE IF b = a THEN Earlier(artifacts[a], i) ELSE {}]
  IN  [nodes |-> {b \in Saved : b < a} \cup (IF i = 0 THEN {} ELSE {a})
                   \cup UNION {edges[b] : b \in Artifacts},
       out   |-> edges,
       in    |-> [d \in Artifacts |-> {b \in Artifacts : d \in edges[b]}]]

(* Once the limit is reached a's own node is refused, even if it is there, *)
(* and so is a dependency's that is not there.                             *)
NoRoomAt(a, i) ==
  LET g == Rebuilt(a, i)
  IN  Full(g) /\ (i > 0 => artifacts[a].deps[i] \notin g.nodes)

(* A slip: the search starts from the wrong end of the edge. *)
SpoilsBackwards(a, i) ==
  LET g == Rebuilt(a, i)
      d == artifacts[a].deps[i]
  IN  d = a \/ d \in g.out[a] \/ CreatesCycle(g, d, a)

(* add_edge, or load itself, will not have the i-th dependency, whose node *)
(* is there already.                                                       *)
Spoils(a, i) ==
  LET g == Rebuilt(a, i)
      d == artifacts[a].deps[i]
  IN  d = a \/ d \in g.out[a] \/ CreatesCycle(g, a, d)

(* load throws at a's own node (i = 0) or at its i-th dependency. *)
RefusedAt(a, i) == NoRoomAt(a, i) \/ (i > 0 /\ Spoils(a, i))

Steps(a) == 0..Len(artifacts[a].deps)

Loads == \A a \in Saved : \A i \in Steps(a) : ~RefusedAt(a, i)

(* The accounts are counted anew, retired artifacts included. *)
Recounted ==
  LET logical == MapThenSumSet(LAMBDA a : artifacts[a].size, Saved)
      physical == MapThenSumSet(LAMBDA c : Bytes[c], backed)
  IN  [NoAccounts EXCEPT
         !.logicalArtifacts = Cardinality(Saved),
         !.logicalBytes = logical,
         !.physicalBacking = Cardinality(backed),
         !.physicalBytes = physical,
         !.activeReferences = MapThenSumSet(LAMBDA c : refs[c], backed),
         !.dedupBytes = IF logical > physical THEN logical - physical ELSE 0]

(* A slip: the reference counts are not in the image. *)
RestoresContentOnly ==
  /\ UNCHANGED <<artifacts, backed, nextGeneration, authority, supersessions>>
  /\ refs' = [c \in Contents |-> IF c \in backed THEN 1 ELSE 0]

(* What an image holds. *)
RestoresImage ==
  UNCHANGED <<artifacts, store, nextGeneration, authority, supersessions>>

(* The process saves, ends, and a new one loads what was saved. *)
Reload ==
  /\ Loads
  /\ RestoresImage
  /\ graph' = [nodes |-> Saved \cup UNION {DependencySet(a) : a \in Saved},
               out   |-> [a \in Artifacts |-> IF a \in Saved THEN DependencySet(a) ELSE {}],
               in    |-> [d \in Artifacts |-> {a \in Saved : d \in DependencySet(a)}]]
  /\ index' = EntriesOf(Saved)
  /\ accounts' = Recounted
  /\ cause' = [a \in Artifacts |-> NoCause]
  /\ quarantineRecords' = {}
  /\ UNCHANGED intact

(* A coordinator has taken an authority before it tries to load (its       *)
(* constructor, distributed.cpp:13-16), a tool has not.                    *)
AsConstructed ==
  \/ epoch' = 0 /\ boot' = NoBoot
  \/ MaxEpoch > 0 /\ epoch' = 1 /\ boot' \in Boots

(* The new process is left with the records and the edges up to the one    *)
(* that was refused, and otherwise as it was constructed.                  *)
ReloadRefused(a, i) ==
  /\ RefusedAt(a, i)
  /\ \A b \in Saved : \A j \in Steps(b) : b < a \/ (b = a /\ j < i) => ~RefusedAt(b, j)
  /\ artifacts' = [b \in Artifacts |-> IF b <= a THEN artifacts[b] ELSE Absent]
  /\ graph' = Rebuilt(a, i)
  /\ index' = {}
  /\ backed' = {} /\ refs' = [c \in Contents |-> 0]
  /\ accounts' = NoAccounts
  /\ nextGeneration' = 0
  /\ AsConstructed
  /\ supersessions' = {}
  /\ cause' = [b \in Artifacts |-> NoCause]
  /\ quarantineRecords' = {}
  /\ intact' = FALSE

PersistentNext ==
  \/ Next /\ UNCHANGED intact
  \/ Reload
  \/ \E a \in Saved : \E i \in Steps(a) : ReloadRefused(a, i)

PersistentSpec == PersistentInit /\ [][PersistentNext]_persistentVars

-----------------------------------------------------------------------------
(* Restarts keep the store honest: until an image is refused the reference *)
(* counts are exact, although a reload rebuilds the graph and the accounts *)
(* that retire and publish go by (catalog.cpp:630-647).                    *)
ReferencesSurvive == intact => ReferencesExact

(* Restarts lose no dependency: invalidation finds its dependents in the   *)
(* graph load has built (catalog.cpp:617-628) as it did in the one publish *)
(* had built.                                                              *)
DependenciesSurvive == intact => DependenciesInGraph

(* Records that went through publish to its end, and have been neither     *)
(* retired nor quarantined since (a refused publication's can be, too), or *)
(* that never began it.                                                    *)
Sound(a) == artifacts[a].lifecycle \in Live \cup {"INVALIDATED", "SUPERSEDED", "DECLARED"}

(* As long as every record is a sound one, load will take the image:       *)
(* whatever order they were published in, load, which takes them in the    *)
(* order of their ids, meets no edge it would refuse (catalog.cpp:618-628).*)
(* Holds when registrations carry no dependencies of their own.            *)
SoundRecordsLoad ==
  intact /\ (\A a \in Saved : Sound(a)) =>
    \A a \in Saved : \A i \in Steps(a) \ {0} : ~Spoils(a, i)
=============================================================================
