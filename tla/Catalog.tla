------------------------------- MODULE Catalog -------------------------------
(***************************************************************************)
(* The catalog of artifacts (catalog.hpp, catalog.cpp): the records, the   *)
(* dependency graph, the content store and its reference counts, the       *)
(* secondary indexes, the accounting, the supersession relation and the    *)
(* recorded invalidation causes, under any sequence of the calls that      *)
(* change them.                                                            *)
(*                                                                         *)
(* Each action is one whole call, from the authority check to the last     *)
(* assignment made under the catalog's lock.  The code does not roll back  *)
(* what it did before it throws, so a call that throws half way is an      *)
(* action too, one per throw point, that keeps exactly the assignments     *)
(* made before that point.  A call that throws before its first assignment *)
(* changes nothing and is no step.                                         *)
(*                                                                         *)
(* Abstracted: a digest stands for the bytes it digests; kind, producer,   *)
(* model, adapter, runtime, toolchain, architecture, provenance and        *)
(* placement never change once stored and are taken to be present and      *)
(* acceptable, so that one "identity" index stands for the indexes keyed   *)
(* by them; closure digests and timestamps are left out.  publish reads    *)
(* the next generation before it takes the lock, and a staged reservation  *)
(* raises it there: here both are part of the call, for a generation read  *)
(* too early is an older one and nothing but later checks of envelopes'    *)
(* generations looks at it.                                                *)
(***************************************************************************)
EXTENDS Lifecycle, GraphOps, Integers, Sequences, FiniteSetsExt

CONSTANTS
  Contents,             \* content digests
  NoContent,            \* the zero digest of a descriptor without content
  Bytes,                \* how many bytes stand behind each digest
  PublishRequests,      \* what callers may publish
  RegisterRequests,     \* what callers may register without publishing
  Reports,              \* validation reports callers may send
  Causes, NoCause,      \* invalidation causes callers may give
  Boots, NoBoot,        \* coordinator boot ids, and the unset one
  MaxEpoch,             \* bound on epochs
  EnvelopeGenerations,  \* artifact generations envelopes may carry, 0 for unset
  MaxGeneration,        \* the largest 64-bit generation
  RefModulus            \* 2^w, where w is the width of a reference count

(* A caller's descriptor, and the digest of the content that comes with it *)
(* or, without content, the descriptor's own.                              *)
Requests(contents) ==
  [id : Artifacts, content : contents, deps : Seq(Artifacts),
   generation : 0..MaxGeneration, size : Nat, validation : ValidationStates]

(* An id is sixteen bytes. *)
ASSUME IdsAssumption == IsFiniteSet(Artifacts)
ASSUME ContentsAssumption == NoContent \notin Contents /\ Bytes \in [Contents -> Nat]
ASSUME RequestsAssumption ==
  /\ PublishRequests \subseteq Requests(Contents)
  /\ RegisterRequests \subseteq Requests(Contents \cup {NoContent})
ASSUME CallersAssumption ==
  /\ Reports \subseteq ValidationReports
  /\ NoCause \notin Causes
  /\ NoBoot \notin Boots
ASSUME BoundsAssumption ==
  /\ MaxEpoch \in Nat
  /\ MaxGeneration \in Nat
  /\ EnvelopeGenerations \subseteq 0..MaxGeneration
  /\ RefModulus \in Nat /\ RefModulus > 1

Envelopes == [epoch : 0..MaxEpoch, boot : Boots \cup {NoBoot}, generation : EnvelopeGenerations]

Descriptors ==
  [lifecycle : LifecycleStates, validation : ValidationStates,
   generation : 0..MaxGeneration, content : Contents \cup {NoContent},
   deps : Seq(Artifacts), size : Nat]

(* Accountant's counters: the guarded ones never go below zero. *)
Accounts ==
  [logicalArtifacts : Int, physicalBacking : Int, logicalBytes : Nat,
   physicalBytes : Nat, dedupBytes : Nat, activeReferences : Nat,
   invalidations : Nat, supersessions : Nat]

NoAccounts ==
  [logicalArtifacts |-> 0, physicalBacking |-> 0, logicalBytes |-> 0,
   physicalBytes |-> 0, dedupBytes |-> 0, activeReferences |-> 0,
   invalidations |-> 0, supersessions |-> 0]

(* Stands where artifacts_ has no record. *)
Absent == [lifecycle |-> "ABSENT"]

VARIABLES
  artifacts,          \* artifacts_
  graph,              \* graph_
  index,              \* the *_index_ maps, as <<index, key, artifact>> entries
  backed,             \* the keys of content_store_
  refs,               \* ContentRef::refcount
  accounts,           \* accounts_
  nextGeneration,     \* next_artifact_generation_
  epoch, boot,        \* epoch_, boot_
  supersessions,      \* successor_of_ and its inverse predecessor_of_
  cause,              \* invalidation_cause_
  quarantineRecords   \* the keys of quarantine_records_

vars == <<artifacts, graph, index, backed, refs, accounts, nextGeneration,
          epoch, boot, supersessions, cause, quarantineRecords>>

authority == <<epoch, boot>>
store == <<backed, refs>>
history == <<supersessions, cause, quarantineRecords>>

Init ==
  /\ artifacts = [a \in Artifacts |-> Absent]
  /\ graph = EmptyGraph
  /\ index = {}
  /\ backed = {}
  /\ refs = [c \in Contents |-> 0]
  /\ accounts = NoAccounts
  /\ nextGeneration = 0
  /\ epoch = 0
  /\ boot = NoBoot
  /\ supersessions = {}
  /\ cause = [a \in Artifacts |-> NoCause]
  /\ quarantineRecords = {}

-----------------------------------------------------------------------------
(* Authority. *)

(* set_authority, as its callers use it: once, on a catalog without one. *)
SetAuthority(b) ==
  /\ epoch = 0 /\ MaxEpoch > 0
  /\ epoch' = 1
  /\ boot' = b
  /\ UNCHANGED <<artifacts, graph, index, store, accounts, nextGeneration, history>>

RollEpoch(b) ==
  /\ epoch < MaxEpoch
  /\ epoch' = epoch + 1
  /\ boot' = b
  /\ UNCHANGED <<artifacts, graph, index, store, accounts, nextGeneration, history>>

(* fence: both the epoch and the boot id must be the current ones. *)
Fenced(e) == e.epoch = epoch /\ e.boot = boot

(* The check against the envelope's artifact generation, unset meaning any. *)
GenerationCurrent(e, generation) == e.generation # 0 => generation <= e.generation

-----------------------------------------------------------------------------
(* Records, indexes and reference counts. *)

Registered(a) == artifacts[a] # Absent

IndexEntries(a, d) ==
  {<<"identity", a, a>>, <<"content", d.content, a>>,
   <<"lifecycle", d.lifecycle, a>>, <<"validation", d.validation, a>>}

Raised(n) == (n + 1) % RefModulus
Dropped(n) == IF n = 0 THEN RefModulus - 1 ELSE n - 1

(* A slip: the entries are removed under the new state instead of the old. *)
MovesLeavingEntries(a, d, state) ==
  LET moved == [d EXCEPT !.lifecycle = state]
  IN  /\ CanTransition(d.lifecycle, state)
      /\ artifacts' = [artifacts EXCEPT ![a] = moved]
      /\ index' = (index \ IndexEntries(a, moved)) \cup IndexEntries(a, moved)

(* Most operations take the artifact out of the indexes, edit its record   *)
(* into d, ask apply_transition for the next lifecycle state and put the   *)
(* artifact back.  When the transition is refused the exception leaves the *)
(* edit in place and the artifact out of the indexes.                      *)
Moves(a, d, state) ==
  LET moved == [d EXCEPT !.lifecycle = state]
  IN  /\ CanTransition(d.lifecycle, state)
      /\ artifacts' = [artifacts EXCEPT ![a] = moved]
      /\ index' = (index \ IndexEntries(a, artifacts[a])) \cup IndexEntries(a, moved)

Refuses(a, d, state) ==
  /\ ~CanTransition(d.lifecycle, state)
  /\ artifacts' = [artifacts EXCEPT ![a] = d]
  /\ index' = index \ IndexEntries(a, artifacts[a])

-----------------------------------------------------------------------------
(* register_artifact. *)

Register(r, e) ==
  LET raises == r.generation # 0 /\ r.generation >= nextGeneration
      d == [lifecycle |-> "DECLARED", validation |-> "UNVALIDATED",
            generation |-> r.generation, content |-> r.content,
            deps |-> r.deps, size |-> r.size]
  IN  /\ Fenced(e)
      /\ ~Registered(r.id)
      /\ raises => r.generation < MaxGeneration
      /\ nextGeneration' = IF raises THEN r.generation + 1 ELSE nextGeneration
      /\ artifacts' = [artifacts EXCEPT ![r.id] = d]
      /\ index' = index \cup IndexEntries(r.id, d)
      /\ UNCHANGED <<graph, store, accounts, authority, history>>

-----------------------------------------------------------------------------
(* publish: until it is through, the record has the validation state that  *)
(* the caller's descriptor came with.                                      *)

GenerationOf(r) == IF r.generation = 0 THEN nextGeneration ELSE r.generation

Building(r) ==
  [lifecycle |-> "BUILDING", validation |-> r.validation, generation |-> GenerationOf(r),
   content |-> r.content, deps |-> r.deps, size |-> r.size]

PublishedRecord(r) ==
  [Building(r) EXCEPT !.validation = "INTEGRITY_OK", !.lifecycle = "PUBLISHED"]

(* The checks that come before the first assignment. *)
MayPublish(r, e) ==
  /\ Fenced(e)
  /\ ~Registered(r.id)
  /\ GenerationCurrent(e, GenerationOf(r))

(* A slip: content that is already stored gains no reference. *)
StagesFirstCopy(r) ==
  /\ backed' = backed \cup {r.content}
  /\ refs' = IF r.content \in backed THEN refs ELSE [refs EXCEPT ![r.content] = 1]

(* The content goes into the store, or gains a reference there. *)
Stages(r) ==
  /\ backed' = backed \cup {r.content}
  /\ refs' = [refs EXCEPT ![r.content] = IF r.content \in backed THEN Raised(@) ELSE 1]

BackingSize(r) == IF r.size # 0 THEN r.size ELSE Bytes[r.content]

(* A slip: a stored copy is charged again instead of counted as shared. *)
StagedTwice(r) ==
  [accounts EXCEPT !.physicalBacking = @ + 1, !.physicalBytes = @ + BackingSize(r)]

Staged(r) ==
  IF r.content \notin backed
  THEN [accounts EXCEPT !.physicalBacking = @ + 1, !.physicalBytes = @ + BackingSize(r)]
  ELSE IF Raised(refs[r.content]) > 1
       THEN [accounts EXCEPT !.dedupBytes = @ + BackingSize(r)]
       ELSE accounts

Committed(r) ==
  [Staged(r) EXCEPT !.logicalArtifacts = @ + 1, !.logicalBytes = @ + r.size,
                    !.activeReferences = @ + 1]

(* The dependencies declared before the i-th one. *)
Earlier(r, i) == {r.deps[j] : j \in 1..(i - 1)}

(* A slip: the nodes are declared and the edges forgotten. *)
LinkedWithoutEdges(r, i) == AddNodes(graph, {r.id} \cup Earlier(r, i))

(* The graph once the node and the edges before the i-th are in. *)
Linked(r, i) ==
  AddEdges(AddNodes(graph, {r.id} \cup Earlier(r, i)), r.id, Earlier(r, i))

(* The limit leaves no room for the i-th dependency's node. *)
NoRoomFor(r, i) ==
  LET nodes == graph.nodes \cup {r.id} \cup Earlier(r, i)
  IN  r.deps[i] \notin nodes /\ Cardinality(nodes) >= MaxNodes

(* A slip: a dependency that closes a cycle is let through. *)
RefusedUnlessCyclic(r, i) ==
  \/ NoRoomFor(r, i)
  \/ r.deps[i] = r.id
  \/ r.deps[i] \in graph.out[r.id] \cup Earlier(r, i)

(* add_node or add_edge throws at the i-th dependency.  The edges this     *)
(* call already added leave r.id, so they help no path that reaches r.id,  *)
(* and the cycle test may look at the graph the call started from.         *)
DependencyRefused(r, i) ==
  \/ NoRoomFor(r, i)
  \/ r.deps[i] = r.id
  \/ r.deps[i] \in graph.out[r.id] \cup Earlier(r, i)
  \/ CreatesCycle(graph, r.id, r.deps[i])

Linkable(r) == ~Full(graph) /\ \A i \in 1..Len(r.deps) : ~DependencyRefused(r, i)

RaisesGeneration(r) == nextGeneration <= GenerationOf(r)

(* publish up to its last accounting call. *)
PublishesUnindexed(r, e) ==
  /\ MayPublish(r, e)
  /\ Linkable(r)
  /\ Stages(r)
  /\ artifacts' = [artifacts EXCEPT ![r.id] = PublishedRecord(r)]
  /\ graph' = Linked(r, Len(r.deps) + 1)
  /\ accounts' = Committed(r)
  /\ UNCHANGED <<authority, history>>

Publish(r, e) ==
  /\ PublishesUnindexed(r, e)
  /\ RaisesGeneration(r) => GenerationOf(r) < MaxGeneration
  /\ nextGeneration' = IF RaisesGeneration(r) THEN GenerationOf(r) + 1 ELSE nextGeneration
  /\ index' = index \cup IndexEntries(r.id, PublishedRecord(r))

(* The generation after the largest one throws when everything but the     *)
(* indexes has been written: the caller is told of a failure.              *)
PublishOverflowing(r, e) ==
  /\ PublishesUnindexed(r, e)
  /\ RaisesGeneration(r) /\ GenerationOf(r) = MaxGeneration
  /\ UNCHANGED <<index, nextGeneration>>

(* No room for the artifact's own node: the record and the content stay. *)
PublishWithoutNode(r, e) ==
  /\ MayPublish(r, e)
  /\ Full(graph)
  /\ Stages(r)
  /\ artifacts' = [artifacts EXCEPT ![r.id] = Building(r)]
  /\ accounts' = Staged(r)
  /\ UNCHANGED <<graph, index, nextGeneration, authority, history>>

(* The i-th dependency is refused: what came before it stays, and so does  *)
(* its node when there was room for one.                                   *)
PublishRefusedAt(r, i, e) ==
  /\ MayPublish(r, e)
  /\ ~Full(graph)
  /\ DependencyRefused(r, i)
  /\ \A j \in 1..(i - 1) : ~DependencyRefused(r, j)
  /\ Stages(r)
  /\ artifacts' = [artifacts EXCEPT ![r.id] = Building(r)]
  /\ graph' = AddNodes(Linked(r, i), IF NoRoomFor(r, i) THEN {} ELSE {r.deps[i]})
  /\ accounts' = Staged(r)
  /\ UNCHANGED <<index, nextGeneration, authority, history>>

-----------------------------------------------------------------------------
(* validate_artifact, promote, supersede, quarantine. *)

ValidationTarget(report) == IF AllOk(report) THEN "VALID" ELSE "FAILED"

MayEdit(a, e) ==
  /\ Fenced(e)
  /\ Registered(a)
  /\ GenerationCurrent(e, artifacts[a].generation)

Validate(a, report, e) ==
  /\ MayEdit(a, e)
  /\ Moves(a, [artifacts[a] EXCEPT !.validation = report.state], ValidationTarget(report))
  /\ UNCHANGED <<graph, store, accounts, nextGeneration, authority, history>>

ValidateRefused(a, report, e) ==
  /\ MayEdit(a, e)
  /\ Refuses(a, [artifacts[a] EXCEPT !.validation = report.state], ValidationTarget(report))
  /\ UNCHANGED <<graph, store, accounts, nextGeneration, authority, history>>

Promote(a, e) ==
  /\ MayEdit(a, e)
  /\ Moves(a, artifacts[a], "ACTIVE")
  /\ UNCHANGED <<graph, store, accounts, nextGeneration, authority, history>>

PromoteRefused(a, e) ==
  /\ MayEdit(a, e)
  /\ Refuses(a, artifacts[a], "ACTIVE")
  /\ UNCHANGED <<graph, store, accounts, nextGeneration, authority, history>>

(* The envelope's generation is held against the successor's. *)
MaySupersede(old, new, e) ==
  /\ Fenced(e)
  /\ Registered(old) /\ Registered(new)
  /\ artifacts[old].lifecycle \notin {"RETIRED", "EVICTED"}
  /\ GenerationCurrent(e, artifacts[new].generation)

(* A slip: the pair is recorded the wrong way round. *)
RecordsReversed(pair) ==
  /\ supersessions' = supersessions \cup {<<pair[2], pair[1]>>}
  /\ accounts' = [accounts EXCEPT !.supersessions = @ + 1]

Records(pair) ==
  /\ supersessions' = supersessions \cup {pair}
  /\ accounts' = [accounts EXCEPT !.supersessions = @ + 1]

Supersede(old, new, e) ==
  /\ MaySupersede(old, new, e)
  /\ Moves(old, artifacts[old], "SUPERSEDED")
  /\ Records(<<old, new>>)
  /\ UNCHANGED <<graph, store, nextGeneration, authority, cause, quarantineRecords>>

SupersedeRefused(old, new, e) ==
  /\ MaySupersede(old, new, e)
  /\ Refuses(old, artifacts[old], "SUPERSEDED")
  /\ UNCHANGED <<graph, store, accounts, nextGeneration, authority, history>>

(* quarantine asks for no artifact generation. *)
Quarantine(a, e) ==
  /\ Fenced(e) /\ Registered(a)
  /\ Moves(a, [artifacts[a] EXCEPT !.validation = "QUARANTINED"], "QUARANTINED")
  /\ quarantineRecords' = quarantineRecords \cup {a}
  /\ UNCHANGED <<graph, store, accounts, nextGeneration, authority, supersessions, cause>>

QuarantineRefused(a, e) ==
  /\ Fenced(e) /\ Registered(a)
  /\ Refuses(a, [artifacts[a] EXCEPT !.validation = "QUARANTINED"], "QUARANTINED")
  /\ UNCHANGED <<graph, store, accounts, nextGeneration, authority, history>>

-----------------------------------------------------------------------------
(* invalidate and invalidate_dependents. *)

(* The artifacts propagation transitions; it passes over the others. *)
Invalidatable(a) == artifacts[a].lifecycle \notin {"ABSENT", "INVALIDATED", "RETIRED", "EVICTED"}

(* The order in which a set of dependents is visited: dependents() sorts   *)
(* by id, and each visit first deals with the dependents of the one it     *)
(* has just invalidated.                                                   *)
VisitOrder(S) ==
  LET order[T \in SUBSET S] ==
        IF T = {} THEN << >>
        ELSE LET first == CHOOSE m \in T : \A x \in T : m <= x
                 beyond == Dependents(graph, first)
             IN  <<first>> \o order[(T \ {first}) \cap beyond]
                           \o order[(T \ {first}) \ beyond]
  IN  order[S]

(* A slip: the edges are followed the wrong way. *)
VisitsOfDependencies(a) ==
  (IF Invalidatable(a) THEN <<a>> ELSE << >>)
    \o VisitOrder({x \in TransitiveDependencies(graph, a) : Invalidatable(x)})

(* A slip: only what depends on the artifact directly is visited. *)
DirectVisits(a) ==
  (IF Invalidatable(a) THEN <<a>> ELSE << >>)
    \o VisitOrder({x \in graph.nodes : a \in graph.out[x] /\ Invalidatable(x)})

Visits(a) ==
  (IF Invalidatable(a) THEN <<a>> ELSE << >>)
    \o VisitOrder({x \in Dependents(graph, a) : Invalidatable(x)})

(* The visit to a is where apply_transition throws. *)
Blocks(a) == ~CanTransition(artifacts[a].lifecycle, "INVALIDATED")

EntriesOf(S) == UNION {IndexEntries(a, artifacts[a]) : a \in S}

(* A slip: the cause is noted before apply_transition has its say. *)
InvalidatesNotingFirst(hit, stuck, c) ==
  /\ artifacts' = [a \in Artifacts |->
                     IF a \in hit THEN [artifacts[a] EXCEPT !.lifecycle = "INVALIDATED"]
                                  ELSE artifacts[a]]
  /\ index' = index \ EntriesOf(hit \cup stuck)
  /\ cause' = [a \in Artifacts |-> IF a \in hit \cup stuck THEN c ELSE cause[a]]
  /\ accounts' = [accounts EXCEPT !.invalidations = @ + Cardinality(hit)]

(* The artifacts in hit become INVALIDATED for reason c; one in stuck has  *)
(* left the indexes and not come back.                                     *)
Invalidates(hit, stuck, c) ==
  /\ artifacts' = [a \in Artifacts |->
                     IF a \in hit THEN [artifacts[a] EXCEPT !.lifecycle = "INVALIDATED"]
                                  ELSE artifacts[a]]
  /\ index' = (index \ EntriesOf(hit \cup stuck))
                 \cup UNION {IndexEntries(a, [artifacts[a] EXCEPT !.lifecycle = "INVALIDATED"])
                               : a \in hit}
  /\ cause' = [a \in Artifacts |-> IF a \in hit THEN c ELSE cause[a]]
  /\ accounts' = [accounts EXCEPT !.invalidations = @ + Cardinality(hit)]

Invalidate(a, c, e) ==
  LET visits == Visits(a)
  IN  /\ MayEdit(a, e)
      /\ \A i \in 1..Len(visits) : ~Blocks(visits[i])
      /\ Invalidates({x \in Artifacts : \E i \in 1..Len(visits) : visits[i] = x}, {}, c)
      /\ UNCHANGED <<graph, store, nextGeneration, authority, supersessions, quarantineRecords>>

(* The exception thrown at the i-th visit ends the propagation: what was   *)
(* visited before it stays invalidated and the rest is never reached.      *)
InvalidateStoppedAt(a, i, c, e) ==
  LET visits == Visits(a)
  IN  /\ MayEdit(a, e)
      /\ i \in 1..Len(visits)
      /\ Blocks(visits[i])
      /\ \A j \in 1..(i - 1) : ~Blocks(visits[j])
      /\ Invalidates({x \in Artifacts : \E j \in 1..(i - 1) : visits[j] = x}, {visits[i]}, c)
      /\ UNCHANGED <<graph, store, nextGeneration, authority, supersessions, quarantineRecords>>

-----------------------------------------------------------------------------
(* retire. *)

(* The artifact gives up the last reference to its content. *)
ReleasesLast(d) == d.content \in backed /\ Dropped(refs[d.content]) = 0

Released(d) ==
  IF d.content \in backed THEN [refs EXCEPT ![d.content] = Dropped(@)] ELSE refs

(* The physical accounts once a last reference is gone. *)
Unbacked(d) ==
  IF ReleasesLast(d)
  THEN [accounts EXCEPT !.physicalBacking = @ - 1, !.physicalBytes = @ - Bytes[d.content]]
  ELSE accounts

(* The guarded counters that would go negative, in the order they move. *)
ShortOfPhysicalBytes(d) == ReleasesLast(d) /\ accounts.physicalBytes < Bytes[d.content]

(* A slip: the guard of add_logical_bytes is gone. *)
NeverShort(d) == FALSE

ShortOfLogicalBytes(d) == accounts.logicalBytes < d.size

ShortOfReferences == accounts.activeReferences < 1

(* retire up to the store's reference count. *)
Retires(a, e) ==
  /\ Fenced(e) /\ Registered(a)
  /\ CanTransition(artifacts[a].lifecycle, "RETIRED")
  /\ artifacts' = [artifacts EXCEPT ![a].lifecycle = "RETIRED"]
  /\ refs' = Released(artifacts[a])
  /\ UNCHANGED <<graph, nextGeneration, authority, history>>

(* The store entry goes with its last reference. *)
Erases(d) == backed' = IF ReleasesLast(d) THEN backed \ {d.content} ELSE backed

Retire(a, e) ==
  LET d == artifacts[a]
  IN  /\ Retires(a, e)
      /\ ~ShortOfPhysicalBytes(d) /\ ~ShortOfLogicalBytes(d) /\ ~ShortOfReferences
      /\ Erases(d)
      /\ index' = (index \ IndexEntries(a, d))
                     \cup IndexEntries(a, [d EXCEPT !.lifecycle = "RETIRED"])
      /\ accounts' = [Unbacked(d) EXCEPT !.logicalArtifacts = @ - 1, !.logicalBytes = @ - d.size,
                                         !.activeReferences = @ - 1]

RetireRefused(a, e) ==
  /\ Fenced(e) /\ Registered(a)
  /\ Refuses(a, artifacts[a], "RETIRED")
  /\ UNCHANGED <<graph, store, accounts, nextGeneration, authority, history>>

(* A guarded counter throws: the artifact is RETIRED, out of the indexes,  *)
(* and the accounts keep what moved before.  physical_bytes comes first,   *)
(* ahead of the erasure, and leaves a store entry without references.      *)
RetireShortOfPhysicalBytes(a, e) ==
  /\ Retires(a, e)
  /\ ShortOfPhysicalBytes(artifacts[a])
  /\ index' = index \ IndexEntries(a, artifacts[a])
  /\ accounts' = [accounts EXCEPT !.physicalBacking = @ - 1]
  /\ UNCHANGED backed

RetireShortOfLogical(a, e) ==
  LET d == artifacts[a]
  IN  /\ Retires(a, e)
      /\ ~ShortOfPhysicalBytes(d)
      /\ Erases(d)
      /\ index' = index \ IndexEntries(a, d)
      /\ \/ /\ ShortOfLogicalBytes(d)
            /\ accounts' = [Unbacked(d) EXCEPT !.logicalArtifacts = @ - 1]
         \/ /\ ~ShortOfLogicalBytes(d) /\ ShortOfReferences
            /\ accounts' = [Unbacked(d) EXCEPT !.logicalArtifacts = @ - 1,
                                               !.logicalBytes = @ - d.size]

-----------------------------------------------------------------------------
(* rebuild_indexes. *)
RebuildIndexes ==
  /\ index' = EntriesOf({a \in Artifacts : Registered(a)})
  /\ UNCHANGED <<artifacts, graph, store, accounts, nextGeneration, authority, history>>

-----------------------------------------------------------------------------
Publishes(r, e) ==
  \/ Publish(r, e) \/ PublishOverflowing(r, e) \/ PublishWithoutNode(r, e)
  \/ \E i \in 1..Len(r.deps) : PublishRefusedAt(r, i, e)

Edits(a, e) ==
  \/ \E report \in Reports : Validate(a, report, e) \/ ValidateRefused(a, report, e)
  \/ Promote(a, e) \/ PromoteRefused(a, e)
  \/ \E new \in Artifacts : Supersede(a, new, e) \/ SupersedeRefused(a, new, e)
  \/ Quarantine(a, e) \/ QuarantineRefused(a, e)
  \/ \E c \in Causes : Invalidate(a, c, e)
  \/ \E c \in Causes, i \in 1..Len(Visits(a)) : InvalidateStoppedAt(a, i, c, e)
  \/ Retire(a, e) \/ RetireRefused(a, e)
  \/ RetireShortOfPhysicalBytes(a, e) \/ RetireShortOfLogical(a, e)

Next ==
  \/ \E b \in Boots : SetAuthority(b) \/ RollEpoch(b)
  \/ \E r \in RegisterRequests, e \in Envelopes : Register(r, e)
  \/ \E r \in PublishRequests, e \in Envelopes : Publishes(r, e)
  \/ \E a \in Artifacts, e \in Envelopes : Edits(a, e)
  \/ RebuildIndexes

Spec == Init /\ [][Next]_vars

-----------------------------------------------------------------------------
(* reuse, for a requirement that asks nothing of the descriptor's fields:  *)
(* what check_reuse and evaluate_compatibility still insist on.            *)
Fresh(a) == artifacts[a].lifecycle \notin {"ABSENT", "INVALIDATED", "RETIRED", "EVICTED", "QUARANTINED"}

Reusable(a) ==
  /\ Registered(a)
  /\ artifacts[a].lifecycle \notin Withdrawn \cup {"STALE"}
  /\ artifacts[a].validation \in {"VALID", "INTEGRITY_OK"}
  /\ \A i \in 1..Len(artifacts[a].deps) : Fresh(artifacts[a].deps[i])

-----------------------------------------------------------------------------
(* The records, the accounts and the rest have the types the code declares,*)
(* and the counters Accountant guards (accounting.hpp:46-61) stay at zero  *)
(* or above whatever mixture of refused and half-done calls came before.   *)
TypeOK ==
  /\ artifacts \in [Artifacts -> Descriptors \cup {Absent}]
  /\ graph \in Graphs
  /\ backed \in SUBSET Contents
  /\ refs \in [Contents -> 0..(RefModulus - 1)]
  /\ accounts \in Accounts
  /\ nextGeneration \in 0..MaxGeneration
  /\ epoch \in 0..MaxEpoch
  /\ boot \in Boots \cup {NoBoot}
  /\ supersessions \subseteq Artifacts \X Artifacts
  /\ cause \in [Artifacts -> Causes \cup {NoCause}]
  /\ quarantineRecords \subseteq Artifacts

(* The indexes never lie: an artifact is filed under exactly its current   *)
(* content, lifecycle and validation state, or it is in no index at all    *)
(* (catalog.cpp:83-114).  Every operation edits the record between its     *)
(* remove_from_indexes and its add_to_indexes, so one that removed after   *)
(* the edit, or forgot to, would leave by_lifecycle or by_validation       *)
(* answering with artifacts that moved on long ago.                        *)
IndexesAgree ==
  /\ \A entry \in index : Registered(entry[3]) /\ entry \in IndexEntries(entry[3], artifacts[entry[3]])
  /\ \A a \in Artifacts : Registered(a) =>
       \/ IndexEntries(a, artifacts[a]) \subseteq index
       \/ IndexEntries(a, artifacts[a]) \cap index = {}

(* The graph the catalog builds while publishing is acyclic and well       *)
(* formed even when publications are refused half way through their        *)
(* dependencies (catalog.cpp:250-255).                                     *)
GraphSound == Acyclic(graph) /\ EdgesJoinNodes(graph) /\ InMirrorsOut(graph)

(* reuse reads the dependencies from the record, invalidate reads them     *)
(* from the graph: for whatever was published the two are the same, so     *)
(* no dependency reuse relies on is invisible to invalidation.             *)
DependenciesInGraph ==
  \A a \in Artifacts :
    artifacts[a].lifecycle \in Live \cup {"INVALIDATED", "SUPERSEDED"} =>
      graph.out[a] = {artifacts[a].deps[i] : i \in 1..Len(artifacts[a].deps)}

Holders(c) ==
  {a \in Artifacts : Registered(a) /\ artifacts[a].lifecycle # "RETIRED" /\ artifacts[a].content = c}

(* Content addressing never frees bytes still in use and never keeps a     *)
(* reference nobody holds: the reference count of a digest is the number   *)
(* of unretired records with that digest, half-done publications included, *)
(* and as long as there is one the bytes are in the store.  Holds when     *)
(* registrations carry no digest of their own.                             *)
ReferencesExact ==
  \A c \in Contents :
    /\ refs[c] = Cardinality(Holders(c))
    /\ Holders(c) # {} => c \in backed

(* The sum of f over a set. *)
Total(f, S) == MapThenSumSet(LAMBDA x : f[x], S)

Unretired == {a \in Artifacts : Registered(a) /\ artifacts[a].lifecycle # "RETIRED"}

(* When every publication goes through and declares its true size, the     *)
(* accounts are the catalog: artifacts and their bytes as the callers see  *)
(* them, backing and its bytes as stored once per content, one active      *)
(* reference per artifact, and shared bytes never negative                 *)
(* (accounting() reports their difference as dedup_bytes).                 *)
AccountsExact ==
  /\ accounts.logicalArtifacts = Cardinality(Unretired)
  /\ accounts.activeReferences = Cardinality(Unretired)
  /\ accounts.logicalBytes = Total([a \in Unretired |-> artifacts[a].size], Unretired)
  /\ accounts.physicalBacking = Cardinality(backed)
  /\ accounts.physicalBytes = Total(Bytes, backed)
  /\ accounts.logicalBytes >= accounts.physicalBytes

(* A supersession is recorded if and only if the old artifact went through *)
(* SUPERSEDED, at most once, so the superseded_by of explain names one     *)
(* successor and superseded artifacts never lack it.                       *)
SupersessionRecorded ==
  /\ \A a \in Artifacts :
       artifacts[a].lifecycle = "SUPERSEDED" => \E b \in Artifacts : <<a, b>> \in supersessions
  /\ \A p, q \in supersessions : p[1] = q[1] => p = q
  /\ \A p \in supersessions : artifacts[p[1]].lifecycle \in {"SUPERSEDED", "QUARANTINED", "RETIRED"}

(* explain can always say why: an invalidated artifact has a recorded      *)
(* cause, only artifacts that went through INVALIDATED have one, and the   *)
(* invalidation counter counts them once each (catalog.cpp:419-436).       *)
CauseRecorded ==
  /\ \A a \in Artifacts :
       /\ artifacts[a].lifecycle = "INVALIDATED" => cause[a] # NoCause
       /\ cause[a] # NoCause => artifacts[a].lifecycle \in {"INVALIDATED", "QUARANTINED", "RETIRED"}
  /\ accounts.invalidations = Cardinality({a \in Artifacts : cause[a] # NoCause})

(* Nothing withdrawn comes back: superseded, invalidated, quarantined and  *)
(* retired artifacts stay out of circulation for good, through any further *)
(* calls (the table of lifecycle.hpp together with which target states the *)
(* operations ask for).                                                    *)
WithdrawnForGood ==
  [][\A a \in Artifacts : artifacts[a].lifecycle \in Withdrawn => artifacts'[a].lifecycle \in Withdrawn]_vars

NewlyInvalid ==
  {a \in Artifacts : artifacts[a].lifecycle # "INVALIDATED" /\ artifacts'[a].lifecycle = "INVALIDATED"}

InvalidateCall(a, c, e) ==
  Invalidate(a, c, e) \/ \E i \in 1..Len(Visits(a)) : InvalidateStoppedAt(a, i, c, e)

(* Invalidation reaches relevant dependents only, even when it ends in an  *)
(* exception: whatever a call invalidates is the artifact it names or      *)
(* depends on it, however far away, and records the cause the call gave.   *)
InvalidatesOnlyDependents ==
  [][NewlyInvalid # {} => \A a \in Artifacts, c \in Causes, e \in Envelopes :
       InvalidateCall(a, c, e) =>
         \A x \in NewlyInvalid : x \in {a} \cup Dependents(graph, a) /\ cause'[x] = c]_vars

(* An invalidate call that returns has reached everything: no artifact     *)
(* that depends on the one it names, through any chain, is still live.     *)
InvalidationComplete ==
  [][NewlyInvalid # {} => \A a \in Artifacts, c \in Causes, e \in Envelopes :
       Invalidate(a, c, e) =>
         \A x \in {a} \cup Dependents(graph, a) : artifacts'[x].lifecycle \notin Live]_vars

(* -- What the documentation promises and the code does not keep. -- *)

(* README.md:86: a failure before the commit never becomes authoritative,  *)
(* so what reuse hands out was published.                                  *)
ReusableWasPublished ==
  \A a \in Artifacts : Reusable(a) => artifacts[a].lifecycle \in Live
=============================================================================
