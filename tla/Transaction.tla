----------------------------- MODULE Transaction -----------------------------
(***************************************************************************)
(* Staged publication (Catalog::PublishTransaction, catalog.cpp:280-363):  *)
(* reserve, produce, validate_publish, verify_dependencies, commit, abort, *)
(* each a call with a lock of its own, so that other transactions and any  *)
(* other call on the catalog come in between.                              *)
(*                                                                         *)
(* The catalog asks for no order: it neither remembers which step a        *)
(* transaction has reached nor asks the lifecycle table before it moves    *)
(* the record on.  The order is the client's, the one README.md:84 gives,  *)
(* and stage is where each client is in it.  A client keeps the envelope   *)
(* it began with, gives up when a step is refused, and may give up at any  *)
(* time before the commit.                                                 *)
(***************************************************************************)
EXTENDS Catalog

CONSTANTS
  Handles,          \* the clients, one PublishTransaction object at a time each
  StagedRequests,   \* what they may set out to publish
  Delivers          \* what their producers may deliver for a planned content

ASSUME HandlesAssumption == IsFiniteSet(Handles)
(* A descriptor may already name a digest; content is what its producer is *)
(* to deliver.                                                             *)
Plans ==
  [id : Artifacts, content : Contents, digest : Contents \cup {NoContent}, deps : Seq(Artifacts),
   generation : 0..MaxGeneration, size : Nat, validation : ValidationStates]

ASSUME StagedAssumption ==
  /\ StagedRequests \subseteq Plans
  /\ Delivers \in [Contents -> SUBSET Contents]

VARIABLES
  reservations,   \* Accounting::build_reservations
  tempBytes,      \* Accounting::temporary_publication_bytes
  reservedBytes,  \* reserved_bytes, in each transaction object
  stage,          \* how far each client has come
  plan,           \* what each client set out to publish, under which authority
  asPlanned,      \* every delivery so far had the size that was planned
  overdrawn       \* an abort gave back a reference its transaction never took

reserved == <<reservations, tempBytes, reservedBytes>>
clients == <<stage, plan, asPlanned, overdrawn>>
stagedVars == <<vars, reserved, clients>>

Places == {"idle", "reserved", "produced", "validated", "verified", "refused"}

NoPlan == [epoch |-> 0]

StagedInit ==
  /\ Init
  /\ reservations = 0
  /\ tempBytes = 0
  /\ reservedBytes = [h \in Handles |-> 0]
  /\ stage = [h \in Handles |-> "idle"]
  /\ plan = [h \in Handles |-> NoPlan]
  /\ asPlanned = TRUE
  /\ overdrawn = FALSE

Open(h) == stage[h] # "idle"

(* The artifact a client works on. *)
Id(h) == plan[h].request.id

At(h, place) == stage[h] = place /\ Fenced(plan[h]) /\ Registered(Id(h))

Reaches(h, place) == stage' = [stage EXCEPT ![h] = place]

Ends(h) == Reaches(h, "idle") /\ plan' = [plan EXCEPT ![h] = NoPlan]

-----------------------------------------------------------------------------
(* reserve, on a new transaction object.  The next generation is raised    *)
(* before the id is looked up, and stays raised for a duplicate.           *)
RaisedBy(r) ==
  IF r.generation # 0 /\ r.generation >= nextGeneration THEN r.generation + 1 ELSE nextGeneration

MayReserve(h, r, e) ==
  /\ ~Open(h)
  /\ Fenced(e)
  /\ RaisedBy(r) <= MaxGeneration
  /\ nextGeneration' = RaisedBy(r)

Reserve(h, r, e) ==
  /\ MayReserve(h, r, e)
  /\ ~Registered(r.id)
  /\ reservations' = reservations + 1
  /\ tempBytes' = tempBytes + Bytes[r.content]
  /\ artifacts' = [artifacts EXCEPT ![r.id] =
                     [lifecycle |-> "BUILDING", validation |-> r.validation,
                      generation |-> r.generation, content |-> r.digest,
                      deps |-> r.deps, size |-> r.size]]
  /\ reservedBytes' = [reservedBytes EXCEPT ![h] = Bytes[r.content]]
  /\ plan' = [plan EXCEPT ![h] = [request |-> r, epoch |-> e.epoch, boot |-> e.boot]]
  /\ Reaches(h, "reserved")
  /\ UNCHANGED <<graph, index, store, accounts, authority, history, asPlanned, overdrawn>>

ReserveRefused(h, r, e) ==
  /\ MayReserve(h, r, e)
  /\ Registered(r.id)
  /\ UNCHANGED <<artifacts, graph, index, store, accounts, authority, history, reserved, clients>>

(* produce: the temporary bytes that reserve took are not adjusted. *)
Produce(h, c) ==
  /\ At(h, "reserved")
  /\ c \in Delivers[plan[h].request.content]
  /\ artifacts' = [artifacts EXCEPT ![Id(h)].content = c, ![Id(h)].lifecycle = "VALIDATING"]
  /\ Stages([content |-> c])
  /\ reservedBytes' = [reservedBytes EXCEPT ![h] = Bytes[c]]
  /\ asPlanned' = (asPlanned /\ Bytes[c] = Bytes[plan[h].request.content])
  /\ Reaches(h, "produced")
  /\ UNCHANGED <<graph, index, accounts, nextGeneration, authority, history,
                 reservations, tempBytes, plan, overdrawn>>

(* A slip: the record is filed under its new states, as validate_artifact   *)
(* would do it.                                                            *)
ValidatesAndFiles(h, report) ==
  /\ At(h, "produced")
  /\ artifacts' = [artifacts EXCEPT ![Id(h)].validation = report.state,
                                    ![Id(h)].lifecycle = ValidationTarget(report)]
  /\ index' = index \cup IndexEntries(Id(h), artifacts'[Id(h)])
  /\ Reaches(h, IF AllOk(report) THEN "validated" ELSE "refused")
  /\ UNCHANGED <<graph, store, accounts, nextGeneration, authority, history,
                 reserved, plan, asPlanned, overdrawn>>

(* validate_publish: the report decides, whatever the record was before. *)
ValidatePublish(h, report) ==
  /\ At(h, "produced")
  /\ artifacts' = [artifacts EXCEPT ![Id(h)].validation = report.state,
                                    ![Id(h)].lifecycle = ValidationTarget(report)]
  /\ Reaches(h, IF AllOk(report) THEN "validated" ELSE "refused")
  /\ UNCHANGED <<graph, index, store, accounts, nextGeneration, authority, history,
                 reserved, plan, asPlanned, overdrawn>>

-----------------------------------------------------------------------------
(* verify_dependencies: the record's own dependencies, its node only when  *)
(* it is missing, and an exception that leaves what was added before it.   *)
Verifying(h) == [id |-> Id(h), deps |-> artifacts[Id(h)].deps]

HasNode(h) == Id(h) \in graph.nodes \/ ~Full(graph)

VerifyDependencies(h) ==
  LET v == Verifying(h)
  IN  /\ At(h, "validated")
      /\ HasNode(h)
      /\ \A i \in 1..Len(v.deps) : ~DependencyRefused(v, i)
      /\ graph' = Linked(v, Len(v.deps) + 1)
      /\ Reaches(h, "verified")
      /\ UNCHANGED <<artifacts, index, store, accounts, nextGeneration, authority, history,
                     reserved, plan, asPlanned, overdrawn>>

VerifyRefused(h) ==
  LET v == Verifying(h)
  IN  /\ At(h, "validated")
      /\ HasNode(h)
      /\ \E i \in 1..Len(v.deps) :
           /\ DependencyRefused(v, i)
           /\ \A j \in 1..(i - 1) : ~DependencyRefused(v, j)
           /\ graph' = AddNodes(Linked(v, i), IF NoRoomFor(v, i) THEN {} ELSE {v.deps[i]})
      /\ Reaches(h, "refused")
      /\ UNCHANGED <<artifacts, index, store, accounts, nextGeneration, authority, history,
                     reserved, plan, asPlanned, overdrawn>>

VerifyWithoutNode(h) ==
  /\ At(h, "validated")
  /\ ~HasNode(h)
  /\ Reaches(h, "refused")
  /\ UNCHANGED <<vars, reserved, plan, asPlanned, overdrawn>>

-----------------------------------------------------------------------------
(* commit: PUBLISHED whatever the record had become in the meantime. *)
CommitSize(h) ==
  IF artifacts[Id(h)].size # 0 THEN artifacts[Id(h)].size ELSE reservedBytes[h]

(* A slip: the build reservation is not released. *)
KeepsReservation(h) ==
  /\ reservations > 0 /\ tempBytes >= reservedBytes[h]
  /\ tempBytes' = tempBytes - reservedBytes[h]
  /\ UNCHANGED reservations

(* The reservation and the temporary bytes are given back. *)
Releases(h) ==
  /\ reservations > 0 /\ tempBytes >= reservedBytes[h]
  /\ reservations' = reservations - 1
  /\ tempBytes' = tempBytes - reservedBytes[h]

(* release_build or add_temp_publication_bytes throws. *)
CannotRelease(h) ==
  \/ reservations = 0 /\ UNCHANGED <<reservations, tempBytes>>
  \/ /\ reservations > 0 /\ tempBytes < reservedBytes[h]
     /\ reservations' = reservations - 1
     /\ UNCHANGED tempBytes

CommittedAccounts(h) ==
  [accounts EXCEPT !.logicalArtifacts = @ + 1, !.logicalBytes = @ + CommitSize(h),
                   !.activeReferences = @ + 1,
                   !.physicalBacking = @ + 1, !.physicalBytes = @ + CommitSize(h)]

Commits(h) == [artifacts[Id(h)] EXCEPT !.lifecycle = "PUBLISHED"]

Commit(h) ==
  /\ At(h, "verified")
  /\ Releases(h)
  /\ artifacts' = [artifacts EXCEPT ![Id(h)] = Commits(h)]
  /\ accounts' = CommittedAccounts(h)
  /\ index' = index \cup IndexEntries(Id(h), Commits(h))
  /\ Ends(h)
  /\ UNCHANGED <<graph, store, nextGeneration, authority, history, reservedBytes, asPlanned, overdrawn>>

CommitRefused(h) ==
  /\ At(h, "verified")
  /\ CannotRelease(h)
  /\ artifacts' = [artifacts EXCEPT ![Id(h)] = Commits(h)]
  /\ Reaches(h, "refused")
  /\ UNCHANGED <<graph, index, store, accounts, nextGeneration, authority, history,
                 reservedBytes, plan, asPlanned, overdrawn>>

-----------------------------------------------------------------------------
(* abort: no authority asked, no look at the lifecycle; the record and the *)
(* reference its content holds go, the edges stay.  The digest a           *)
(* descriptor came with is given back too, before anything was produced    *)
(* for it.                                                                 *)

(* A slip: the content's reference is kept. *)
ForgetsRecordOnly(h) ==
  /\ artifacts' = [artifacts EXCEPT ![Id(h)] = Absent]
  /\ UNCHANGED store

(* A slip: the record is kept. *)
ForgetsContentOnly(h) ==
  /\ refs' = Released(artifacts[Id(h)])
  /\ Erases(artifacts[Id(h)])
  /\ UNCHANGED artifacts

Forgets(h) ==
  /\ artifacts' = [artifacts EXCEPT ![Id(h)] = Absent]
  /\ refs' = Released(artifacts[Id(h)])
  /\ Erases(artifacts[Id(h)])

TakesBackTooMuch(h) == stage[h] = "reserved" /\ artifacts[Id(h)].content \in backed

Abort(h) ==
  /\ Open(h)
  /\ Forgets(h)
  /\ overdrawn' = (overdrawn \/ TakesBackTooMuch(h))
  /\ Releases(h)
  /\ Ends(h)
  /\ UNCHANGED <<graph, index, accounts, nextGeneration, authority, history,
                 reservedBytes, asPlanned>>

AbortRefused(h) ==
  /\ Open(h)
  /\ Forgets(h)
  /\ overdrawn' = (overdrawn \/ TakesBackTooMuch(h))
  /\ CannotRelease(h)
  /\ Ends(h)
  /\ UNCHANGED <<graph, index, accounts, nextGeneration, authority, history,
                 reservedBytes, asPlanned>>

-----------------------------------------------------------------------------
Step(h) ==
  \/ \E r \in StagedRequests, e \in Envelopes : Reserve(h, r, e) \/ ReserveRefused(h, r, e)
  \/ \E c \in Contents : Produce(h, c)
  \/ \E report \in Reports : ValidatePublish(h, report)
  \/ VerifyDependencies(h) \/ VerifyRefused(h) \/ VerifyWithoutNode(h)
  \/ Commit(h) \/ CommitRefused(h)
  \/ Abort(h) \/ AbortRefused(h)

Claimed(a) == \E h \in Handles : Open(h) /\ Id(h) = a

(* Everybody else.  An artifact is in no index before its commit and its   *)
(* id is its client's, so the calls that name an artifact name others;     *)
(* invalidation reaches it all the same, along the edges.  The calls left  *)
(* out change no more than the lifecycle of the artifact they name.        *)
Withdraws(a, e) ==
  \/ \E c \in Causes : Invalidate(a, c, e)
  \/ \E c \in Causes, i \in 1..Len(Visits(a)) : InvalidateStoppedAt(a, i, c, e)
  \/ Retire(a, e) \/ RetireRefused(a, e)
  \/ RetireShortOfPhysicalBytes(a, e) \/ RetireShortOfLogical(a, e)

Others ==
  \/ \E b \in Boots : SetAuthority(b) \/ RollEpoch(b)
  \/ \E r \in PublishRequests, e \in Envelopes : Publishes(r, e)
  \/ \E a \in Artifacts, e \in Envelopes : ~Claimed(a) /\ Withdraws(a, e)

StagedNext ==
  \/ \E h \in Handles : Step(h)
  \/ Others /\ UNCHANGED <<reserved, clients>>

StagedSpec == StagedInit /\ [][StagedNext]_stagedVars

-----------------------------------------------------------------------------
OpenHandles == {h \in Handles : Open(h)}

(* No reservation is leaked and none is released twice, however many       *)
(* transactions overlap and wherever each of them ends: the counters       *)
(* reserve raised (catalog.cpp:294-295) are what the open ones hold, so    *)
(* the exceptions of release_build and add_temp_publication_bytes are      *)
(* never thrown.  Holds as long as deliveries have the planned size.       *)
ReservationsExact ==
  asPlanned =>
    /\ reservations = Cardinality(OpenHandles)
    /\ tempBytes = Total(reservedBytes, OpenHandles)

(* The records whose content is still to be produced. *)
Undelivered == {Id(h) : h \in {k \in Handles : stage[k] = "reserved"}}

Carriers(c) == Holders(c) \ Undelivered

(* Overlapping publications, staged and direct, account for every          *)
(* reference, wherever each of them ends: the count of a digest is the     *)
(* number of unretired records that have it, but for those that name it    *)
(* and have had nothing produced yet, and its bytes are stored as long as  *)
(* there is one (catalog.cpp:309-311, 356-358).  Holds until a transaction *)
(* aborted before produce gives back the reference to a stored digest its  *)
(* descriptor came with (catalog.cpp:287-296): it never took that one.     *)
StagedReferencesExact ==
  ~overdrawn => \A c \in Contents :
    /\ refs[c] = Cardinality(Carriers(c))
    /\ Carriers(c) # {} => c \in backed

(* An abort cleans up: outside the open transactions there is no record    *)
(* half way to publication, whichever step was refused and whatever        *)
(* authority was rolled meanwhile (README.md:86-87).  A direct publication  *)
(* that is refused does leave such a record, and is not what this says.    *)
NoLeftovers ==
  \A a \in {r.id : r \in StagedRequests} \ {r.id : r \in PublishRequests} :
    artifacts[a].lifecycle \in {"BUILDING", "VALIDATING", "VALID", "FAILED"} => Claimed(a)

(* Lookups do not find what is not committed: an artifact that is being    *)
(* staged is in an index only when an invalidation came along its edges    *)
(* and put it there (catalog.cpp:419-436 against 309-351).                 *)
StagedStaysHidden ==
  \A entry \in index : Claimed(entry[3]) => cause[entry[3]] # NoCause

(* -- What the documentation promises and the code does not keep. -- *)

(* README.md:94-97: the transition table is enforced, illegal transitions  *)
(* fail.  No record goes from one state to another that is not in its row. *)
TransitionsAreLegal ==
  [][\A a \in Artifacts :
       Registered(a) /\ artifacts'[a] \notin {Absent, artifacts[a]} =>
         \/ artifacts'[a].lifecycle = artifacts[a].lifecycle
         \/ CanTransition(artifacts[a].lifecycle, artifacts'[a].lifecycle)]_stagedVars
=============================================================================
