--------------------------- MODULE Catalog_proofs ---------------------------
(***************************************************************************)
(* Proofs about the catalog, for every set of artifacts, contents and      *)
(* requests, each about the catalog alone (Spec), the catalog with staged  *)
(* publications (StagedSpec) or the catalog with restarts (PersistentSpec).*)
(*                                                                         *)
(*   - types, the counters that never go below zero, a sound graph         *)
(*   - the indexes agree with the records; withdrawn is withdrawn for good *)
(*   - supersessions and causes of invalidations stay on record            *)
(*   - reference counts are exact                                          *)
(*   - the graph has the dependencies the records have                     *)
(*   - restarts keep both, and what was published to its end loads again   *)
(*   - staging leaves nothing behind, stays hidden, keeps references exact *)
(*   - invalidation reaches the dependents, all of them and no others      *)
(*   - reservations and accounts are the sums they stand for               *)
(*                                                                         *)
(* A proof that an invariant is kept looks at the calls by the effect they *)
(* have on the variables it speaks of (Stores, Advances, Moves, Refuses),  *)
(* never at all the calls again.                                           *)
(***************************************************************************)
EXTENDS Transaction, Persistence, GraphOps_proofs

-----------------------------------------------------------------------------
(* Types.  Only the accounts' own types depend on them, and a reload counts *)
(* them anew, so that everything else is stated of the other variables.    *)

RecordsOK ==
  /\ artifacts \in [Artifacts -> Descriptors \cup {Absent}]
  /\ graph \in Graphs
  /\ backed \in SUBSET Contents
  /\ refs \in [Contents -> 0..(RefModulus - 1)]
  /\ nextGeneration \in 0..MaxGeneration
  /\ epoch \in 0..MaxEpoch
  /\ boot \in Boots \cup {NoBoot}
  /\ supersessions \subseteq Artifacts \X Artifacts
  /\ cause \in [Artifacts -> Causes \cup {NoCause}]
  /\ quarantineRecords \subseteq Artifacts

AccountsOK == accounts \in Accounts

LEMMA TypeSplit == TypeOK <=> RecordsOK /\ AccountsOK
BY DEF TypeOK, RecordsOK, AccountsOK

LEMMA InitTypeOK == Init => RecordsOK /\ AccountsOK
BY BoundsAssumption
   DEF Init, RecordsOK, AccountsOK, Graphs, EmptyGraph, Accounts, NoAccounts

(* A record that is there is a descriptor. *)
LEMMA RegisteredDescriptor ==
  ASSUME RecordsOK, NEW a \in Artifacts, Registered(a)
  PROVE  artifacts[a] \in Descriptors
BY DEF RecordsOK, Registered

(* An edit keeps the records well typed, whether or not the transition is  *)
(* allowed.                                                                *)
LEMMA EditTypeOK ==
  ASSUME RecordsOK, NEW a \in Artifacts, NEW d \in Descriptors, NEW state \in LifecycleStates,
         Moves(a, d, state) \/ Refuses(a, d, state)
  PROVE  artifacts' \in [Artifacts -> Descriptors \cup {Absent}]
<1>1. [d EXCEPT !.lifecycle = state] \in Descriptors
  BY DEF Descriptors
<1>2. QED
  BY <1>1 DEF RecordsOK, Moves, Refuses

(* What publishing asks of its request. *)
LEMMA PublishRequestType ==
  ASSUME NEW r \in PublishRequests
  PROVE  /\ r.id \in Artifacts
         /\ r.content \in Contents
         /\ r.deps \in Seq(Artifacts)
         /\ r.generation \in 0..MaxGeneration
         /\ r.size \in Nat
         /\ r.validation \in ValidationStates
BY RequestsAssumption DEF Requests

(* What a report says of the state is one of the validation states. *)
LEMMA ReportedState ==
  ASSUME NEW report \in Reports
  PROVE  report.state \in ValidationStates
BY CallersAssumption DEF ValidationReports

LEMMA EarlierType ==
  ASSUME NEW r, r.deps \in Seq(Artifacts), NEW i \in 0..(Len(r.deps) + 1)
  PROVE  /\ Earlier(r, i) \in SUBSET Artifacts
         /\ i \in 1..Len(r.deps) => r.deps[i] \in Artifacts
BY DEF Earlier

LEMMA LinkedType ==
  ASSUME RecordsOK, NEW r, r.id \in Artifacts, r.deps \in Seq(Artifacts),
         NEW i \in 1..(Len(r.deps) + 1)
  PROVE  Linked(r, i) \in Graphs
<1>1. i \in 0..(Len(r.deps) + 1)
  OBVIOUS
<1>2. Earlier(r, i) \in SUBSET Artifacts
  BY <1>1, EarlierType
<1>3. QED
  BY <1>2 DEF RecordsOK, Linked, AddNodes, AddEdges, Graphs

LEMMA RaisedType ==
  ASSUME NEW n \in 0..(RefModulus - 1)
  PROVE  Raised(n) \in 0..(RefModulus - 1)
BY BoundsAssumption DEF Raised

(* What staging and committing add to well-typed accounts. *)
LEMMA AccountsRaised ==
  ASSUME NEW acc \in Accounts, NEW n \in Nat
  PROVE  /\ [acc EXCEPT !.physicalBacking = @ + 1, !.physicalBytes = @ + n] \in Accounts
         /\ [acc EXCEPT !.dedupBytes = @ + n] \in Accounts
         /\ [acc EXCEPT !.logicalArtifacts = @ + 1, !.logicalBytes = @ + n,
                        !.activeReferences = @ + 1] \in Accounts
<1>1. /\ acc.physicalBacking + 1 \in Int
      /\ acc.physicalBytes + n \in Nat
      /\ acc.dedupBytes + n \in Nat
      /\ acc.logicalArtifacts + 1 \in Int
      /\ acc.logicalBytes + n \in Nat
      /\ acc.activeReferences + 1 \in Nat
  BY DEF Accounts
<1>2. QED
  BY <1>1 DEF Accounts

LEMMA StagesType ==
  ASSUME RecordsOK, NEW r, r.content \in Contents, Stages(r)
  PROVE  /\ backed' \in SUBSET Contents
         /\ refs' \in [Contents -> 0..(RefModulus - 1)]
<1>1. refs[r.content] \in 0..(RefModulus - 1)
  BY DEF RecordsOK
<1>2. Raised(refs[r.content]) \in 0..(RefModulus - 1) /\ 1 \in 0..(RefModulus - 1)
  BY <1>1, RaisedType, BoundsAssumption
<1>3. QED
  BY <1>2 DEF RecordsOK, Stages

LEMMA StagedAccounts ==
  ASSUME AccountsOK, NEW r \in PublishRequests
  PROVE  Staged(r) \in Accounts /\ Committed(r) \in Accounts
<1>1. BackingSize(r) \in Nat
  BY PublishRequestType, ContentsAssumption DEF BackingSize
<1>2. Staged(r) \in Accounts
  BY <1>1, AccountsRaised DEF Staged, AccountsOK
<1>3. Committed(r) \in Accounts
  BY <1>2, PublishRequestType, AccountsRaised DEF Committed
<1>4. QED
  BY <1>2, <1>3

LEMMA PublishRecordTypes ==
  ASSUME RecordsOK, NEW r \in PublishRequests
  PROVE  /\ GenerationOf(r) \in 0..MaxGeneration
         /\ Building(r) \in Descriptors
         /\ PublishedRecord(r) \in Descriptors
<1>1. GenerationOf(r) \in 0..MaxGeneration
  BY PublishRequestType DEF GenerationOf, RecordsOK
<1>2. QED
  BY <1>1, PublishRequestType
     DEF Building, PublishedRecord, Descriptors, LifecycleStates, ValidationStates

LEMMA PublishTypeOK ==
  ASSUME RecordsOK, NEW r \in PublishRequests, NEW e \in Envelopes, Publishes(r, e)
  PROVE  RecordsOK' /\ (AccountsOK => AccountsOK')
<1> USE PublishRequestType, PublishRecordTypes
<1>1. Stages(r)
  BY DEF Publishes, Publish, PublishOverflowing, PublishesUnindexed,
         PublishWithoutNode, PublishRefusedAt
<1>2. UNCHANGED <<authority, history>>
  BY DEF Publishes, Publish, PublishOverflowing, PublishesUnindexed,
         PublishWithoutNode, PublishRefusedAt
<1>3. backed' \in SUBSET Contents /\ refs' \in [Contents -> 0..(RefModulus - 1)]
  BY <1>1, StagesType
<1>4. artifacts' \in [Artifacts -> Descriptors \cup {Absent}]
  <2>1. \/ artifacts' = [artifacts EXCEPT ![r.id] = Building(r)]
        \/ artifacts' = [artifacts EXCEPT ![r.id] = PublishedRecord(r)]
    BY DEF Publishes, Publish, PublishOverflowing, PublishesUnindexed,
           PublishWithoutNode, PublishRefusedAt
  <2>2. QED
    BY <2>1 DEF RecordsOK
<1>5. graph' \in Graphs
  <2>1. CASE PublishWithoutNode(r, e)
    BY <2>1 DEF PublishWithoutNode, RecordsOK
  <2>2. CASE PublishesUnindexed(r, e)
    BY <2>2, LinkedType DEF PublishesUnindexed
  <2>3. ASSUME NEW i \in 1..Len(r.deps), PublishRefusedAt(r, i, e)
        PROVE  graph' \in Graphs
    <3>1. Linked(r, i) \in Graphs
      BY LinkedType
    <3>2. QED
      BY <2>3, <3>1, EarlierType DEF PublishRefusedAt, AddNodes, Graphs
  <2>4. QED
    BY <2>1, <2>2, <2>3 DEF Publishes, Publish, PublishOverflowing
<1>6. ASSUME AccountsOK PROVE AccountsOK'
  <2>1. accounts' = Staged(r) \/ accounts' = Committed(r)
    BY DEF Publishes, Publish, PublishOverflowing, PublishesUnindexed,
           PublishWithoutNode, PublishRefusedAt
  <2>2. QED
    BY <1>6, <2>1, StagedAccounts DEF AccountsOK
<1>7. nextGeneration' \in 0..MaxGeneration
  <2>1. CASE Publish(r, e)
    <3>1. nextGeneration' \in {nextGeneration, GenerationOf(r) + 1}
      BY <2>1 DEF Publish
    <3>2. nextGeneration' # nextGeneration => GenerationOf(r) < MaxGeneration
      BY <2>1 DEF Publish
    <3>3. QED
      BY <3>1, <3>2, BoundsAssumption DEF RecordsOK
  <2>2. CASE UNCHANGED nextGeneration
    BY <2>2 DEF RecordsOK
  <2>3. QED
    BY <2>1, <2>2 DEF Publishes, PublishOverflowing, PublishWithoutNode, PublishRefusedAt
<1>8. QED
  BY <1>2, <1>3, <1>4, <1>5, <1>6, <1>7 DEF RecordsOK, authority, history

LEMMA RegisterTypeOK ==
  ASSUME RecordsOK, NEW r \in RegisterRequests, NEW e \in Envelopes, Register(r, e)
  PROVE  RecordsOK' /\ (AccountsOK => AccountsOK')
<1> DEFINE d == [lifecycle |-> "DECLARED", validation |-> "UNVALIDATED",
                 generation |-> r.generation, content |-> r.content,
                 deps |-> r.deps, size |-> r.size]
<1>1. d \in Descriptors /\ r.id \in Artifacts /\ r.generation \in 0..MaxGeneration
  BY RequestsAssumption DEF Requests, Descriptors, LifecycleStates, ValidationStates
<1>2. artifacts' = [artifacts EXCEPT ![r.id] = d]
  BY DEF Register
<1>3. artifacts' \in [Artifacts -> Descriptors \cup {Absent}]
  <2> HIDE DEF d
  <2> QED
    BY <1>1, <1>2 DEF RecordsOK
<1>4. nextGeneration' \in 0..MaxGeneration
  <2>1. \/ UNCHANGED nextGeneration
        \/ nextGeneration' = r.generation + 1 /\ r.generation < MaxGeneration
    BY DEF Register
  <2>2. QED
    BY <1>1, <2>1, BoundsAssumption DEF RecordsOK
<1>5. UNCHANGED <<graph, store, accounts, authority, history>>
  BY DEF Register
<1>6. QED
  BY <1>3, <1>4, <1>5 DEF RecordsOK, AccountsOK, store, authority, history

(* The operations that edit one record and ask for one transition. *)
LEMMA EditOneTypeOK ==
  ASSUME RecordsOK, NEW a \in Artifacts, NEW e \in Envelopes,
         \/ \E report \in Reports : Validate(a, report, e) \/ ValidateRefused(a, report, e)
         \/ Promote(a, e) \/ PromoteRefused(a, e)
         \/ \E new \in Artifacts : Supersede(a, new, e) \/ SupersedeRefused(a, new, e)
         \/ Quarantine(a, e) \/ QuarantineRefused(a, e)
         \/ RetireRefused(a, e)
  PROVE  RecordsOK' /\ (AccountsOK => AccountsOK')
<1>1. artifacts[a] \in Descriptors
  BY RegisteredDescriptor
     DEF Validate, ValidateRefused, Promote, PromoteRefused, Supersede, SupersedeRefused,
         MayEdit, MaySupersede, Quarantine, QuarantineRefused, RetireRefused
<1>2. \A v \in ValidationStates : [artifacts[a] EXCEPT !.validation = v] \in Descriptors
  BY <1>1 DEF Descriptors
<1>3. "QUARANTINED" \in ValidationStates
  BY DEF ValidationStates
<1>4. /\ \A report : ValidationTarget(report) \in LifecycleStates
      /\ {"ACTIVE", "SUPERSEDED", "QUARANTINED", "RETIRED"} \subseteq LifecycleStates
  BY DEF ValidationTarget, LifecycleStates
<1>5. ASSUME NEW report \in Reports,
             Validate(a, report, e) \/ ValidateRefused(a, report, e)
      PROVE  RecordsOK' /\ (AccountsOK => AccountsOK')
  <2>1. [artifacts[a] EXCEPT !.validation = report.state] \in Descriptors
    BY <1>2, ReportedState
  <2>2. artifacts' \in [Artifacts -> Descriptors \cup {Absent}]
    BY <1>4, <1>5, <2>1, EditTypeOK DEF Validate, ValidateRefused
  <2>3. QED
    BY <1>5, <2>2 DEF Validate, ValidateRefused, RecordsOK, AccountsOK, store, authority, history
<1>6. CASE Promote(a, e) \/ PromoteRefused(a, e)
  <2>1. artifacts' \in [Artifacts -> Descriptors \cup {Absent}]
    BY <1>1, <1>4, <1>6, EditTypeOK DEF Promote, PromoteRefused
  <2>2. QED
    BY <1>6, <2>1 DEF Promote, PromoteRefused, RecordsOK, AccountsOK, store, authority, history
<1>7. ASSUME NEW new \in Artifacts, Supersede(a, new, e) \/ SupersedeRefused(a, new, e)
      PROVE  RecordsOK' /\ (AccountsOK => AccountsOK')
  <2>1. artifacts' \in [Artifacts -> Descriptors \cup {Absent}]
    BY <1>1, <1>4, <1>7, EditTypeOK DEF Supersede, SupersedeRefused
  <2>2. AccountsOK => AccountsOK'
    BY <1>7 DEF Supersede, SupersedeRefused, Records, AccountsOK, Accounts
  <2>3. supersessions' \subseteq Artifacts \X Artifacts
    BY <1>7 DEF Supersede, SupersedeRefused, Records, RecordsOK, history
  <2>4. QED
    BY <1>7, <2>1, <2>2, <2>3
       DEF Supersede, SupersedeRefused, RecordsOK, AccountsOK, store, authority, history
<1>8. CASE Quarantine(a, e) \/ QuarantineRefused(a, e)
  <2>1. artifacts' \in [Artifacts -> Descriptors \cup {Absent}]
    BY <1>2, <1>3, <1>4, <1>8, EditTypeOK DEF Quarantine, QuarantineRefused
  <2>2. QED
    BY <1>8, <2>1 DEF Quarantine, QuarantineRefused, RecordsOK, AccountsOK, store, authority, history
<1>9. CASE RetireRefused(a, e)
  <2>1. artifacts' \in [Artifacts -> Descriptors \cup {Absent}]
    BY <1>1, <1>4, <1>9, EditTypeOK DEF RetireRefused
  <2>2. QED
    BY <1>9, <2>1 DEF RetireRefused, RecordsOK, AccountsOK, store, authority, history
<1>10. QED
  BY <1>5, <1>6, <1>7, <1>8, <1>9

LEMMA InvalidatesTypeOK ==
  ASSUME RecordsOK, NEW hit \in SUBSET Artifacts, NEW stuck, NEW c \in Causes,
         \A x \in hit : Registered(x),
         Invalidates(hit, stuck, c),
         UNCHANGED <<graph, store, nextGeneration, authority, supersessions, quarantineRecords>>
  PROVE  RecordsOK' /\ (AccountsOK => AccountsOK')
<1>1. \A x \in hit : [artifacts[x] EXCEPT !.lifecycle = "INVALIDATED"] \in Descriptors
  BY RegisteredDescriptor DEF Descriptors, LifecycleStates
<1>2. artifacts' \in [Artifacts -> Descriptors \cup {Absent}]
  BY <1>1 DEF Invalidates, RecordsOK
<1>3. cause' \in [Artifacts -> Causes \cup {NoCause}]
  BY DEF Invalidates, RecordsOK
<1>4. Cardinality(hit) \in Nat
  BY IdsAssumption, FS_Subset, FS_CardinalityType
<1>5. AccountsOK => AccountsOK'
  BY <1>4 DEF Invalidates, AccountsOK, Accounts
<1>6. QED
  BY <1>2, <1>3, <1>5 DEF RecordsOK, store, authority

(* Only a record that is there can make a transition. *)
LEMMA TransitionRegistered ==
  ASSUME NEW a \in Artifacts, NEW state, CanTransition(artifacts[a].lifecycle, state)
  PROVE  Registered(a)
BY DEF CanTransition, Successors, LifecycleStates, Registered, Absent

LEMMA InvalidateTypeOK ==
  ASSUME RecordsOK, NEW a \in Artifacts, NEW c \in Causes, NEW e \in Envelopes,
         \/ Invalidate(a, c, e)
         \/ \E i \in 1..Len(Visits(a)) : InvalidateStoppedAt(a, i, c, e)
  PROVE  RecordsOK' /\ (AccountsOK => AccountsOK')
<1>1. CASE Invalidate(a, c, e)
  <2> DEFINE hit == {x \in Artifacts : \E i \in 1..Len(Visits(a)) : Visits(a)[i] = x}
  <2>1. \A x \in hit : Registered(x)
    BY <1>1, TransitionRegistered DEF Invalidate, Blocks
  <2>2. QED
    BY <1>1, <2>1, InvalidatesTypeOK DEF Invalidate
<1>2. ASSUME NEW i \in 1..Len(Visits(a)), InvalidateStoppedAt(a, i, c, e)
      PROVE  RecordsOK' /\ (AccountsOK => AccountsOK')
  <2> DEFINE hit == {x \in Artifacts : \E j \in 1..(i - 1) : Visits(a)[j] = x}
  <2>1. \A x \in hit : Registered(x)
    BY <1>2, TransitionRegistered DEF InvalidateStoppedAt, Blocks
  <2>2. QED
    BY <1>2, <2>1, InvalidatesTypeOK DEF InvalidateStoppedAt
<1>3. QED
  BY <1>1, <1>2

(* What retiring takes off well-typed accounts, its guards permitting. *)
LEMMA AccountsLowered ==
  ASSUME NEW acc \in Accounts, NEW n \in Nat
  PROVE  /\ n <= acc.physicalBytes =>
              [acc EXCEPT !.physicalBacking = @ - 1, !.physicalBytes = @ - n] \in Accounts
         /\ [acc EXCEPT !.physicalBacking = @ - 1] \in Accounts
         /\ [acc EXCEPT !.logicalArtifacts = @ - 1] \in Accounts
         /\ n <= acc.logicalBytes =>
              [acc EXCEPT !.logicalArtifacts = @ - 1, !.logicalBytes = @ - n] \in Accounts
         /\ n <= acc.logicalBytes /\ 1 <= acc.activeReferences =>
              [acc EXCEPT !.logicalArtifacts = @ - 1, !.logicalBytes = @ - n,
                          !.activeReferences = @ - 1] \in Accounts
<1>1. /\ acc.physicalBacking - 1 \in Int
      /\ n <= acc.physicalBytes => acc.physicalBytes - n \in Nat
      /\ acc.logicalArtifacts - 1 \in Int
      /\ n <= acc.logicalBytes => acc.logicalBytes - n \in Nat
      /\ 1 <= acc.activeReferences => acc.activeReferences - 1 \in Nat
  BY DEF Accounts
<1>2. QED
  BY <1>1 DEF Accounts

LEMMA RetireTypeOK ==
  ASSUME RecordsOK, NEW a \in Artifacts, NEW e \in Envelopes,
         Retire(a, e) \/ RetireShortOfPhysicalBytes(a, e) \/ RetireShortOfLogical(a, e)
  PROVE  RecordsOK' /\ (AccountsOK => AccountsOK')
<1> DEFINE d == artifacts[a]
<1>1. Retires(a, e)
  BY DEF Retire, RetireShortOfPhysicalBytes, RetireShortOfLogical
<1>2. d \in Descriptors /\ d.size \in Nat
  BY <1>1, RegisteredDescriptor DEF Retires, Descriptors
<1>3. artifacts' \in [Artifacts -> Descriptors \cup {Absent}]
  <2>1. [d EXCEPT !.lifecycle = "RETIRED"] \in Descriptors
    BY <1>2 DEF Descriptors, LifecycleStates
  <2>2. artifacts' = [artifacts EXCEPT ![a] = [d EXCEPT !.lifecycle = "RETIRED"]]
    BY <1>1 DEF Retires
  <2>3. QED
    BY <2>1, <2>2 DEF RecordsOK
<1>4. refs' \in [Contents -> 0..(RefModulus - 1)]
  <2>1. \A n \in 0..(RefModulus - 1) : Dropped(n) \in 0..(RefModulus - 1)
    BY BoundsAssumption DEF Dropped
  <2>2. CASE d.content \in backed
    <3>1. refs[d.content] \in 0..(RefModulus - 1)
      BY <2>2 DEF RecordsOK
    <3>2. Dropped(refs[d.content]) \in 0..(RefModulus - 1)
      BY <2>1, <3>1
    <3>3. QED
      BY <1>1, <2>2, <3>2 DEF Retires, Released, RecordsOK
  <2>3. CASE d.content \notin backed
    BY <1>1, <2>3 DEF Retires, Released, RecordsOK
  <2>4. QED
    BY <2>2, <2>3
<1>5. backed' \in SUBSET Contents
  BY DEF Retire, RetireShortOfPhysicalBytes, RetireShortOfLogical, Erases, RecordsOK
<1>6. ASSUME AccountsOK, ~ShortOfPhysicalBytes(d)
      PROVE  /\ Unbacked(d) \in Accounts
             /\ Unbacked(d).logicalBytes = accounts.logicalBytes
             /\ Unbacked(d).activeReferences = accounts.activeReferences
  <2>1. accounts \in Accounts
    BY <1>6 DEF AccountsOK
  <2>2. CASE ReleasesLast(d)
    <3>1. Bytes[d.content] \in Nat
      BY <2>2, ContentsAssumption DEF ReleasesLast, RecordsOK
    <3>2. Bytes[d.content] <= accounts.physicalBytes
      BY <1>6, <2>1, <2>2, <3>1 DEF ShortOfPhysicalBytes, Accounts
    <3>3. Unbacked(d) = [accounts EXCEPT !.physicalBacking = @ - 1,
                                         !.physicalBytes = @ - Bytes[d.content]]
      BY <2>2 DEF Unbacked
    <3>4. QED
      BY <2>1, <3>1, <3>2, <3>3, AccountsLowered DEF Accounts
  <2>3. CASE ~ReleasesLast(d)
    BY <2>1, <2>3 DEF Unbacked
  <2>4. QED
    BY <2>2, <2>3
<1>7. ASSUME AccountsOK PROVE AccountsOK'
  <2>1. CASE Retire(a, e)
    <3>1. d.size <= accounts.logicalBytes /\ 1 <= accounts.activeReferences
      BY <1>2, <1>7, <2>1 DEF Retire, ShortOfLogicalBytes, ShortOfReferences, AccountsOK, Accounts
    <3>2. QED
      BY <1>2, <1>6, <1>7, <2>1, <3>1, AccountsLowered DEF Retire, AccountsOK
  <2>2. CASE RetireShortOfPhysicalBytes(a, e)
    BY <1>7, <2>2, AccountsLowered DEF RetireShortOfPhysicalBytes, AccountsOK
  <2>3. CASE RetireShortOfLogical(a, e)
    <3>1. ~ShortOfLogicalBytes(d) => d.size <= accounts.logicalBytes
      BY <1>2, <1>7 DEF ShortOfLogicalBytes, AccountsOK, Accounts
    <3>2. QED
      BY <1>2, <1>6, <1>7, <2>3, <3>1, AccountsLowered DEF RetireShortOfLogical, AccountsOK
  <2>4. QED
    BY <2>1, <2>2, <2>3
<1>8. UNCHANGED <<graph, nextGeneration, authority, history>>
  BY <1>1 DEF Retires
<1>9. QED
  BY <1>3, <1>4, <1>5, <1>7, <1>8 DEF RecordsOK, authority, history

LEMMA NextRecordsOK ==
  ASSUME RecordsOK, [Next]_vars
  PROVE  RecordsOK' /\ (AccountsOK => AccountsOK')
<1> DEFINE Goal == RecordsOK' /\ (AccountsOK => AccountsOK')
<1>1. CASE UNCHANGED vars
  BY <1>1 DEF vars, RecordsOK, AccountsOK
<1>2. ASSUME NEW b \in Boots, SetAuthority(b) \/ RollEpoch(b) PROVE Goal
  BY <1>2, BoundsAssumption DEF SetAuthority, RollEpoch, RecordsOK, AccountsOK, store, history
<1>3. ASSUME NEW r \in RegisterRequests, NEW e \in Envelopes, Register(r, e) PROVE Goal
  BY <1>3, RegisterTypeOK
<1>4. ASSUME NEW r \in PublishRequests, NEW e \in Envelopes, Publishes(r, e) PROVE Goal
  BY <1>4, PublishTypeOK
<1>5. ASSUME NEW a \in Artifacts, NEW e \in Envelopes, Edits(a, e) PROVE Goal
  BY <1>5, EditOneTypeOK, InvalidateTypeOK, RetireTypeOK DEF Edits
<1>6. CASE RebuildIndexes
  BY <1>6 DEF RebuildIndexes, RecordsOK, AccountsOK, store, authority, history
<1>7. QED
  BY <1>1, <1>2, <1>3, <1>4, <1>5, <1>6 DEF Next

LEMMA CatalogRecordsOK == Spec => [](RecordsOK /\ AccountsOK)
<1>1. RecordsOK /\ AccountsOK /\ [Next]_vars => (RecordsOK /\ AccountsOK)'
  BY NextRecordsOK
<1>2. QED
  BY InitTypeOK, <1>1, PTL DEF Spec

(* The catalog's variables keep their types, and with them the guarded     *)
(* counters stay at zero or above, whatever calls fail half way.           *)
THEOREM CatalogTypeCorrect == Spec => []TypeOK
BY CatalogRecordsOK, TypeSplit, PTL

-----------------------------------------------------------------------------
(* The graph the catalog builds. *)

SoundGraph(g) == Acyclic(g) /\ EdgesJoinNodes(g) /\ InMirrorsOut(g)

(* Nodes without edges disturb nothing, reachability least of all. *)
LEMMA AddNodesSound ==
  ASSUME NEW g \in Graphs, NEW A \in SUBSET Artifacts
  PROVE  /\ AddNodes(g, A) \in Graphs
         /\ AddNodes(g, A).nodes = g.nodes \cup A
         /\ \A from, to \in Artifacts :
              CreatesCycle(AddNodes(g, A), from, to) <=> CreatesCycle(g, from, to)
         /\ SoundGraph(g) => SoundGraph(AddNodes(g, A))
<1>1. /\ AddNodes(g, A) \in Graphs
      /\ AddNodes(g, A).nodes = g.nodes \cup A
      /\ AddNodes(g, A).out = g.out
      /\ AddNodes(g, A).in = g.in
  BY DEF AddNodes, Graphs
<1>2. \A a \in Artifacts : Reach(AddNodes(g, A), a) = Reach(g, a)
  BY <1>1 DEF Reach, Closed
<1>3. ASSUME Acyclic(g) PROVE Acyclic(AddNodes(g, A))
  BY <1>1, <1>2, <1>3 DEF Acyclic, TransitiveDependencies, Graphs
<1>4. ASSUME EdgesJoinNodes(g) PROVE EdgesJoinNodes(AddNodes(g, A))
  BY <1>1, <1>4 DEF EdgesJoinNodes
<1>5. ASSUME InMirrorsOut(g) PROVE InMirrorsOut(AddNodes(g, A))
  BY <1>1, <1>5 DEF InMirrorsOut
<1>6. \A from, to \in Artifacts :
        CreatesCycle(AddNodes(g, A), from, to) <=> CreatesCycle(g, from, to)
  BY <1>2 DEF CreatesCycle
<1>7. QED
  BY <1>1, <1>3, <1>4, <1>5, <1>6 DEF SoundGraph

LEMMA AddEdgesSound ==
  ASSUME NEW g \in Graphs, SoundGraph(g),
         NEW from \in g.nodes, NEW targets \in SUBSET g.nodes,
         \A t \in targets : ~CreatesCycle(g, from, t)
  PROVE  SoundGraph(AddEdges(g, from, targets))
<1> DEFINE h == AddEdges(g, from, targets)
<1>1. from \in Artifacts /\ targets \in SUBSET Artifacts
  BY DEF Graphs
<1>2. Acyclic(h)
  BY <1>1, AddEdgesAcyclic DEF SoundGraph
<1>3. /\ h.nodes = g.nodes
      /\ \A a \in Artifacts : h.out[a] = IF a = from THEN g.out[a] \cup targets ELSE g.out[a]
      /\ \A a \in Artifacts : h.in[a] = IF a \in targets THEN g.in[a] \cup {from} ELSE g.in[a]
  BY <1>1 DEF AddEdges, Graphs
<1>4. EdgesJoinNodes(h)
  BY <1>3 DEF SoundGraph, EdgesJoinNodes
<1>5. InMirrorsOut(h)
  <2> SUFFICES ASSUME NEW a \in Artifacts, NEW b \in Artifacts
               PROVE  b \in h.out[a] <=> a \in h.in[b]
    BY DEF InMirrorsOut
  <2>1. b \in g.out[a] <=> a \in g.in[b]
    BY DEF SoundGraph, InMirrorsOut
  <2>2. b \in h.out[a] <=> b \in g.out[a] \/ (a = from /\ b \in targets)
    BY <1>3
  <2>3. a \in h.in[b] <=> a \in g.in[b] \/ (a = from /\ b \in targets)
    BY <1>3
  <2>4. QED
    BY <2>1, <2>2, <2>3
<1>6. QED
  BY <1>2, <1>4, <1>5 DEF SoundGraph

(* What publish has linked before the i-th dependency is sound, because    *)
(* none of the dependencies before it was refused.                         *)
LEMMA LinkedSound ==
  ASSUME RecordsOK, GraphSound, NEW r, r.id \in Artifacts, r.deps \in Seq(Artifacts),
         NEW i \in 1..(Len(r.deps) + 1), \A j \in 1..(i - 1) : ~DependencyRefused(r, j)
  PROVE  SoundGraph(Linked(r, i))
<1> DEFINE A == {r.id} \cup Earlier(r, i)
           g == AddNodes(graph, A)
<1>1. graph \in Graphs /\ SoundGraph(graph)
  BY DEF RecordsOK, GraphSound, SoundGraph
<1>2. A \in SUBSET Artifacts
  BY EarlierType
<1>3. /\ g \in Graphs
      /\ g.nodes = graph.nodes \cup A
      /\ SoundGraph(g)
      /\ \A from, to \in Artifacts : CreatesCycle(g, from, to) <=> CreatesCycle(graph, from, to)
  BY <1>1, <1>2, AddNodesSound
<1>4. ASSUME NEW t \in Earlier(r, i) PROVE ~CreatesCycle(g, r.id, t)
  <2>1. PICK j \in 1..(i - 1) : t = r.deps[j]
    BY DEF Earlier
  <2>2. ~CreatesCycle(graph, r.id, t)
    BY <2>1 DEF DependencyRefused
  <2>3. QED
    BY <1>2, <1>3, <2>2
<1>5. r.id \in g.nodes /\ Earlier(r, i) \in SUBSET g.nodes
  BY <1>3
<1> HIDE DEF A, g
<1>6. SoundGraph(AddEdges(g, r.id, Earlier(r, i)))
  BY <1>3, <1>4, <1>5, AddEdgesSound
<1>7. QED
  BY <1>6 DEF Linked, g, A

LEMMA PublishGraphSound ==
  ASSUME RecordsOK, GraphSound, NEW r \in PublishRequests, NEW e \in Envelopes, Publishes(r, e)
  PROVE  GraphSound'
<1>1. CASE PublishesUnindexed(r, e)
  <2>1. Len(r.deps) + 1 \in 1..(Len(r.deps) + 1)
    BY PublishRequestType
  <2>2. \A j \in 1..(Len(r.deps) + 1 - 1) : ~DependencyRefused(r, j)
    BY <1>1, PublishRequestType DEF PublishesUnindexed, Linkable
  <2>3. SoundGraph(Linked(r, Len(r.deps) + 1))
    BY <2>1, <2>2, PublishRequestType, LinkedSound
  <2>4. QED
    BY <1>1, <2>3 DEF PublishesUnindexed, SoundGraph, GraphSound
<1>2. CASE PublishWithoutNode(r, e)
  BY <1>2 DEF PublishWithoutNode, GraphSound
<1>3. ASSUME NEW i \in 1..Len(r.deps), PublishRefusedAt(r, i, e)
      PROVE  GraphSound'
  <2>1. i \in 1..(Len(r.deps) + 1)
    BY PublishRequestType
  <2>2. Linked(r, i) \in Graphs /\ SoundGraph(Linked(r, i))
    BY <1>3, <2>1, PublishRequestType, LinkedType, LinkedSound DEF PublishRefusedAt
  <2>3. PICK A \in SUBSET Artifacts : graph' = AddNodes(Linked(r, i), A)
    BY <1>3, PublishRequestType DEF PublishRefusedAt
  <2>4. QED
    BY <2>2, <2>3, AddNodesSound DEF SoundGraph, GraphSound
<1>4. QED
  BY <1>1, <1>2, <1>3 DEF Publishes, Publish, PublishOverflowing

LEMMA NextGraphSound ==
  ASSUME RecordsOK, GraphSound, [Next]_vars
  PROVE  GraphSound'
<1>1. CASE UNCHANGED graph
  BY <1>1 DEF GraphSound
<1>2. ASSUME NEW a \in Artifacts, NEW e \in Envelopes, Edits(a, e) PROVE UNCHANGED graph
  BY <1>2
     DEF Edits, Validate, ValidateRefused, Promote, PromoteRefused, Supersede,
         SupersedeRefused, Quarantine, QuarantineRefused, Invalidate, InvalidateStoppedAt,
         Retire, RetireRefused, RetireShortOfPhysicalBytes, RetireShortOfLogical, Retires
<1>3. QED
  BY <1>1, <1>2, PublishGraphSound DEF Next, SetAuthority, RollEpoch, Register, RebuildIndexes, vars

LEMMA InitGraphSound == Init => GraphSound
BY DEF Init, GraphSound, EmptyGraph, Acyclic, TransitiveDependencies, EdgesJoinNodes, InMirrorsOut

(* The catalog's graph stays acyclic and well formed: publications that    *)
(* are refused half way through their dependencies leave a sound graph.    *)
THEOREM CatalogGraphStaysSound == Spec => []GraphSound
<1>1. RecordsOK /\ GraphSound /\ [Next]_vars => GraphSound'
  BY NextGraphSound
<1>2. QED
  BY <1>1, InitGraphSound, CatalogRecordsOK, PTL DEF Spec

-----------------------------------------------------------------------------
(* The indexes. *)

(* IndexesAgree speaks of the artifacts entries name: these are artifacts. *)
IndexInv == IndexesAgree /\ \A entry \in index : entry[3] \in Artifacts

LEMMA EntryOwner ==
  ASSUME NEW a, NEW d, NEW entry \in IndexEntries(a, d)
  PROVE  entry[3] = a
BY DEF IndexEntries

(* Taking the entries of some artifacts out of indexes that agree with the *)
(* records takes out every entry that names one of them.                   *)
LEMMA EntriesRemoved ==
  ASSUME IndexInv, NEW S
  PROVE  index \ EntriesOf(S) = {entry \in index : entry[3] \notin S}
<1>1. ASSUME NEW entry \in index, entry[3] \in S PROVE entry \in EntriesOf(S)
  BY <1>1 DEF IndexInv, IndexesAgree, EntriesOf
<1>2. ASSUME NEW entry \in EntriesOf(S) PROVE entry[3] \in S
  <2>1. PICK a \in S : entry \in IndexEntries(a, artifacts[a])
    BY DEF EntriesOf
  <2>2. QED
    BY <2>1, EntryOwner
<1>3. QED
  BY <1>1, <1>2

(* The one way the indexes change: the artifacts in S are taken out, and   *)
(* those in T filed again under their new records.                         *)
Refiles(S, T) ==
  /\ T \subseteq S \cap Artifacts
  /\ \A x \in T : Registered(x)'
  /\ \A x \in Artifacts \ S : artifacts'[x] = artifacts[x]
  /\ \A entry : entry \in index' <=>
       \/ entry \in index /\ entry[3] \notin S
       \/ \E x \in T : entry \in IndexEntries(x, artifacts'[x])

LEMMA Refiled ==
  ASSUME IndexInv, NEW S, NEW T, Refiles(S, T)
  PROVE  IndexInv'
<1> USE DEF Refiles
<1>1. ASSUME NEW entry \in index'
      PROVE  /\ entry[3] \in Artifacts
             /\ Registered(entry[3])'
             /\ entry \in IndexEntries(entry[3], artifacts'[entry[3]])
  <2>1. CASE entry \in index /\ entry[3] \notin S
    BY <2>1 DEF IndexInv, IndexesAgree, Registered
  <2>2. ASSUME NEW x \in T, entry \in IndexEntries(x, artifacts'[x])
        PROVE  /\ entry[3] \in Artifacts
               /\ Registered(entry[3])'
               /\ entry \in IndexEntries(entry[3], artifacts'[entry[3]])
    <3>1. entry[3] = x
      BY <2>2, EntryOwner
    <3>2. QED
      BY <2>2, <3>1
  <2>3. QED
    BY <2>1, <2>2
<1>2. ASSUME NEW a \in Artifacts, Registered(a)'
      PROVE  \/ IndexEntries(a, artifacts'[a]) \subseteq index'
             \/ IndexEntries(a, artifacts'[a]) \cap index' = {}
  <2>1. CASE a \in T
    BY <2>1
  <2>2. CASE a \in S \ T
    <3>1. ASSUME NEW entry \in index' PROVE entry[3] # a
      BY <2>2, EntryOwner
    <3>2. QED
      BY <3>1, EntryOwner
  <2>3. CASE a \notin S
    <3>1. artifacts'[a] = artifacts[a] /\ Registered(a)
      BY <1>2, <2>3 DEF Registered
    <3>2. ASSUME NEW entry \in IndexEntries(a, artifacts[a])
          PROVE  entry \in index' <=> entry \in index
      BY <2>3, EntryOwner
    <3>3. QED
      BY <3>1, <3>2 DEF IndexInv, IndexesAgree
  <2>4. QED
    BY <2>1, <2>2, <2>3
<1>3. QED
  BY <1>1, <1>2 DEF IndexInv, IndexesAgree

(* Taking one artifact out, in the form most operations do it. *)
LEMMA OneRemoved ==
  ASSUME IndexInv, NEW a \in Artifacts
  PROVE  index \ IndexEntries(a, artifacts[a]) = {entry \in index : entry[3] \notin {a}}
<1>1. EntriesOf({a}) = IndexEntries(a, artifacts[a])
  BY DEF EntriesOf
<1>2. QED
  BY <1>1, EntriesRemoved

LEMMA RefiledOne ==
  ASSUME IndexInv, NEW a \in Artifacts,
         \A x \in Artifacts \ {a} : artifacts'[x] = artifacts[x],
         \/ index' = index \ IndexEntries(a, artifacts[a])
         \/ /\ Registered(a)'
            /\ index' = (index \ IndexEntries(a, artifacts[a])) \cup IndexEntries(a, artifacts'[a])
  PROVE  IndexInv'
<1>1. CASE index' = index \ IndexEntries(a, artifacts[a])
  <2>1. Refiles({a}, {})
    BY <1>1, OneRemoved DEF Refiles
  <2>2. QED
    BY <2>1, Refiled
<1>2. CASE /\ Registered(a)'
           /\ index' = (index \ IndexEntries(a, artifacts[a])) \cup IndexEntries(a, artifacts'[a])
  <2>1. \A x \in {a} : Registered(x)'
    BY <1>2 DEF Registered
  <2>2. Refiles({a}, {a})
    BY <1>2, <2>1, OneRemoved DEF Refiles
  <2>3. QED
    BY <2>2, Refiled
<1>3. QED
  BY <1>1, <1>2

LEMMA EditIndexInv ==
  ASSUME RecordsOK, IndexInv, NEW a \in Artifacts, NEW d \in Descriptors,
         NEW state \in LifecycleStates, Moves(a, d, state) \/ Refuses(a, d, state)
  PROVE  IndexInv'
<1> DEFINE moved == [d EXCEPT !.lifecycle = state]
<1>1. moved # Absent
  BY DEF Descriptors, Absent, LifecycleStates
<1>2. CASE Moves(a, d, state)
  <2>1. artifacts'[a] = moved /\ \A x \in Artifacts \ {a} : artifacts'[x] = artifacts[x]
    BY <1>2 DEF Moves, RecordsOK
  <2>2. Registered(a)'
    BY <1>1, <2>1 DEF Registered
  <2>3. index' = (index \ IndexEntries(a, artifacts[a])) \cup IndexEntries(a, artifacts'[a])
    BY <1>2, <2>1 DEF Moves
  <2>4. QED
    BY <2>1, <2>2, <2>3, RefiledOne
<1>3. CASE Refuses(a, d, state)
  <2>1. \A x \in Artifacts \ {a} : artifacts'[x] = artifacts[x]
    BY <1>3 DEF Refuses, RecordsOK
  <2>2. QED
    BY <1>3, <2>1, RefiledOne DEF Refuses
<1>4. QED
  BY <1>2, <1>3

(* A record stored for an id that had none, filed or not. *)
LEMMA StoreIndexInv ==
  ASSUME RecordsOK, IndexInv, NEW a \in Artifacts, NEW d \in Descriptors, ~Registered(a),
         artifacts' = [artifacts EXCEPT ![a] = d],
         index' = index \/ index' = index \cup IndexEntries(a, d)
  PROVE  IndexInv'
<1>1. index = index \ IndexEntries(a, artifacts[a])
  <2>1. ASSUME NEW entry \in index PROVE entry[3] # a
    BY DEF IndexInv, IndexesAgree
  <2>2. QED
    BY <2>1, EntryOwner
<1>2. artifacts'[a] = d /\ \A x \in Artifacts \ {a} : artifacts'[x] = artifacts[x]
  BY DEF RecordsOK
<1>3. Registered(a)'
  BY <1>2 DEF Registered, Descriptors, Absent, LifecycleStates
<1>4. QED
  BY <1>1, <1>2, <1>3, RefiledOne

LEMMA PublishIndexInv ==
  ASSUME RecordsOK, IndexInv, NEW r \in PublishRequests, NEW e \in Envelopes, Publishes(r, e)
  PROVE  IndexInv'
<1>1. r.id \in Artifacts /\ Building(r) \in Descriptors /\ PublishedRecord(r) \in Descriptors
  BY PublishRequestType, PublishRecordTypes
<1>2. ~Registered(r.id)
  BY DEF Publishes, Publish, PublishOverflowing, PublishesUnindexed,
         PublishWithoutNode, PublishRefusedAt, MayPublish
<1>3. \/ /\ artifacts' = [artifacts EXCEPT ![r.id] = Building(r)]
         /\ index' = index
      \/ /\ artifacts' = [artifacts EXCEPT ![r.id] = PublishedRecord(r)]
         /\ index' = index \/ index' = index \cup IndexEntries(r.id, PublishedRecord(r))
  BY DEF Publishes, Publish, PublishOverflowing, PublishesUnindexed,
         PublishWithoutNode, PublishRefusedAt
<1>4. QED
  BY <1>1, <1>2, <1>3, StoreIndexInv

LEMMA RegisterIndexInv ==
  ASSUME RecordsOK, IndexInv, NEW r \in RegisterRequests, NEW e \in Envelopes, Register(r, e)
  PROVE  IndexInv'
<1> DEFINE d == [lifecycle |-> "DECLARED", validation |-> "UNVALIDATED",
                 generation |-> r.generation, content |-> r.content,
                 deps |-> r.deps, size |-> r.size]
<1>1. d \in Descriptors /\ r.id \in Artifacts
  BY RequestsAssumption DEF Requests, Descriptors, LifecycleStates, ValidationStates
<1>2. /\ ~Registered(r.id)
      /\ artifacts' = [artifacts EXCEPT ![r.id] = d]
      /\ index' = index \cup IndexEntries(r.id, d)
  BY DEF Register
<1> HIDE DEF d
<1>3. QED
  BY <1>1, <1>2, StoreIndexInv

LEMMA InvalidatesIndexInv ==
  ASSUME RecordsOK, IndexInv, NEW hit \in SUBSET Artifacts, NEW stuck, NEW c,
         \A x \in hit : Registered(x),
         Invalidates(hit, stuck, c)
  PROVE  IndexInv'
<1>1. /\ \A x \in hit : artifacts'[x] = [artifacts[x] EXCEPT !.lifecycle = "INVALIDATED"]
      /\ \A x \in Artifacts \ hit : artifacts'[x] = artifacts[x]
  BY DEF Invalidates
<1>2. \A x \in hit : Registered(x)'
  BY <1>1, RegisteredDescriptor DEF Registered, Descriptors, Absent
<1>3. ASSUME NEW entry
      PROVE  entry \in index' <=>
               \/ entry \in index /\ entry[3] \notin hit \cup stuck
               \/ \E x \in hit : entry \in IndexEntries(x, artifacts'[x])
  <2>1. entry \in index \ EntriesOf(hit \cup stuck)
          <=> entry \in index /\ entry[3] \notin hit \cup stuck
    BY EntriesRemoved
  <2>2. entry \in index' <=>
          \/ entry \in index \ EntriesOf(hit \cup stuck)
          \/ \E x \in hit : entry \in IndexEntries(x, [artifacts[x] EXCEPT !.lifecycle = "INVALIDATED"])
    BY DEF Invalidates
  <2>3. QED
    BY <1>1, <2>1, <2>2
<1>4. Refiles(hit \cup stuck, hit)
  BY <1>1, <1>2, <1>3 DEF Refiles
<1>5. QED
  BY <1>4, Refiled

LEMMA InvalidateIndexInv ==
  ASSUME RecordsOK, IndexInv, NEW a \in Artifacts, NEW c \in Causes, NEW e \in Envelopes,
         \/ Invalidate(a, c, e)
         \/ \E i \in 1..Len(Visits(a)) : InvalidateStoppedAt(a, i, c, e)
  PROVE  IndexInv'
<1>1. CASE Invalidate(a, c, e)
  <2> DEFINE hit == {x \in Artifacts : \E i \in 1..Len(Visits(a)) : Visits(a)[i] = x}
  <2>1. \A x \in hit : Registered(x)
    BY <1>1, TransitionRegistered DEF Invalidate, Blocks
  <2>2. QED
    BY <1>1, <2>1, InvalidatesIndexInv DEF Invalidate
<1>2. ASSUME NEW i \in 1..Len(Visits(a)), InvalidateStoppedAt(a, i, c, e)
      PROVE  IndexInv'
  <2> DEFINE hit == {x \in Artifacts : \E j \in 1..(i - 1) : Visits(a)[j] = x}
  <2>1. \A x \in hit : Registered(x)
    BY <1>2, TransitionRegistered DEF InvalidateStoppedAt, Blocks
  <2>2. QED
    BY <1>2, <2>1, InvalidatesIndexInv DEF InvalidateStoppedAt
<1>3. QED
  BY <1>1, <1>2

LEMMA RetireIndexInv ==
  ASSUME RecordsOK, IndexInv, NEW a \in Artifacts, NEW e \in Envelopes,
         Retire(a, e) \/ RetireShortOfPhysicalBytes(a, e) \/ RetireShortOfLogical(a, e)
  PROVE  IndexInv'
<1> DEFINE moved == [artifacts[a] EXCEPT !.lifecycle = "RETIRED"]
<1>1. Retires(a, e)
  BY DEF Retire, RetireShortOfPhysicalBytes, RetireShortOfLogical
<1>2. artifacts'[a] = moved /\ \A x \in Artifacts \ {a} : artifacts'[x] = artifacts[x]
  BY <1>1 DEF Retires, RecordsOK
<1>3. Registered(a)'
  BY <1>1, <1>2, RegisteredDescriptor DEF Retires, Registered, Descriptors, Absent
<1>4. \/ index' = index \ IndexEntries(a, artifacts[a])
      \/ index' = (index \ IndexEntries(a, artifacts[a])) \cup IndexEntries(a, artifacts'[a])
  BY <1>2 DEF Retire, RetireShortOfPhysicalBytes, RetireShortOfLogical
<1>5. QED
  BY <1>2, <1>3, <1>4, RefiledOne

LEMMA RebuildIndexInv ==
  ASSUME RecordsOK, IndexInv, RebuildIndexes
  PROVE  IndexInv'
<1> DEFINE T == {x \in Artifacts : Registered(x)}
<1>1. artifacts' = artifacts /\ index' = EntriesOf(T)
  BY DEF RebuildIndexes
<1>2. {entry \in index : entry[3] \notin Artifacts} = {}
  BY DEF IndexInv
<1>3. \A entry : entry \in index' <=>
        \/ entry \in index /\ entry[3] \notin Artifacts
        \/ \E x \in T : entry \in IndexEntries(x, artifacts'[x])
  BY <1>1, <1>2 DEF EntriesOf
<1>4. Refiles(Artifacts, T)
  BY <1>1, <1>3 DEF Refiles, Registered
<1>5. QED
  BY <1>4, Refiled

(* The lifecycle states operations other than invalidate ask for. *)
Targets == {"VALID", "FAILED", "ACTIVE", "SUPERSEDED", "QUARANTINED", "RETIRED"}

LEMMA TargetsAreStates ==
  /\ Targets \subseteq LifecycleStates
  /\ \A report : ValidationTarget(report) \in Targets \ {"RETIRED", "SUPERSEDED"}
BY DEF Targets, LifecycleStates, ValidationTarget

(* All an operation edits besides the lifecycle is the validation state. *)
SameButValidation(d, old) ==
  /\ d.lifecycle = old.lifecycle /\ d.content = old.content
  /\ d.deps = old.deps /\ d.size = old.size

LEMMA EditOneForm ==
  ASSUME RecordsOK, NEW a \in Artifacts, NEW e \in Envelopes,
         \/ \E report \in Reports : Validate(a, report, e) \/ ValidateRefused(a, report, e)
         \/ Promote(a, e) \/ PromoteRefused(a, e)
         \/ \E new \in Artifacts : Supersede(a, new, e) \/ SupersedeRefused(a, new, e)
         \/ Quarantine(a, e) \/ QuarantineRefused(a, e)
         \/ RetireRefused(a, e)
  PROVE  \E d \in Descriptors, state \in Targets :
           /\ SameButValidation(d, artifacts[a])
           /\ Moves(a, d, state) \/ Refuses(a, d, state)
           /\ Moves(a, d, state) =>
                /\ state # "RETIRED"
                /\ state = "SUPERSEDED" => \E new \in Artifacts : Supersede(a, new, e)
<1> DEFINE Form == \E d \in Descriptors, state \in Targets :
                     /\ SameButValidation(d, artifacts[a])
                     /\ Moves(a, d, state) \/ Refuses(a, d, state)
                     /\ Moves(a, d, state) =>
                          /\ state # "RETIRED"
                          /\ state = "SUPERSEDED" => \E new \in Artifacts : Supersede(a, new, e)
<1>0. SameButValidation(artifacts[a], artifacts[a])
  BY DEF SameButValidation
<1>1. artifacts[a] \in Descriptors
  BY RegisteredDescriptor
     DEF Validate, ValidateRefused, Promote, PromoteRefused, Supersede, SupersedeRefused,
         MayEdit, MaySupersede, Quarantine, QuarantineRefused, RetireRefused
<1>2. \A v \in ValidationStates :
        /\ [artifacts[a] EXCEPT !.validation = v] \in Descriptors
        /\ SameButValidation([artifacts[a] EXCEPT !.validation = v], artifacts[a])
  BY <1>1 DEF Descriptors, SameButValidation
<1>3. "QUARANTINED" \in ValidationStates
  BY DEF ValidationStates
<1>4. {"ACTIVE", "SUPERSEDED", "QUARANTINED", "RETIRED"} \subseteq Targets
  BY DEF Targets
<1>5. ASSUME NEW report \in Reports, Validate(a, report, e) \/ ValidateRefused(a, report, e)
      PROVE  Form
  <2>1. report.state \in ValidationStates
    BY ReportedState
  <2>2. QED
    BY <1>2, <1>5, <2>1, TargetsAreStates DEF Validate, ValidateRefused
<1>6. CASE Promote(a, e) \/ PromoteRefused(a, e)
  BY <1>0, <1>1, <1>4, <1>6 DEF Promote, PromoteRefused
<1>7. ASSUME NEW new \in Artifacts, Supersede(a, new, e) \/ SupersedeRefused(a, new, e)
      PROVE  Form
  <2>1. CASE Supersede(a, new, e)
    <3>1. Moves(a, artifacts[a], "SUPERSEDED") /\ \E n \in Artifacts : Supersede(a, n, e)
      BY <2>1 DEF Supersede
    <3>2. QED
      BY <1>0, <1>1, <1>4, <3>1
  <2>2. CASE SupersedeRefused(a, new, e)
    <3>1. Refuses(a, artifacts[a], "SUPERSEDED") /\ ~Moves(a, artifacts[a], "SUPERSEDED")
      BY <2>2 DEF SupersedeRefused, Moves, Refuses
    <3>2. QED
      BY <1>0, <1>1, <1>4, <3>1
  <2>3. QED
    BY <1>7, <2>1, <2>2
<1>8. CASE Quarantine(a, e) \/ QuarantineRefused(a, e)
  BY <1>2, <1>3, <1>4, <1>8 DEF Quarantine, QuarantineRefused
<1>9. CASE RetireRefused(a, e)
  BY <1>0, <1>1, <1>4, <1>9 DEF RetireRefused, Moves, Refuses
<1>10. QED
  BY <1>5, <1>6, <1>7, <1>8, <1>9

(* An artifact is filed under exactly its current state or in no index at  *)
(* all, through any calls and at whatever point they fail.                 *)
THEOREM CatalogIndexesAgree == Spec => []IndexesAgree
<1>1. Init => IndexInv
  BY DEF Init, IndexInv, IndexesAgree
<1>2. RecordsOK /\ IndexInv /\ [Next]_vars => IndexInv'
  <2> SUFFICES ASSUME RecordsOK, IndexInv, [Next]_vars PROVE IndexInv'
    OBVIOUS
  <2>1. CASE UNCHANGED <<artifacts, index>>
    BY <2>1 DEF IndexInv, IndexesAgree, Registered
  <2>2. ASSUME NEW r \in RegisterRequests, NEW e \in Envelopes, Register(r, e)
        PROVE  IndexInv'
    BY <2>2, RegisterIndexInv
  <2>3. ASSUME NEW r \in PublishRequests, NEW e \in Envelopes, Publishes(r, e)
        PROVE  IndexInv'
    BY <2>3, PublishIndexInv
  <2>4. ASSUME NEW a \in Artifacts, NEW e \in Envelopes, Edits(a, e) PROVE IndexInv'
    <3>1. CASE \/ Retire(a, e)
               \/ RetireShortOfPhysicalBytes(a, e) \/ RetireShortOfLogical(a, e)
      BY <3>1, RetireIndexInv
    <3>2. ASSUME NEW c \in Causes,
                 \/ Invalidate(a, c, e)
                 \/ \E i \in 1..Len(Visits(a)) : InvalidateStoppedAt(a, i, c, e)
          PROVE  IndexInv'
      BY <3>2, InvalidateIndexInv
    <3>3. ASSUME NEW d \in Descriptors, NEW state \in Targets,
                 Moves(a, d, state) \/ Refuses(a, d, state)
          PROVE  IndexInv'
      BY <3>3, TargetsAreStates, EditIndexInv
    <3>4. QED
      BY <2>4, <3>1, <3>2, <3>3, EditOneForm DEF Edits
  <2>5. CASE RebuildIndexes
    BY <2>5, RebuildIndexInv
  <2>6. QED
    BY <2>1, <2>2, <2>3, <2>4, <2>5 DEF Next, SetAuthority, RollEpoch, vars
<1>3. QED
  BY <1>1, <1>2, CatalogRecordsOK, PTL DEF Spec, IndexInv

-----------------------------------------------------------------------------
(* Withdrawal. *)

(* No target an operation asks for leads out of the withdrawn states. *)
LEMMA NoWayBack ==
  ASSUME NEW from \in Withdrawn, NEW state \in Targets, CanTransition(from, state)
  PROVE  state \in Withdrawn
BY DEF Withdrawn, Targets, CanTransition, Successors, LifecycleStates

LEMMA EditKeepsWithdrawn ==
  ASSUME RecordsOK, NEW a \in Artifacts, NEW d \in Descriptors, NEW state \in Targets,
         d.lifecycle = artifacts[a].lifecycle,
         Moves(a, d, state) \/ Refuses(a, d, state),
         NEW x \in Artifacts, artifacts[x].lifecycle \in Withdrawn
  PROVE  artifacts'[x].lifecycle \in Withdrawn
<1>1. CASE x # a
  BY <1>1 DEF Moves, Refuses, RecordsOK
<1>2. CASE x = a /\ Moves(a, d, state)
  <2>1. artifacts'[a].lifecycle = state
    BY <1>2 DEF Moves, RecordsOK, Descriptors
  <2>2. QED
    BY <1>2, <2>1, NoWayBack DEF Moves
<1>3. CASE x = a /\ Refuses(a, d, state)
  BY <1>3 DEF Refuses, RecordsOK
<1>4. QED
  BY <1>1, <1>2, <1>3

LEMMA StoreKeepsWithdrawn ==
  ASSUME RecordsOK, NEW a \in Artifacts, ~Registered(a),
         NEW d, artifacts' = [artifacts EXCEPT ![a] = d],
         NEW x \in Artifacts, artifacts[x].lifecycle \in Withdrawn
  PROVE  artifacts'[x].lifecycle \in Withdrawn
<1>1. x # a
  BY DEF Registered, Absent, Withdrawn
<1>2. QED
  BY <1>1 DEF RecordsOK

(* Nothing superseded, invalidated, quarantined or retired comes back into *)
(* circulation.                                                            *)
THEOREM CatalogWithdrawsForGood == Spec => WithdrawnForGood
<1>1. RecordsOK /\ [Next]_vars =>
        [\A a \in Artifacts : artifacts[a].lifecycle \in Withdrawn
                               => artifacts'[a].lifecycle \in Withdrawn]_vars
  <2> SUFFICES ASSUME RecordsOK, Next, NEW x \in Artifacts, artifacts[x].lifecycle \in Withdrawn
               PROVE  artifacts'[x].lifecycle \in Withdrawn
    OBVIOUS
  <2>1. CASE UNCHANGED artifacts
    BY <2>1
  <2>2. ASSUME NEW r \in RegisterRequests, NEW e \in Envelopes, Register(r, e)
        PROVE  artifacts'[x].lifecycle \in Withdrawn
    <3>1. r.id \in Artifacts
      BY RequestsAssumption DEF Requests
    <3>2. QED
      BY <2>2, <3>1, StoreKeepsWithdrawn DEF Register
  <2>3. ASSUME NEW r \in PublishRequests, NEW e \in Envelopes, Publishes(r, e)
        PROVE  artifacts'[x].lifecycle \in Withdrawn
    <3>1. /\ ~Registered(r.id)
          /\ \/ artifacts' = [artifacts EXCEPT ![r.id] = Building(r)]
             \/ artifacts' = [artifacts EXCEPT ![r.id] = PublishedRecord(r)]
      BY <2>3 DEF Publishes, Publish, PublishOverflowing, PublishesUnindexed,
                  PublishWithoutNode, PublishRefusedAt, MayPublish
    <3>2. QED
      BY <3>1, PublishRequestType, StoreKeepsWithdrawn
  <2>4. ASSUME NEW a \in Artifacts, NEW e \in Envelopes, Edits(a, e)
        PROVE  artifacts'[x].lifecycle \in Withdrawn
    <3>1. CASE \/ Retire(a, e)
               \/ RetireShortOfPhysicalBytes(a, e) \/ RetireShortOfLogical(a, e)
      <4>1. artifacts' = [artifacts EXCEPT ![a].lifecycle = "RETIRED"] /\ Registered(a)
        BY <3>1 DEF Retire, RetireShortOfPhysicalBytes, RetireShortOfLogical, Retires
      <4>2. CASE x = a
        <5>1. artifacts[a] \in Descriptors
          BY <4>1, RegisteredDescriptor
        <5>2. artifacts'[x].lifecycle = "RETIRED"
          BY <4>1, <4>2, <5>1 DEF RecordsOK, Descriptors
        <5>3. QED
          BY <5>2 DEF Withdrawn
      <4>3. CASE x # a
        BY <4>1, <4>3 DEF RecordsOK
      <4>4. QED
        BY <4>2, <4>3
    <3>2. ASSUME NEW hit, NEW stuck, NEW c, Invalidates(hit, stuck, c)
          PROVE  artifacts'[x].lifecycle \in Withdrawn
      <4>1. CASE x \in hit
        <5>1. artifacts[x] \in Descriptors
          BY RegisteredDescriptor DEF Registered, Absent, Withdrawn
        <5>2. artifacts'[x].lifecycle = "INVALIDATED"
          BY <3>2, <4>1, <5>1 DEF Invalidates, Descriptors
        <5>3. QED
          BY <5>2 DEF Withdrawn
      <4>2. CASE x \notin hit
        BY <3>2, <4>2 DEF Invalidates
      <4>3. QED
        BY <4>1, <4>2
    <3>3. ASSUME NEW c \in Causes,
                 \/ Invalidate(a, c, e)
                 \/ \E i \in 1..Len(Visits(a)) : InvalidateStoppedAt(a, i, c, e)
          PROVE  artifacts'[x].lifecycle \in Withdrawn
      BY <3>2, <3>3 DEF Invalidate, InvalidateStoppedAt
    <3>4. ASSUME NEW d \in Descriptors, NEW state \in Targets,
                 d.lifecycle = artifacts[a].lifecycle,
                 Moves(a, d, state) \/ Refuses(a, d, state)
          PROVE  artifacts'[x].lifecycle \in Withdrawn
      BY <3>4, EditKeepsWithdrawn
    <3>5. QED
      BY <2>4, <3>1, <3>3, <3>4, EditOneForm DEF Edits, SameButValidation
  <2>5. QED
    BY <2>1, <2>2, <2>3, <2>4 DEF Next, SetAuthority, RollEpoch, RebuildIndexes
<1>2. QED
  BY <1>1, CatalogRecordsOK, PTL DEF Spec, WithdrawnForGood

-----------------------------------------------------------------------------
(* What each kind of call does to the records. *)

(* A record is stored for an id that had none. *)
Stores(a) ==
  /\ ~Registered(a)
  /\ artifacts'[a] \in Descriptors
  /\ \A x \in Artifacts \ {a} : artifacts'[x] = artifacts[x]

(* One record moves along the table or stays where it is. *)
Advances(a) ==
  /\ Registered(a)
  /\ artifacts'[a] \in Descriptors
  /\ artifacts'[a].content = artifacts[a].content
  /\ artifacts'[a].deps = artifacts[a].deps
  /\ artifacts'[a].size = artifacts[a].size
  /\ \A x \in Artifacts \ {a} : artifacts'[x] = artifacts[x]
  /\ \/ artifacts'[a].lifecycle = artifacts[a].lifecycle
     \/ /\ artifacts'[a].lifecycle \in Targets
        /\ CanTransition(artifacts[a].lifecycle, artifacts'[a].lifecycle)

LEMMA RegisterStores ==
  ASSUME RecordsOK, NEW r \in RegisterRequests, NEW e \in Envelopes, Register(r, e)
  PROVE  /\ r.id \in Artifacts /\ Stores(r.id)
         /\ artifacts'[r.id].lifecycle = "DECLARED"
         /\ artifacts'[r.id].content = r.content
         /\ artifacts'[r.id].deps = r.deps
<1> DEFINE d == [lifecycle |-> "DECLARED", validation |-> "UNVALIDATED",
                 generation |-> r.generation, content |-> r.content,
                 deps |-> r.deps, size |-> r.size]
<1>1. d \in Descriptors /\ r.id \in Artifacts
  BY RequestsAssumption DEF Requests, Descriptors, LifecycleStates, ValidationStates
<1>2. ~Registered(r.id) /\ artifacts' = [artifacts EXCEPT ![r.id] = d]
  BY DEF Register
<1>3. d.lifecycle = "DECLARED" /\ d.content = r.content /\ d.deps = r.deps
  OBVIOUS
<1> HIDE DEF d
<1>4. artifacts'[r.id] = d /\ \A x \in Artifacts \ {r.id} : artifacts'[x] = artifacts[x]
  BY <1>1, <1>2 DEF RecordsOK
<1>5. QED
  BY <1>1, <1>2, <1>3, <1>4 DEF Stores

LEMMA PublishStores ==
  ASSUME RecordsOK, NEW r \in PublishRequests, NEW e \in Envelopes, Publishes(r, e)
  PROVE  /\ Stores(r.id)
         /\ artifacts'[r.id].lifecycle \in {"BUILDING", "PUBLISHED"}
         /\ artifacts'[r.id].content = r.content
         /\ artifacts'[r.id].deps = r.deps
         /\ artifacts'[r.id].size = r.size
<1>1. /\ ~Registered(r.id)
      /\ \/ artifacts' = [artifacts EXCEPT ![r.id] = Building(r)]
         \/ artifacts' = [artifacts EXCEPT ![r.id] = PublishedRecord(r)]
  BY DEF Publishes, Publish, PublishOverflowing, PublishesUnindexed,
         PublishWithoutNode, PublishRefusedAt, MayPublish
<1>2. PICK d \in {Building(r), PublishedRecord(r)} : artifacts' = [artifacts EXCEPT ![r.id] = d]
  BY <1>1
<1>3. d \in Descriptors
  BY PublishRecordTypes
<1>4. /\ d.lifecycle \in {"BUILDING", "PUBLISHED"} /\ d.content = r.content
      /\ d.deps = r.deps /\ d.size = r.size
  <2>1. CASE d = Building(r)
    BY <2>1 DEF Building
  <2>2. CASE d = PublishedRecord(r)
    BY <2>2 DEF Building, PublishedRecord
  <2>3. QED
    BY <2>1, <2>2
<1>5. artifacts'[r.id] = d /\ \A x \in Artifacts \ {r.id} : artifacts'[x] = artifacts[x]
  <2>1. r.id \in Artifacts
    BY PublishRequestType
  <2>2. QED
    BY <1>2, <2>1 DEF RecordsOK
<1>6. QED
  BY <1>1, <1>3, <1>4, <1>5 DEF Stores

LEMMA EditOneAdvances ==
  ASSUME RecordsOK, NEW a \in Artifacts, NEW e \in Envelopes,
         \/ \E report \in Reports : Validate(a, report, e) \/ ValidateRefused(a, report, e)
         \/ Promote(a, e) \/ PromoteRefused(a, e)
         \/ \E new \in Artifacts : Supersede(a, new, e) \/ SupersedeRefused(a, new, e)
         \/ Quarantine(a, e) \/ QuarantineRefused(a, e)
         \/ RetireRefused(a, e)
  PROVE  /\ Advances(a)
         /\ artifacts'[a].lifecycle = "RETIRED" => artifacts[a].lifecycle = "RETIRED"
         /\ artifacts'[a].lifecycle = "SUPERSEDED" =>
              \/ artifacts[a].lifecycle = "SUPERSEDED"
              \/ \E new \in Artifacts : Supersede(a, new, e)
<1>1. Registered(a)
  BY DEF Validate, ValidateRefused, Promote, PromoteRefused, Supersede, SupersedeRefused,
         MayEdit, MaySupersede, Quarantine, QuarantineRefused, RetireRefused
<1>2. PICK d \in Descriptors, state \in Targets :
        /\ SameButValidation(d, artifacts[a])
        /\ Moves(a, d, state) \/ Refuses(a, d, state)
        /\ Moves(a, d, state) =>
             /\ state # "RETIRED"
             /\ state = "SUPERSEDED" => \E new \in Artifacts : Supersede(a, new, e)
  BY EditOneForm
<1>3. CASE Moves(a, d, state)
  <2> DEFINE moved == [d EXCEPT !.lifecycle = state]
  <2>1. state \in LifecycleStates
    BY TargetsAreStates
  <2>2. /\ moved \in Descriptors
        /\ moved.lifecycle = state /\ moved.content = d.content /\ moved.deps = d.deps
        /\ moved.size = d.size
    BY <2>1 DEF Descriptors
  <2>3. artifacts' = [artifacts EXCEPT ![a] = moved] /\ CanTransition(d.lifecycle, state)
    BY <1>3 DEF Moves
  <2> HIDE DEF moved
  <2>4. artifacts'[a] = moved /\ \A x \in Artifacts \ {a} : artifacts'[x] = artifacts[x]
    BY <2>3 DEF RecordsOK
  <2>5. QED
    BY <1>1, <1>2, <1>3, <2>2, <2>3, <2>4 DEF Advances, SameButValidation
<1>4. CASE Refuses(a, d, state)
  <2>1. artifacts'[a] = d /\ \A x \in Artifacts \ {a} : artifacts'[x] = artifacts[x]
    BY <1>4 DEF RecordsOK, Refuses
  <2>2. QED
    BY <1>1, <1>2, <2>1 DEF Advances, SameButValidation
<1>5. QED
  BY <1>2, <1>3, <1>4

LEMMA RetireAdvances ==
  ASSUME RecordsOK, NEW a \in Artifacts, NEW e \in Envelopes, Retires(a, e)
  PROVE  /\ Advances(a)
         /\ artifacts[a].lifecycle # "RETIRED" /\ artifacts'[a].lifecycle = "RETIRED"
<1>1. /\ Registered(a) /\ CanTransition(artifacts[a].lifecycle, "RETIRED")
      /\ artifacts' = [artifacts EXCEPT ![a].lifecycle = "RETIRED"]
  BY DEF Retires
<1>2. artifacts[a] \in Descriptors
  BY <1>1, RegisteredDescriptor
<1>3. /\ artifacts'[a] = [artifacts[a] EXCEPT !.lifecycle = "RETIRED"]
      /\ \A x \in Artifacts \ {a} : artifacts'[x] = artifacts[x]
  BY <1>1 DEF RecordsOK
<1>4. /\ artifacts'[a] \in Descriptors
      /\ artifacts'[a].lifecycle = "RETIRED"
      /\ artifacts'[a].content = artifacts[a].content
      /\ artifacts'[a].deps = artifacts[a].deps
      /\ artifacts'[a].size = artifacts[a].size
  BY <1>2, <1>3 DEF Descriptors, LifecycleStates
<1>5. artifacts[a].lifecycle # "RETIRED"
  BY <1>1 DEF CanTransition, Successors, LifecycleStates
<1>6. "RETIRED" \in Targets
  BY DEF Targets
<1>7. QED
  BY <1>1, <1>3, <1>4, <1>5, <1>6 DEF Advances

(* The states an invalidation takes artifacts out of. *)
Reachable == {"VALID", "PUBLISHED", "ACTIVE", "STALE"}

LEMMA ReachableOnly ==
  ASSUME NEW a, ~Blocks(a)
  PROVE  artifacts[a].lifecycle \in Reachable
BY DEF Blocks, CanTransition, Successors, LifecycleStates, Reachable

LEMMA InvalidateForm ==
  ASSUME RecordsOK, NEW a \in Artifacts, NEW c \in Causes, NEW e \in Envelopes,
         \/ Invalidate(a, c, e)
         \/ \E i \in 1..Len(Visits(a)) : InvalidateStoppedAt(a, i, c, e)
  PROVE  /\ \E hit \in SUBSET Artifacts : \E stuck :
              /\ \A x \in hit : artifacts[x].lifecycle \in Reachable
              /\ Invalidates(hit, stuck, c)
         /\ UNCHANGED <<graph, store, nextGeneration, authority, supersessions, quarantineRecords>>
<1> DEFINE Form == \E hit \in SUBSET Artifacts : \E stuck :
                     /\ \A x \in hit : artifacts[x].lifecycle \in Reachable
                     /\ Invalidates(hit, stuck, c)
<1>1. CASE Invalidate(a, c, e)
  <2> DEFINE hit == {x \in Artifacts : \E i \in 1..Len(Visits(a)) : Visits(a)[i] = x}
  <2>1. \A x \in hit : artifacts[x].lifecycle \in Reachable
    BY <1>1, ReachableOnly DEF Invalidate
  <2>2. Invalidates(hit, {}, c)
    BY <1>1 DEF Invalidate
  <2> HIDE DEF hit
  <2>3. hit \in SUBSET Artifacts
    BY DEF hit
  <2>4. Form
    BY <2>1, <2>2, <2>3
  <2>5. QED
    BY <1>1, <2>4 DEF Invalidate
<1>2. ASSUME NEW i \in 1..Len(Visits(a)), InvalidateStoppedAt(a, i, c, e)
      PROVE  /\ Form
             /\ UNCHANGED <<graph, store, nextGeneration, authority, supersessions,
                            quarantineRecords>>
  <2> DEFINE hit == {x \in Artifacts : \E j \in 1..(i - 1) : Visits(a)[j] = x}
  <2>1. \A x \in hit : artifacts[x].lifecycle \in Reachable
    BY <1>2, ReachableOnly DEF InvalidateStoppedAt
  <2>2. Invalidates(hit, {Visits(a)[i]}, c)
    BY <1>2 DEF InvalidateStoppedAt
  <2> HIDE DEF hit
  <2>3. hit \in SUBSET Artifacts
    BY DEF hit
  <2>4. Form
    BY <2>1, <2>2, <2>3
  <2>5. QED
    BY <1>2, <2>4 DEF InvalidateStoppedAt
<1>3. QED
  BY <1>1, <1>2

-----------------------------------------------------------------------------
(* What the catalog remembers: supersessions and causes. *)

AfterSuperseded == {"SUPERSEDED", "QUARANTINED", "RETIRED"}
AfterInvalidated == {"INVALIDATED", "QUARANTINED", "RETIRED"}

(* A change of the records that supersedes and invalidates nothing, and    *)
(* leaves what was superseded or invalidated before where it may be.       *)
Quiet ==
  \A x \in Artifacts :
    /\ artifacts'[x].lifecycle = "INVALIDATED" => artifacts[x].lifecycle = "INVALIDATED"
    /\ artifacts[x].lifecycle \in AfterInvalidated => artifacts'[x].lifecycle \in AfterInvalidated
    /\ artifacts[x].lifecycle \in AfterSuperseded => artifacts'[x].lifecycle \in AfterSuperseded

LEMMA AbsentLifecycle ==
  ASSUME NEW a, ~Registered(a)
  PROVE  artifacts[a].lifecycle = "ABSENT"
BY DEF Registered, Absent

LEMMA StoresQuiet ==
  ASSUME NEW a \in Artifacts, Stores(a),
         artifacts'[a].lifecycle \in {"DECLARED", "BUILDING", "PUBLISHED"}
  PROVE  Quiet /\ artifacts'[a].lifecycle # "SUPERSEDED"
BY AbsentLifecycle DEF Stores, Quiet, AfterSuperseded, AfterInvalidated

(* The table, read at the targets operations ask for. *)
LEMMA TableQuiet ==
  ASSUME NEW from, NEW to \in Targets, CanTransition(from, to)
  PROVE  /\ to # "INVALIDATED"
         /\ from \in AfterInvalidated => to \in AfterInvalidated
         /\ from \in AfterSuperseded => to \in AfterSuperseded
         /\ to = "SUPERSEDED" => from \notin AfterSuperseded
BY DEF Targets, CanTransition, Successors, LifecycleStates, AfterSuperseded, AfterInvalidated

LEMMA AdvancesQuiet ==
  ASSUME NEW a \in Artifacts, Advances(a)
  PROVE  Quiet
<1> SUFFICES ASSUME NEW x \in Artifacts
             PROVE  /\ artifacts'[x].lifecycle = "INVALIDATED" => artifacts[x].lifecycle = "INVALIDATED"
                    /\ artifacts[x].lifecycle \in AfterInvalidated => artifacts'[x].lifecycle \in AfterInvalidated
                    /\ artifacts[x].lifecycle \in AfterSuperseded => artifacts'[x].lifecycle \in AfterSuperseded
  BY DEF Quiet
<1>1. CASE artifacts'[x].lifecycle = artifacts[x].lifecycle
  BY <1>1
<1>2. CASE artifacts'[x].lifecycle # artifacts[x].lifecycle
  <2>1. x = a
    BY <1>2 DEF Advances
  <2>2. /\ artifacts'[a].lifecycle \in Targets
        /\ CanTransition(artifacts[a].lifecycle, artifacts'[a].lifecycle)
    BY <1>2, <2>1 DEF Advances
  <2>3. QED
    BY <2>1, <2>2, TableQuiet
<1>3. QED
  BY <1>1, <1>2

LEMMA SupersessionsKept ==
  ASSUME SupersessionRecorded, supersessions \subseteq Artifacts \X Artifacts,
         Quiet, UNCHANGED supersessions,
         \A x \in Artifacts : artifacts'[x].lifecycle = "SUPERSEDED" =>
                                artifacts[x].lifecycle = "SUPERSEDED"
  PROVE  SupersessionRecorded'
BY DEF SupersessionRecorded, Quiet, AfterSuperseded

LEMMA CausesKept ==
  ASSUME CauseRecorded, Quiet, UNCHANGED cause,
         accounts'.invalidations = accounts.invalidations
  PROVE  CauseRecorded'
<1>1. {a \in Artifacts : cause'[a] # NoCause} = {a \in Artifacts : cause[a] # NoCause}
  OBVIOUS
<1>2. accounts'.invalidations = Cardinality({a \in Artifacts : cause'[a] # NoCause})
  BY <1>1 DEF CauseRecorded
<1>3. QED
  BY <1>2 DEF CauseRecorded, Quiet, AfterInvalidated

(* The counter of invalidations moves with invalidations only. *)
LEMMA InvalidationsCounted ==
  ASSUME AccountsOK,
         \/ \E r \in PublishRequests, e \in Envelopes : Publishes(r, e)
         \/ \E a \in Artifacts, e \in Envelopes :
              Retire(a, e) \/ RetireShortOfPhysicalBytes(a, e) \/ RetireShortOfLogical(a, e)
         \/ \E pair : Records(pair)
         \/ UNCHANGED accounts
  PROVE  accounts'.invalidations = accounts.invalidations
<1> USE DEF AccountsOK, Accounts
<1>1. ASSUME NEW r \in PublishRequests, NEW e \in Envelopes, Publishes(r, e)
      PROVE  accounts'.invalidations = accounts.invalidations
  <2>1. accounts' = Staged(r) \/ accounts' = Committed(r)
    BY <1>1 DEF Publishes, Publish, PublishOverflowing, PublishesUnindexed,
                PublishWithoutNode, PublishRefusedAt
  <2>2. Staged(r) \in Accounts /\ Staged(r).invalidations = accounts.invalidations
    <3>1. Staged(r) \in Accounts
      BY StagedAccounts
    <3>2. Staged(r).invalidations = accounts.invalidations
      BY DEF Staged
    <3>3. QED
      BY <3>1, <3>2
  <2>3. Committed(r).invalidations = accounts.invalidations
    BY <2>2 DEF Committed
  <2>4. QED
    BY <2>1, <2>2, <2>3
<1>2. ASSUME NEW a \in Artifacts, NEW e \in Envelopes,
             Retire(a, e) \/ RetireShortOfPhysicalBytes(a, e) \/ RetireShortOfLogical(a, e)
      PROVE  accounts'.invalidations = accounts.invalidations
  <2>1. PICK u \in {Unbacked(artifacts[a]), [accounts EXCEPT !.physicalBacking = @ - 1]} :
          \/ accounts' = [u EXCEPT !.logicalArtifacts = @ - 1,
                                   !.logicalBytes = @ - artifacts[a].size,
                                   !.activeReferences = @ - 1]
          \/ accounts' = [u EXCEPT !.logicalArtifacts = @ - 1]
          \/ accounts' = [u EXCEPT !.logicalArtifacts = @ - 1,
                                   !.logicalBytes = @ - artifacts[a].size]
          \/ accounts' = u
    BY <1>2 DEF Retire, RetireShortOfPhysicalBytes, RetireShortOfLogical
  <2>2. u.invalidations = accounts.invalidations /\ DOMAIN u = DOMAIN accounts
    BY <2>1 DEF Unbacked
  <2>3. DOMAIN accounts = DOMAIN NoAccounts
    BY DEF NoAccounts
  <2>4. QED
    BY <2>1, <2>2, <2>3 DEF NoAccounts
<1>3. ASSUME NEW pair, Records(pair)
      PROVE  accounts'.invalidations = accounts.invalidations
  BY <1>3 DEF Records
<1>4. QED
  BY <1>1, <1>2, <1>3

(* Superseding takes an artifact that was not superseded before. *)
LEMMA SupersedeRecorded ==
  ASSUME RecordsOK, SupersessionRecorded, NEW a \in Artifacts, NEW new \in Artifacts,
         NEW e \in Envelopes, Supersede(a, new, e)
  PROVE  SupersessionRecorded'
<1>1. /\ CanTransition(artifacts[a].lifecycle, "SUPERSEDED")
      /\ artifacts' = [artifacts EXCEPT ![a] = [artifacts[a] EXCEPT !.lifecycle = "SUPERSEDED"]]
      /\ supersessions' = supersessions \cup {<<a, new>>}
  BY DEF Supersede, Moves, Records
<1>2. artifacts[a].lifecycle \notin AfterSuperseded
  BY <1>1, TableQuiet DEF Targets
<1>3. artifacts[a] \in Descriptors
  BY RegisteredDescriptor DEF Supersede, MaySupersede
<1>4. /\ artifacts'[a].lifecycle = "SUPERSEDED"
      /\ \A x \in Artifacts \ {a} : artifacts'[x] = artifacts[x]
  BY <1>1, <1>3 DEF RecordsOK, Descriptors
<1>5. \A p \in supersessions : p \in Artifacts \X Artifacts /\ p[1] # a
  BY <1>2 DEF SupersessionRecorded, AfterSuperseded, RecordsOK
<1>6. \A x \in Artifacts : artifacts'[x].lifecycle = "SUPERSEDED" =>
                             \E b \in Artifacts : <<x, b>> \in supersessions'
  BY <1>1, <1>4 DEF SupersessionRecorded
<1>7. \A p, q \in supersessions' : p[1] = q[1] => p = q
  <2> SUFFICES ASSUME NEW p \in supersessions', NEW q \in supersessions', p[1] = q[1]
               PROVE  p = q
    OBVIOUS
  <2>1. CASE p = <<a, new>> \/ q = <<a, new>>
    BY <1>1, <1>5, <2>1
  <2>2. CASE p # <<a, new>> /\ q # <<a, new>>
    BY <1>1, <2>2 DEF SupersessionRecorded
  <2>3. QED
    BY <2>1, <2>2
<1>8. \A p \in supersessions' : artifacts'[p[1]].lifecycle \in AfterSuperseded
  <2> SUFFICES ASSUME NEW p \in supersessions'
               PROVE  artifacts'[p[1]].lifecycle \in AfterSuperseded
    OBVIOUS
  <2>1. CASE p = <<a, new>>
    BY <1>4, <2>1 DEF AfterSuperseded
  <2>2. CASE p \in supersessions
    <3>1. p[1] \in Artifacts \ {a}
      BY <1>5, <2>2
    <3>2. QED
      BY <1>4, <2>2, <3>1 DEF SupersessionRecorded, AfterSuperseded
  <2>3. QED
    BY <1>1, <2>1, <2>2
<1>9. QED
  BY <1>6, <1>7, <1>8 DEF SupersessionRecorded, AfterSuperseded

(* Every hit was without a cause and gets one, and is counted once. *)
LEMMA InvalidatesRecorded ==
  ASSUME RecordsOK, AccountsOK, SupersessionRecorded, CauseRecorded,
         NEW hit \in SUBSET Artifacts, NEW stuck, NEW c \in Causes,
         \A x \in hit : artifacts[x].lifecycle \in Reachable,
         Invalidates(hit, stuck, c), UNCHANGED supersessions
  PROVE  SupersessionRecorded' /\ CauseRecorded'
<1>1. /\ \A x \in hit : artifacts'[x].lifecycle = "INVALIDATED" /\ cause'[x] = c
      /\ \A x \in Artifacts \ hit : artifacts'[x] = artifacts[x] /\ cause'[x] = cause[x]
  <2>1. ASSUME NEW x \in hit PROVE artifacts'[x].lifecycle = "INVALIDATED" /\ cause'[x] = c
    <3>1. Registered(x)
      BY <2>1 DEF Reachable, Registered, Absent
    <3>2. artifacts[x] \in Descriptors
      BY <3>1, RegisteredDescriptor
    <3>3. QED
      BY <3>2 DEF Invalidates, Descriptors
  <2>2. ASSUME NEW x \in Artifacts \ hit
        PROVE  artifacts'[x] = artifacts[x] /\ cause'[x] = cause[x]
    BY <2>2 DEF Invalidates
  <2>3. QED
    BY <2>1, <2>2
<1>2. c # NoCause
  BY CallersAssumption
<1>3. \A x \in hit : cause[x] = NoCause
  BY DEF CauseRecorded, Reachable
<1> DEFINE Old == {a \in Artifacts : cause[a] # NoCause}
           New == {a \in Artifacts : cause'[a] # NoCause}
<1>4. New = Old \cup hit /\ Old \cap hit = {}
  BY <1>1, <1>2, <1>3
<1>5. IsFiniteSet(Old) /\ IsFiniteSet(hit)
  BY IdsAssumption, FS_Subset
<1>6. Cardinality(New) = Cardinality(Old) + Cardinality(hit)
  <2>1. Cardinality(Old \cup hit) = Cardinality(Old) + Cardinality(hit) - Cardinality(Old \cap hit)
    BY <1>5, FS_Union
  <2>2. Cardinality(Old \cap hit) = 0
    BY <1>4, FS_EmptySet
  <2>3. Cardinality(Old) \in Nat /\ Cardinality(hit) \in Nat
    BY <1>5, FS_CardinalityType
  <2> HIDE DEF Old, New
  <2>4. Cardinality(New) = Cardinality(Old \cup hit)
    BY <1>4
  <2>5. QED
    BY <2>1, <2>2, <2>3, <2>4
<1>7. accounts'.invalidations = Cardinality(New)
  <2>1. accounts'.invalidations = accounts.invalidations + Cardinality(hit)
    BY DEF Invalidates, AccountsOK, Accounts
  <2>2. QED
    BY <1>6, <2>1 DEF CauseRecorded
<1>8. CauseRecorded'
  <2>1. ASSUME NEW x \in Artifacts, artifacts'[x].lifecycle = "INVALIDATED" PROVE cause'[x] # NoCause
    BY <1>1, <1>2, <2>1 DEF CauseRecorded
  <2>2. ASSUME NEW x \in Artifacts, cause'[x] # NoCause
        PROVE  artifacts'[x].lifecycle \in AfterInvalidated
    BY <1>1, <2>2 DEF CauseRecorded, AfterInvalidated
  <2>3. QED
    BY <1>7, <2>1, <2>2 DEF CauseRecorded, AfterInvalidated
<1>9. SupersessionRecorded'
  <2>1. \A p \in supersessions : p[1] \in Artifacts \ hit
    BY DEF SupersessionRecorded, Reachable, RecordsOK
  <2>2. QED
    BY <1>1, <2>1 DEF SupersessionRecorded
<1>10. QED
  BY <1>8, <1>9

HistoryInv == SupersessionRecorded /\ CauseRecorded

LEMMA NextHistoryInv ==
  ASSUME RecordsOK, AccountsOK, HistoryInv, [Next]_vars
  PROVE  HistoryInv'
<1>1. supersessions \subseteq Artifacts \X Artifacts
  BY DEF RecordsOK
<1>2. CASE UNCHANGED <<artifacts, accounts, supersessions, cause>>
  BY <1>2 DEF HistoryInv, SupersessionRecorded, CauseRecorded
<1>3. ASSUME NEW r \in RegisterRequests, NEW e \in Envelopes, Register(r, e)
      PROVE  HistoryInv'
  <2>1. /\ r.id \in Artifacts /\ Stores(r.id)
        /\ artifacts'[r.id].lifecycle = "DECLARED"
    BY <1>3, RegisterStores
  <2>2. Quiet /\ \A x \in Artifacts : artifacts'[x].lifecycle = "SUPERSEDED" =>
                                        artifacts[x].lifecycle = "SUPERSEDED"
    BY <2>1, StoresQuiet DEF Stores
  <2>3. UNCHANGED <<accounts, supersessions, cause>>
    BY <1>3 DEF Register, history
  <2>4. QED
    BY <1>1, <2>2, <2>3, SupersessionsKept, CausesKept DEF HistoryInv
<1>4. ASSUME NEW r \in PublishRequests, NEW e \in Envelopes, Publishes(r, e)
      PROVE  HistoryInv'
  <2>1. /\ r.id \in Artifacts /\ Stores(r.id)
        /\ artifacts'[r.id].lifecycle \in {"BUILDING", "PUBLISHED"}
    BY <1>4, PublishStores, PublishRequestType
  <2>2. Quiet /\ \A x \in Artifacts : artifacts'[x].lifecycle = "SUPERSEDED" =>
                                        artifacts[x].lifecycle = "SUPERSEDED"
    BY <2>1, StoresQuiet DEF Stores
  <2>3. UNCHANGED <<supersessions, cause>>
    BY <1>4 DEF Publishes, Publish, PublishOverflowing, PublishesUnindexed,
                PublishWithoutNode, PublishRefusedAt, history
  <2>4. accounts'.invalidations = accounts.invalidations
    BY <1>4, InvalidationsCounted
  <2>5. QED
    BY <1>1, <2>2, <2>3, <2>4, SupersessionsKept, CausesKept DEF HistoryInv
<1>5. ASSUME NEW a \in Artifacts, NEW e \in Envelopes, Edits(a, e)
      PROVE  HistoryInv'
  <2>1. ASSUME NEW c \in Causes,
               \/ Invalidate(a, c, e)
               \/ \E i \in 1..Len(Visits(a)) : InvalidateStoppedAt(a, i, c, e)
        PROVE  HistoryInv'
    <3>1. PICK hit \in SUBSET Artifacts : \E stuck :
            /\ \A x \in hit : artifacts[x].lifecycle \in Reachable
            /\ Invalidates(hit, stuck, c)
      BY <2>1, InvalidateForm
    <3>2. UNCHANGED supersessions
      BY <2>1, InvalidateForm
    <3>3. QED
      BY <3>1, <3>2, InvalidatesRecorded DEF HistoryInv
  <2>2. CASE Retire(a, e) \/ RetireShortOfPhysicalBytes(a, e) \/ RetireShortOfLogical(a, e)
    <3>1. Retires(a, e)
      BY <2>2 DEF Retire, RetireShortOfPhysicalBytes, RetireShortOfLogical
    <3>2. Advances(a) /\ artifacts'[a].lifecycle = "RETIRED"
      BY <3>1, RetireAdvances
    <3>3. \A x \in Artifacts : artifacts'[x].lifecycle = "SUPERSEDED" =>
                                 artifacts[x].lifecycle = "SUPERSEDED"
      BY <3>2 DEF Advances
    <3>4. UNCHANGED <<supersessions, cause>>
      BY <3>1 DEF Retires, history
    <3>5. accounts'.invalidations = accounts.invalidations
      BY <2>2, InvalidationsCounted
    <3>6. QED
      BY <1>1, <3>2, <3>3, <3>4, <3>5, AdvancesQuiet, SupersessionsKept, CausesKept DEF HistoryInv
  <2>3. ASSUME \/ \E report \in Reports : Validate(a, report, e) \/ ValidateRefused(a, report, e)
               \/ Promote(a, e) \/ PromoteRefused(a, e)
               \/ \E new \in Artifacts : Supersede(a, new, e) \/ SupersedeRefused(a, new, e)
               \/ Quarantine(a, e) \/ QuarantineRefused(a, e)
               \/ RetireRefused(a, e)
        PROVE  HistoryInv'
    <3>1. Advances(a) /\ Quiet
      BY <2>3, EditOneAdvances, AdvancesQuiet
    <3>2. UNCHANGED cause
      BY <2>3 DEF Validate, ValidateRefused, Promote, PromoteRefused, Supersede,
                  SupersedeRefused, Quarantine, QuarantineRefused, RetireRefused, history
    <3>3. UNCHANGED accounts \/ \E pair : Records(pair)
      BY <2>3 DEF Validate, ValidateRefused, Promote, PromoteRefused, Supersede,
                  SupersedeRefused, Quarantine, QuarantineRefused, RetireRefused
    <3>4. CauseRecorded'
      BY <3>1, <3>2, <3>3, InvalidationsCounted, CausesKept DEF HistoryInv
    <3>5. ASSUME NEW new \in Artifacts, Supersede(a, new, e)
          PROVE  SupersessionRecorded'
      BY <3>5, SupersedeRecorded DEF HistoryInv
    <3>6. ASSUME ~ \E new \in Artifacts : Supersede(a, new, e)
          PROVE  SupersessionRecorded'
      <4>1. \A x \in Artifacts : artifacts'[x].lifecycle = "SUPERSEDED" =>
                                   artifacts[x].lifecycle = "SUPERSEDED"
        <5>1. artifacts'[a].lifecycle = "SUPERSEDED" => artifacts[a].lifecycle = "SUPERSEDED"
          BY <2>3, <3>6, EditOneAdvances
        <5>2. QED
          BY <3>1, <5>1 DEF Advances
      <4>2. UNCHANGED supersessions
        BY <2>3, <3>6 DEF Validate, ValidateRefused, Promote, PromoteRefused,
                          SupersedeRefused, Quarantine, QuarantineRefused, RetireRefused, history
      <4>3. QED
        BY <1>1, <3>1, <4>1, <4>2, SupersessionsKept DEF HistoryInv
    <3>7. QED
      BY <3>4, <3>5, <3>6 DEF HistoryInv
  <2>4. QED
    BY <1>5, <2>1, <2>2, <2>3 DEF Edits
<1>6. QED
  BY <1>2, <1>3, <1>4, <1>5 DEF Next, SetAuthority, RollEpoch, RebuildIndexes, history, vars

LEMMA CatalogHistory == Spec => []HistoryInv
<1>1. Init => HistoryInv
  <2> SUFFICES ASSUME Init PROVE HistoryInv
    OBVIOUS
  <2>1. {a \in Artifacts : cause[a] # NoCause} = {}
    BY DEF Init
  <2>2. accounts.invalidations = Cardinality({a \in Artifacts : cause[a] # NoCause})
    BY <2>1, FS_EmptySet DEF Init, NoAccounts
  <2>3. QED
    BY <2>2 DEF Init, HistoryInv, SupersessionRecorded, CauseRecorded, Absent
<1>2. RecordsOK /\ AccountsOK /\ HistoryInv /\ [Next]_vars => HistoryInv'
  BY NextHistoryInv
<1>3. QED
  BY <1>1, <1>2, CatalogRecordsOK, PTL DEF Spec

(* Every superseded artifact has the one successor explain names, and none *)
(* that was not superseded has one, whatever became of it since.           *)
THEOREM CatalogRecordsSupersessions == Spec => []SupersessionRecorded
BY CatalogHistory, PTL DEF HistoryInv

(* Every invalidation has its cause on record and is counted exactly once, *)
(* also when a propagation stops half way.                                 *)
THEOREM CatalogRecordsCauses == Spec => []CauseRecorded
BY CatalogHistory, PTL DEF HistoryInv

-----------------------------------------------------------------------------
(* The reference counts. *)

(* Fewer artifacts than a count can tell apart, so that none wraps. *)
CountsFit == Cardinality(Artifacts) < RefModulus

(* Artifacts are registered before there is content for them, as the one   *)
(* caller of register_artifact does (af_cli's register).                   *)
BareRegistrations == \A r \in RegisterRequests : r.content = NoContent

(* A reference count and a stored content for everything somebody holds,   *)
(* where H says who holds what.                                            *)
Counted(H, counts, stored) ==
  \A c \in Contents : counts[c] = Cardinality(H[c]) /\ (H[c] # {} => c \in stored)

Tables == [Contents -> SUBSET Artifacts]

LEMMA TableCounted ==
  ASSUME NEW H \in Tables, NEW c \in Contents
  PROVE  /\ H[c] \in SUBSET Artifacts /\ IsFiniteSet(H[c]) /\ Cardinality(H[c]) \in Nat
<1>1. H[c] \in SUBSET Artifacts
  BY DEF Tables
<1>2. QED
  BY <1>1, IdsAssumption, FS_Subset, FS_CardinalityType

(* Nobody gains or gives up a reference. *)
LEMMA CountKept ==
  ASSUME NEW H, NEW I, Counted(H, refs, backed), UNCHANGED store,
         \A c \in Contents : I[c] = H[c]
  PROVE  Counted(I, refs', backed')
BY DEF Counted, store

(* One artifact that held nothing gains a reference. *)
LEMMA CountGained ==
  ASSUME RecordsOK, CountsFit, NEW H \in Tables, NEW I, Counted(H, refs, backed),
         NEW a \in Artifacts, NEW r, r.content \in Contents, Stages(r),
         a \notin H[r.content],
         \A c \in Contents : I[c] = IF c = r.content THEN H[c] \cup {a} ELSE H[c]
  PROVE  Counted(I, refs', backed')
<1> DEFINE n == Cardinality(H[r.content])
<1>1. /\ IsFiniteSet(H[r.content]) /\ n \in Nat
      /\ refs[r.content] = n
      /\ H[r.content] # {} => r.content \in backed
  BY TableCounted DEF Counted
<1>2. Cardinality(H[r.content] \cup {a}) = n + 1
  BY <1>1, FS_AddElement
<1>3. n + 1 < RefModulus
  <2>1. H[r.content] \cup {a} \in SUBSET Artifacts
    BY TableCounted
  <2>2. Cardinality(H[r.content] \cup {a}) <= Cardinality(Artifacts)
    BY <2>1, IdsAssumption, FS_Subset
  <2>3. Cardinality(Artifacts) \in Nat
    BY IdsAssumption, FS_CardinalityType
  <2> HIDE DEF n
  <2>4. QED
    BY <1>1, <1>2, <2>2, <2>3, BoundsAssumption DEF CountsFit
<1>4. refs'[r.content] = n + 1
  <2>1. CASE r.content \in backed
    <3>1. refs'[r.content] = Raised(n)
      BY <1>1, <2>1 DEF Stages, RecordsOK
    <3> HIDE DEF n
    <3>2. QED
      BY <1>1, <1>3, <3>1, BoundsAssumption DEF Raised
  <2>2. CASE r.content \notin backed
    <3>1. n = 0
      BY <1>1, <2>2, FS_EmptySet
    <3>2. refs'[r.content] = 1
      BY <2>2 DEF Stages, RecordsOK
    <3>3. QED
      BY <3>1, <3>2
  <2>3. QED
    BY <2>1, <2>2
<1>5. /\ \A c \in Contents \ {r.content} : refs'[c] = refs[c]
      /\ backed' = backed \cup {r.content}
  BY DEF Stages, RecordsOK
<1> HIDE DEF n
<1>6. ASSUME NEW c \in Contents
      PROVE  refs'[c] = Cardinality(I[c]) /\ (I[c] # {} => c \in backed')
  <2>1. CASE c = r.content
    BY <1>2, <1>4, <1>5, <2>1 DEF n
  <2>2. CASE c # r.content
    BY <1>5, <2>2 DEF Counted
  <2>3. QED
    BY <2>1, <2>2
<1>7. QED
  BY <1>6 DEF Counted

LEMMA NothingTaken ==
  ASSUME NEW S, NEW a, a \notin S
  PROVE  S \ {a} = S
OBVIOUS

(* One artifact gives its reference up, if its content is stored at all. *)
LEMMA CountGivenUp ==
  ASSUME RecordsOK, NEW H \in Tables, NEW I, Counted(H, refs, backed),
         NEW a \in Artifacts, artifacts[a] \in Descriptors,
         refs' = Released(artifacts[a]),
         UNCHANGED backed \/ Erases(artifacts[a]),
         \A c \in Contents : (a \in H[c] <=> artifacts[a].content = c) /\ I[c] = H[c] \ {a}
  PROVE  Counted(I, refs', backed')
<1> DEFINE content == artifacts[a].content
           n == Cardinality(H[content])
<1>1. content \in Contents \cup {NoContent}
  BY DEF Descriptors
<1>2. CASE content = NoContent
  <2>1. content \notin backed
    BY <1>2, ContentsAssumption DEF RecordsOK
  <2>2. UNCHANGED store
    BY <2>1 DEF Released, Erases, ReleasesLast, store
  <2>3. \A c \in Contents : a \notin H[c]
    BY <1>2, ContentsAssumption
  <2>4. \A c \in Contents : I[c] = H[c]
    BY <2>3, NothingTaken
  <2> HIDE DEF content, n
  <2>5. QED
    BY <2>2, <2>4, CountKept
<1>3. CASE content \in Contents
  <2>1. a \in H[content] /\ \A c \in Contents \ {content} : a \notin H[c]
    BY <1>3
  <2>2. /\ IsFiniteSet(H[content]) /\ n \in Nat
        /\ refs[content] = n /\ content \in backed
    BY <1>3, <2>1, TableCounted DEF Counted
  <2>3. Cardinality(H[content] \ {a}) = n - 1
    BY <2>1, <2>2, FS_RemoveElement
  <2>4. n # 0
    BY <2>1, <2>2, FS_EmptySet
  <2>5. Dropped(refs[content]) = n - 1
    BY <2>2, <2>4 DEF Dropped
  <2>6. /\ refs' = [refs EXCEPT ![content] = Dropped(@)]
        /\ backed' = backed \/ (n - 1 = 0 /\ backed' = backed \ {content})
    BY <2>2, <2>5 DEF Released, Erases, ReleasesLast
  <2>7. refs'[content] = n - 1 /\ \A c \in Contents \ {content} : refs'[c] = refs[c]
    BY <1>3, <2>5, <2>6 DEF RecordsOK
  <2>8. n - 1 = 0 => H[content] \ {a} = {}
    <3>1. IsFiniteSet(H[content] \ {a})
      BY <2>2, FS_RemoveElement
    <3>2. QED
      BY <2>3, <3>1, FS_EmptySet
  <2> HIDE DEF n
  <2>9. ASSUME NEW c \in Contents
        PROVE  refs'[c] = Cardinality(I[c]) /\ (I[c] # {} => c \in backed')
    <3>1. CASE c = content
      BY <2>2, <2>3, <2>6, <2>7, <2>8, <3>1
    <3>2. CASE c # content
      <4>1. I[c] = H[c]
        BY <2>1, <3>2, NothingTaken
      <4>2. c \in backed' <=> c \in backed
        BY <2>6, <3>2
      <4>3. QED
        BY <2>7, <3>2, <4>1, <4>2 DEF Counted
    <3>3. QED
      BY <3>1, <3>2
  <2>10. QED
    BY <2>9 DEF Counted
<1>4. QED
  BY <1>1, <1>2, <1>3

(* ReferencesExact says that the holders are counted. *)
LEMMA HoldersTable ==
  ASSUME NEW H, H = [c \in Contents |-> Holders(c)]
  PROVE  /\ H \in Tables /\ \A c \in Contents : H[c] = Holders(c)
         /\ ReferencesExact <=> Counted(H, refs, backed)
<1>1. \A c : Holders(c) \in SUBSET Artifacts
  BY DEF Holders
<1>2. QED
  BY <1>1 DEF Tables, ReferencesExact, Counted

LEMMA HoldersTableAfter ==
  ASSUME NEW I, I = [c \in Contents |-> Holders(c)']
  PROVE  /\ \A c \in Contents : I[c] = Holders(c)'
         /\ ReferencesExact' <=> Counted(I, refs', backed')
BY DEF ReferencesExact, Counted

(* Who holds what, after each kind of change. *)
LEMMA HoldersStored ==
  ASSUME NEW a \in Artifacts, Stores(a), artifacts'[a].lifecycle # "RETIRED",
         NEW c
  PROVE  /\ a \notin Holders(c)
         /\ Holders(c)' = IF artifacts'[a].content = c THEN Holders(c) \cup {a} ELSE Holders(c)
<1>1. Registered(a)'
  BY DEF Stores, Registered, Descriptors, Absent, LifecycleStates
<1>2. ~Registered(a) /\ \A x \in Artifacts \ {a} : artifacts'[x] = artifacts[x]
  BY DEF Stores
<1>3. a \notin Holders(c)
  BY <1>2 DEF Holders
<1>4. a \in Holders(c)' <=> artifacts'[a].content = c
  BY <1>1 DEF Holders, Registered
<1>5. ASSUME NEW x \in Artifacts, x # a
      PROVE  x \in Holders(c)' <=> x \in Holders(c)
  BY <1>2, <1>5 DEF Holders, Registered
<1>6. Holders(c) \subseteq Artifacts /\ Holders(c)' \subseteq Artifacts
  BY DEF Holders
<1>7. QED
  BY <1>3, <1>4, <1>5, <1>6

LEMMA HoldersAdvanced ==
  ASSUME NEW a \in Artifacts, Advances(a),
         artifacts'[a].lifecycle = "RETIRED" <=> artifacts[a].lifecycle = "RETIRED",
         NEW c
  PROVE  Holders(c)' = Holders(c)
<1>1. Registered(a) /\ Registered(a)'
  BY DEF Advances, Registered, Descriptors, Absent
<1>2. /\ artifacts'[a].content = artifacts[a].content
      /\ \A x \in Artifacts \ {a} : artifacts'[x] = artifacts[x]
  BY DEF Advances
<1>3. QED
  BY <1>1, <1>2 DEF Holders, Registered

LEMMA HoldersRetired ==
  ASSUME NEW a \in Artifacts, Advances(a), artifacts'[a].lifecycle = "RETIRED", NEW c
  PROVE  Holders(c)' = Holders(c) \ {a}
<1>1. \A x \in Artifacts \ {a} : artifacts'[x] = artifacts[x]
  BY DEF Advances
<1>2. a \notin Holders(c)'
  BY DEF Holders
<1>3. ASSUME NEW x \in Artifacts, x # a
      PROVE  x \in Holders(c)' <=> x \in Holders(c)
  BY <1>1, <1>3 DEF Holders, Registered
<1>4. QED
  BY <1>2, <1>3 DEF Holders

LEMMA HoldersInvalidated ==
  ASSUME RecordsOK, NEW hit \in SUBSET Artifacts, NEW stuck, NEW c,
         \A x \in hit : artifacts[x].lifecycle \in Reachable,
         Invalidates(hit, stuck, c), NEW content
  PROVE  Holders(content)' = Holders(content)
<1> SUFFICES ASSUME NEW x \in Artifacts
             PROVE  x \in Holders(content)' <=> x \in Holders(content)
  BY DEF Holders
<1>1. CASE x \in hit
  <2>1. Registered(x)
    BY <1>1 DEF Reachable, Registered, Absent
  <2>2. artifacts[x] \in Descriptors
    BY <2>1, RegisteredDescriptor
  <2>3. artifacts'[x] = [artifacts[x] EXCEPT !.lifecycle = "INVALIDATED"]
    BY <1>1 DEF Invalidates
  <2>4. /\ artifacts'[x].lifecycle = "INVALIDATED"
        /\ artifacts'[x].content = artifacts[x].content
        /\ artifacts'[x] # Absent
    BY <2>2, <2>3 DEF Descriptors, Absent
  <2>5. QED
    BY <1>1, <2>1, <2>4 DEF Holders, Registered, Reachable
<1>2. CASE x \notin hit
  <2>1. artifacts'[x] = artifacts[x]
    BY <1>2 DEF Invalidates
  <2>2. QED
    BY <2>1 DEF Holders, Registered
<1>3. QED
  BY <1>1, <1>2

(* Publications and edits change holders and counts together. *)
LEMMA PublishHolders ==
  ASSUME RecordsOK, NEW r \in PublishRequests, NEW e \in Envelopes, Publishes(r, e)
  PROVE  /\ r.id \in Artifacts /\ r.content \in Contents /\ ~Registered(r.id)
         /\ Stages(r) /\ r.id \notin Holders(r.content)
         /\ \A c \in Contents :
              Holders(c)' = IF c = r.content THEN Holders(c) \cup {r.id} ELSE Holders(c)
<1>1. /\ r.id \in Artifacts /\ Stores(r.id)
      /\ artifacts'[r.id].lifecycle # "RETIRED" /\ artifacts'[r.id].content = r.content
      /\ r.content \in Contents
  BY PublishStores, PublishRequestType
<1>2. Stages(r)
  BY DEF Publishes, Publish, PublishOverflowing, PublishesUnindexed,
              PublishWithoutNode, PublishRefusedAt
<1>3. r.id \notin Holders(r.content)
  BY <1>1, HoldersStored
<1>4. \A c \in Contents : Holders(c)' = IF c = r.content THEN Holders(c) \cup {r.id} ELSE Holders(c)
  BY <1>1, HoldersStored
<1>5. ~Registered(r.id)
  BY <1>1 DEF Stores
<1>6. QED
  BY <1>1, <1>2, <1>3, <1>4, <1>5

(* An edit leaves the holders alone, or a gives its reference up. *)
KeepsHolders == UNCHANGED store /\ \A c \in Contents : Holders(c)' = Holders(c)

GivesUp(a) ==
  /\ artifacts[a] \in Descriptors /\ artifacts[a].lifecycle # "RETIRED"
  /\ refs' = Released(artifacts[a]) /\ (UNCHANGED backed \/ Erases(artifacts[a]))
  /\ \A c \in Contents : Holders(c)' = Holders(c) \ {a}

LEMMA InvalidationHolders ==
  ASSUME RecordsOK, NEW a \in Artifacts, NEW e \in Envelopes, NEW c \in Causes,
         \/ Invalidate(a, c, e)
         \/ \E i \in 1..Len(Visits(a)) : InvalidateStoppedAt(a, i, c, e)
  PROVE  KeepsHolders
<1>1. PICK hit \in SUBSET Artifacts : \E stuck :
        /\ \A x \in hit : artifacts[x].lifecycle \in Reachable
        /\ Invalidates(hit, stuck, c)
  BY InvalidateForm
<1>2. UNCHANGED store
  BY InvalidateForm
<1>3. \A content \in Contents : Holders(content)' = Holders(content)
  BY <1>1, HoldersInvalidated
<1>4. QED
  BY <1>2, <1>3 DEF KeepsHolders

LEMMA EditHolders ==
  ASSUME RecordsOK, NEW a \in Artifacts, NEW e \in Envelopes, Edits(a, e)
  PROVE  KeepsHolders \/ GivesUp(a)
<1>1. CASE Retire(a, e) \/ RetireShortOfPhysicalBytes(a, e) \/ RetireShortOfLogical(a, e)
  <2>1. Retires(a, e)
    BY <1>1 DEF Retire, RetireShortOfPhysicalBytes, RetireShortOfLogical
  <2>2. /\ artifacts[a] \in Descriptors /\ artifacts[a].lifecycle # "RETIRED"
        /\ \A c \in Contents : Holders(c)' = Holders(c) \ {a}
    BY <2>1, RegisteredDescriptor, RetireAdvances, HoldersRetired DEF Retires
  <2>3. refs' = Released(artifacts[a]) /\ (UNCHANGED backed \/ Erases(artifacts[a]))
    BY <1>1, <2>1 DEF Retires, Retire, RetireShortOfPhysicalBytes, RetireShortOfLogical
  <2>4. QED
    BY <2>2, <2>3 DEF GivesUp
<1>2. ASSUME \/ \E report \in Reports : Validate(a, report, e) \/ ValidateRefused(a, report, e)
             \/ Promote(a, e) \/ PromoteRefused(a, e)
             \/ \E new \in Artifacts : Supersede(a, new, e) \/ SupersedeRefused(a, new, e)
             \/ Quarantine(a, e) \/ QuarantineRefused(a, e)
             \/ RetireRefused(a, e)
      PROVE  KeepsHolders
  <2>1. Advances(a) /\ (artifacts'[a].lifecycle = "RETIRED" => artifacts[a].lifecycle = "RETIRED")
    BY <1>2, EditOneAdvances
  <2>2. artifacts[a].lifecycle = "RETIRED" => artifacts'[a].lifecycle = "RETIRED"
    BY <2>1 DEF Advances, CanTransition, Successors, LifecycleStates
  <2>3. \A c \in Contents : Holders(c)' = Holders(c)
    BY <2>1, <2>2, HoldersAdvanced
  <2>4. UNCHANGED store
    BY <1>2 DEF Validate, ValidateRefused, Promote, PromoteRefused, Supersede,
                SupersedeRefused, Quarantine, QuarantineRefused, RetireRefused
  <2>5. QED
    BY <2>3, <2>4 DEF KeepsHolders
<1>3. QED
  BY <1>1, <1>2, InvalidationHolders DEF Edits

LEMMA HoldersHold ==
  ASSUME NEW a \in Artifacts, artifacts[a] \in Descriptors, artifacts[a].lifecycle # "RETIRED",
         NEW c
  PROVE  a \in Holders(c) <=> artifacts[a].content = c
BY DEF Holders, Registered, Descriptors, Absent

LEMMA NextReferencesExact ==
  ASSUME RecordsOK, ReferencesExact, CountsFit, BareRegistrations, [Next]_vars
  PROVE  ReferencesExact'
<1>1. PICK H : H = [c \in Contents |-> Holders(c)]
  OBVIOUS
<1>2. PICK I : I = [c \in Contents |-> Holders(c)']
  OBVIOUS
<1>3. /\ H \in Tables /\ Counted(H, refs, backed)
      /\ \A c \in Contents : H[c] = Holders(c) /\ I[c] = Holders(c)'
  BY <1>1, <1>2, HoldersTable, HoldersTableAfter
<1>4. ASSUME KeepsHolders PROVE Counted(I, refs', backed')
  BY <1>3, <1>4, CountKept DEF KeepsHolders
<1>5. CASE UNCHANGED <<artifacts, store>>
  BY <1>5 DEF ReferencesExact, Holders, Registered, store
<1>6. ASSUME NEW r \in RegisterRequests, NEW e \in Envelopes, Register(r, e)
      PROVE  Counted(I, refs', backed')
  <2>1. /\ r.id \in Artifacts /\ Stores(r.id)
        /\ artifacts'[r.id].lifecycle = "DECLARED" /\ artifacts'[r.id].content \notin Contents
    BY <1>6, RegisterStores, ContentsAssumption DEF BareRegistrations
  <2>2. \A c \in Contents : Holders(c)' = Holders(c)
    BY <2>1, HoldersStored
  <2>3. QED
    BY <1>4, <1>6, <2>2 DEF Register, KeepsHolders
<1>7. ASSUME NEW r \in PublishRequests, NEW e \in Envelopes, Publishes(r, e)
      PROVE  Counted(I, refs', backed')
  <2>1. /\ r.id \in Artifacts /\ r.content \in Contents /\ Stages(r)
        /\ r.id \notin Holders(r.content)
        /\ \A c \in Contents :
             Holders(c)' = IF c = r.content THEN Holders(c) \cup {r.id} ELSE Holders(c)
    BY <1>7, PublishHolders
  <2>2. /\ r.id \notin H[r.content]
        /\ \A c \in Contents : I[c] = IF c = r.content THEN H[c] \cup {r.id} ELSE H[c]
    BY <1>3, <2>1
  <2>3. /\ H \in Tables /\ Counted(H, refs, backed)
        /\ r.id \in Artifacts /\ r.content \in Contents /\ Stages(r)
    BY <1>3, <2>1
  <2>4. QED
    BY <2>2, <2>3, CountGained
<1>8. ASSUME NEW a \in Artifacts, NEW e \in Envelopes, Edits(a, e)
      PROVE  Counted(I, refs', backed')
  <2>1. ASSUME GivesUp(a) PROVE Counted(I, refs', backed')
    <3>1. \A c \in Contents : (a \in H[c] <=> artifacts[a].content = c) /\ I[c] = H[c] \ {a}
      BY <1>3, <2>1, HoldersHold DEF GivesUp
    <3>2. QED
      BY <1>3, <2>1, <3>1, CountGivenUp DEF GivesUp
  <2>2. QED
    BY <1>4, <1>8, <2>1, EditHolders
<1>9. QED
  BY <1>2, <1>5, <1>6, <1>7, <1>8, HoldersTableAfter
  DEF Next, SetAuthority, RollEpoch, RebuildIndexes, store, vars

LEMMA InitReferencesExact == Init => ReferencesExact
<1> SUFFICES ASSUME Init PROVE ReferencesExact
  OBVIOUS
<1>1. \A c : Holders(c) = {}
  BY DEF Init, Holders, Registered
<1>2. QED
  BY <1>1, FS_EmptySet DEF Init, ReferencesExact

(* The reference count of a digest is the number of unretired records that *)
(* have it, half-done publications included, and the bytes of a digest     *)
(* somebody holds are in the store.                                        *)
THEOREM CatalogCountsReferences ==
  ASSUME CountsFit, BareRegistrations
  PROVE  Spec => []ReferencesExact
<1>1. RecordsOK /\ ReferencesExact /\ [Next]_vars => ReferencesExact'
  BY NextReferencesExact
<1>2. QED
  BY <1>1, InitReferencesExact, CatalogRecordsOK, PTL DEF Spec

-----------------------------------------------------------------------------
(* Dependencies in records and in the graph. *)

(* Lifecycles an artifact can only be in when it was published. *)
Wired == Live \cup {"INVALIDATED", "SUPERSEDED"}

(* Nothing here is ever VALID, so that PUBLISHED is the only way into the  *)
(* lifecycles in Wired: publish does not pass through VALIDATING, and no   *)
(* operation but a staged publication does.                                *)
NeverReached == {"VALIDATING", "VALID", "STALE", "EVICTED"}

DependencyInv ==
  /\ DependenciesInGraph
  /\ \A a \in Artifacts : ~Registered(a) => graph.out[a] = {}
  /\ \A a \in Artifacts : artifacts[a].lifecycle \notin NeverReached

(* The dependencies a record declares, as a set. *)
Declared(d) == {d.deps[i] : i \in 1..Len(d.deps)}

LEMMA LinkedOut ==
  ASSUME RecordsOK, NEW r, r.id \in Artifacts, NEW i
  PROVE  /\ "out" \in DOMAIN Linked(r, i)
         /\ \A x \in Artifacts \ {r.id} : Linked(r, i).out[x] = graph.out[x]
         /\ Linked(r, i).out[r.id] = graph.out[r.id] \cup Earlier(r, i)
<1> DEFINE g == AddNodes(graph, {r.id} \cup Earlier(r, i))
           h == AddEdges(g, r.id, Earlier(r, i))
<1>1. g.out = graph.out /\ "out" \in DOMAIN g /\ graph.out \in [Artifacts -> SUBSET Artifacts]
  BY DEF AddNodes, RecordsOK, Graphs
<1> HIDE DEF g
<1>2. "out" \in DOMAIN h /\ h.out = [graph.out EXCEPT ![r.id] = @ \cup Earlier(r, i)]
  BY <1>1 DEF AddEdges
<1>3. Linked(r, i) = h
  BY DEF Linked, g
<1> HIDE DEF h
<1>4. QED
  BY <1>1, <1>2, <1>3

(* A publication adds edges from its own artifact only, and all of them    *)
(* when it goes through.                                                   *)
LEMMA PublishOut ==
  ASSUME RecordsOK, NEW r \in PublishRequests, NEW e \in Envelopes, Publishes(r, e)
  PROVE  /\ \A x \in Artifacts \ {r.id} : graph'.out[x] = graph.out[x]
         /\ artifacts'[r.id].lifecycle = "PUBLISHED" =>
              /\ PublishesUnindexed(r, e)
              /\ graph'.out[r.id] = graph.out[r.id] \cup Declared(r)
<1>1. r.id \in Artifacts /\ r.deps \in Seq(Artifacts)
  BY PublishRequestType
<1>2. CASE PublishesUnindexed(r, e)
  <2>1. graph' = Linked(r, Len(r.deps) + 1)
    BY <1>2 DEF PublishesUnindexed
  <2>2. Earlier(r, Len(r.deps) + 1) = Declared(r)
    BY <1>1 DEF Earlier, Declared
  <2>3. \A x \in Artifacts \ {r.id} : graph'.out[x] = graph.out[x]
    BY <1>1, <2>1, LinkedOut
  <2>4. graph'.out[r.id] = graph.out[r.id] \cup Declared(r)
    BY <1>1, <2>1, <2>2, LinkedOut
  <2>5. QED
    BY <1>2, <2>3, <2>4
<1>3. ASSUME artifacts' = [artifacts EXCEPT ![r.id] = Building(r)]
      PROVE  artifacts'[r.id].lifecycle # "PUBLISHED"
  BY <1>1, <1>3 DEF RecordsOK, Building
<1>4. CASE PublishWithoutNode(r, e)
  BY <1>3, <1>4 DEF PublishWithoutNode
<1>5. ASSUME NEW i \in 1..Len(r.deps), PublishRefusedAt(r, i, e)
      PROVE  /\ \A x \in Artifacts \ {r.id} : graph'.out[x] = graph.out[x]
             /\ artifacts'[r.id].lifecycle # "PUBLISHED"
  <2>1. PICK A : graph' = AddNodes(Linked(r, i), A)
    BY <1>5 DEF PublishRefusedAt
  <2>2. artifacts' = [artifacts EXCEPT ![r.id] = Building(r)]
    BY <1>5 DEF PublishRefusedAt
  <2>3. graph'.out = Linked(r, i).out
    BY <1>1, <2>1, LinkedOut DEF AddNodes
  <2>4. QED
    BY <1>1, <1>3, <2>2, <2>3, LinkedOut
<1>6. QED
  BY <1>2, <1>4, <1>5 DEF Publishes, Publish, PublishOverflowing

(* The graph is publish's alone. *)
LEMMA OnlyPublishLinks ==
  ASSUME NEW a \in Artifacts, NEW e \in Envelopes, Edits(a, e)
  PROVE  UNCHANGED graph
BY DEF Edits, Validate, ValidateRefused, Promote, PromoteRefused, Supersede,
       SupersedeRefused, Quarantine, QuarantineRefused, Invalidate, InvalidateStoppedAt,
       Retire, RetireRefused, RetireShortOfPhysicalBytes, RetireShortOfLogical, Retires

(* Calls on a record that is there make no published artifact of one that  *)
(* was not, and leave every declared one as it was or take it elsewhere.   *)
Tracks ==
  \A x \in Artifacts :
    /\ Registered(x)' <=> Registered(x)
    /\ Registered(x) => artifacts'[x].deps = artifacts[x].deps
    /\ artifacts'[x].lifecycle \notin NeverReached
    /\ artifacts'[x].lifecycle \in Wired => artifacts[x].lifecycle \in Wired
    /\ artifacts'[x].lifecycle = "DECLARED" => artifacts[x].lifecycle = "DECLARED"

LEMMA TableTracks ==
  ASSUME NEW from, NEW to \in Targets, from \notin NeverReached, CanTransition(from, to)
  PROVE  /\ to \notin NeverReached
         /\ to \in Wired => from \in Wired
         /\ to # "DECLARED"
BY DEF Targets, NeverReached, CanTransition, Successors, LifecycleStates, Wired, Live

LEMMA AdvancesTracks ==
  ASSUME DependencyInv, NEW a \in Artifacts, Advances(a)
  PROVE  Tracks
<1> SUFFICES ASSUME NEW x \in Artifacts
             PROVE  /\ Registered(x)' <=> Registered(x)
                    /\ Registered(x) => artifacts'[x].deps = artifacts[x].deps
                    /\ artifacts'[x].lifecycle \notin NeverReached
                    /\ artifacts'[x].lifecycle \in Wired => artifacts[x].lifecycle \in Wired
                    /\ artifacts'[x].lifecycle = "DECLARED" => artifacts[x].lifecycle = "DECLARED"
  BY DEF Tracks
<1>1. artifacts[x].lifecycle \notin NeverReached
  BY DEF DependencyInv
<1>2. CASE x # a
  BY <1>1, <1>2 DEF Advances, Registered
<1>3. CASE x = a
  <2>1. Registered(a) /\ Registered(a)' /\ artifacts'[a].deps = artifacts[a].deps
    BY DEF Advances, Registered, Descriptors, Absent
  <2>2. CASE artifacts'[a].lifecycle = artifacts[a].lifecycle
    BY <1>1, <1>3, <2>1, <2>2
  <2>3. CASE /\ artifacts'[a].lifecycle \in Targets
             /\ CanTransition(artifacts[a].lifecycle, artifacts'[a].lifecycle)
    BY <1>1, <1>3, <2>1, <2>3, TableTracks
  <2>4. QED
    BY <2>2, <2>3 DEF Advances
<1>4. QED
  BY <1>2, <1>3

LEMMA InvalidatesTracks ==
  ASSUME RecordsOK, DependencyInv, NEW hit \in SUBSET Artifacts, NEW stuck, NEW c,
         \A x \in hit : artifacts[x].lifecycle \in Reachable,
         Invalidates(hit, stuck, c)
  PROVE  Tracks
<1> SUFFICES ASSUME NEW x \in Artifacts
             PROVE  /\ Registered(x)' <=> Registered(x)
                    /\ Registered(x) => artifacts'[x].deps = artifacts[x].deps
                    /\ artifacts'[x].lifecycle \notin NeverReached
                    /\ artifacts'[x].lifecycle \in Wired => artifacts[x].lifecycle \in Wired
                    /\ artifacts'[x].lifecycle = "DECLARED" => artifacts[x].lifecycle = "DECLARED"
  BY DEF Tracks
<1>1. artifacts[x].lifecycle \notin NeverReached
  BY DEF DependencyInv
<1>2. CASE x \notin hit
  <2>1. artifacts'[x] = artifacts[x]
    BY <1>2 DEF Invalidates
  <2>2. QED
    BY <1>1, <2>1 DEF Registered
<1>3. CASE x \in hit
  <2>1. Registered(x)
    BY <1>3 DEF Reachable, Registered, Absent
  <2>2. artifacts[x] \in Descriptors
    BY <2>1, RegisteredDescriptor
  <2>3. artifacts'[x] = [artifacts[x] EXCEPT !.lifecycle = "INVALIDATED"]
    BY <1>3 DEF Invalidates
  <2>4. /\ artifacts'[x].lifecycle = "INVALIDATED"
        /\ artifacts'[x].deps = artifacts[x].deps
        /\ artifacts'[x] # Absent
    BY <2>2, <2>3 DEF Descriptors, Absent
  <2>5. artifacts[x].lifecycle \in Wired
    BY <1>1, <1>3 DEF Reachable, NeverReached, Wired, Live
  <2>6. QED
    BY <2>1, <2>4, <2>5 DEF NeverReached, Registered
<1>4. QED
  BY <1>2, <1>3

LEMMA EditsTrack ==
  ASSUME RecordsOK, DependencyInv, NEW a \in Artifacts, NEW e \in Envelopes, Edits(a, e)
  PROVE  Tracks
<1>1. ASSUME NEW c \in Causes,
             \/ Invalidate(a, c, e)
             \/ \E i \in 1..Len(Visits(a)) : InvalidateStoppedAt(a, i, c, e)
      PROVE  Tracks
  <2>1. PICK hit \in SUBSET Artifacts : \E stuck :
          /\ \A x \in hit : artifacts[x].lifecycle \in Reachable
          /\ Invalidates(hit, stuck, c)
    BY <1>1, InvalidateForm
  <2>2. QED
    BY <2>1, InvalidatesTracks
<1>2. CASE Retire(a, e) \/ RetireShortOfPhysicalBytes(a, e) \/ RetireShortOfLogical(a, e)
  <2>1. Retires(a, e)
    BY <1>2 DEF Retire, RetireShortOfPhysicalBytes, RetireShortOfLogical
  <2>2. QED
    BY <2>1, RetireAdvances, AdvancesTracks
<1>3. ASSUME \/ \E report \in Reports : Validate(a, report, e) \/ ValidateRefused(a, report, e)
             \/ Promote(a, e) \/ PromoteRefused(a, e)
             \/ \E new \in Artifacts : Supersede(a, new, e) \/ SupersedeRefused(a, new, e)
             \/ Quarantine(a, e) \/ QuarantineRefused(a, e)
             \/ RetireRefused(a, e)
      PROVE  Tracks
  BY <1>3, EditOneAdvances, AdvancesTracks
<1>4. QED
  BY <1>1, <1>2, <1>3 DEF Edits

LEMMA TracksDependencies ==
  ASSUME DependencyInv, Tracks, UNCHANGED graph
  PROVE  DependencyInv'
<1>1. ASSUME NEW x \in Artifacts, artifacts'[x].lifecycle \in Wired
      PROVE  graph'.out[x] = {artifacts'[x].deps[i] : i \in 1..Len(artifacts'[x].deps)}
  <2>1. artifacts[x].lifecycle \in Wired
    BY <1>1 DEF Tracks
  <2>2. Registered(x)
    BY <2>1 DEF Wired, Live, Registered, Absent
  <2>3. artifacts'[x].deps = artifacts[x].deps
    BY <2>2 DEF Tracks
  <2>4. QED
    BY <2>1, <2>3 DEF DependencyInv, DependenciesInGraph, Wired
<1>2. DependenciesInGraph'
  BY <1>1 DEF DependenciesInGraph, Wired
<1>3. QED
  BY <1>2 DEF DependencyInv, Tracks

LEMMA NextDependencyInv ==
  ASSUME RecordsOK, DependencyInv, [Next]_vars
  PROVE  DependencyInv'
<1>1. CASE UNCHANGED <<artifacts, graph>>
  BY <1>1 DEF DependencyInv, DependenciesInGraph, Registered
<1>2. ASSUME NEW r \in RegisterRequests, NEW e \in Envelopes, Register(r, e)
      PROVE  DependencyInv'
  <2>1. r.id \in Artifacts /\ Stores(r.id) /\ artifacts'[r.id].lifecycle = "DECLARED"
    BY <1>2, RegisterStores
  <2>2. UNCHANGED graph
    BY <1>2 DEF Register
  <2>3. ASSUME NEW x \in Artifacts, x # r.id
        PROVE  artifacts'[x] = artifacts[x]
    BY <2>1, <2>3 DEF Stores
  <2>4. Registered(r.id)'
    BY <2>1 DEF Registered, Absent
  <2>5. DependenciesInGraph'
    BY <2>1, <2>2, <2>3 DEF DependencyInv, DependenciesInGraph, Live
  <2>6. QED
    BY <2>1, <2>2, <2>3, <2>4, <2>5 DEF DependencyInv, Registered, NeverReached
<1>3. ASSUME NEW r \in PublishRequests, NEW e \in Envelopes, Publishes(r, e)
      PROVE  DependencyInv'
  <2>1. /\ r.id \in Artifacts /\ Stores(r.id)
        /\ artifacts'[r.id].lifecycle \in {"BUILDING", "PUBLISHED"}
        /\ artifacts'[r.id].deps = r.deps
    BY <1>3, PublishStores, PublishRequestType
  <2>2. ASSUME NEW x \in Artifacts, x # r.id
        PROVE  artifacts'[x] = artifacts[x] /\ graph'.out[x] = graph.out[x]
    BY <1>3, <2>1, <2>2, PublishOut DEF Stores
  <2>3. Registered(r.id)'
    BY <2>1 DEF Registered, Absent
  <2>4. graph.out[r.id] = {}
    BY <2>1 DEF Stores, DependencyInv
  <2>5. ASSUME NEW x \in Artifacts, artifacts'[x].lifecycle \in Wired
        PROVE  graph'.out[x] = {artifacts'[x].deps[i] : i \in 1..Len(artifacts'[x].deps)}
    <3>1. CASE x # r.id
      BY <2>2, <2>5, <3>1 DEF DependencyInv, DependenciesInGraph, Wired
    <3>2. CASE x = r.id
      <4>1. artifacts'[r.id].lifecycle = "PUBLISHED"
        BY <2>1, <2>5, <3>2 DEF Wired, Live
      <4>2. graph'.out[r.id] = Declared(r)
        BY <1>3, <2>4, <4>1, PublishOut
      <4>3. QED
        BY <2>1, <3>2, <4>2 DEF Declared
    <3>3. QED
      BY <3>1, <3>2
  <2>6. DependenciesInGraph'
    BY <2>5 DEF DependenciesInGraph, Wired
  <2>7. QED
    BY <2>1, <2>2, <2>3, <2>6 DEF DependencyInv, Registered, NeverReached
<1>4. ASSUME NEW a \in Artifacts, NEW e \in Envelopes, Edits(a, e)
      PROVE  DependencyInv'
  BY <1>4, EditsTrack, OnlyPublishLinks, TracksDependencies
<1>5. QED
  BY <1>1, <1>2, <1>3, <1>4 DEF Next, SetAuthority, RollEpoch, RebuildIndexes, vars

LEMMA InitDependencyInv == Init => DependencyInv
BY DEF Init, DependencyInv, DependenciesInGraph, EmptyGraph, Registered, Absent, Live, NeverReached

(* The dependencies reuse reads from the record of a published artifact    *)
(* are those invalidation follows in the graph.                            *)
THEOREM CatalogLinksDependencies == Spec => []DependenciesInGraph
<1>1. RecordsOK /\ DependencyInv /\ [Next]_vars => DependencyInv'
  BY NextDependencyInv
<1>2. DependencyInv => DependenciesInGraph
  BY DEF DependencyInv
<1>3. QED
  BY <1>1, <1>2, InitDependencyInv, CatalogRecordsOK, PTL DEF Spec

-----------------------------------------------------------------------------
(* Restarts. *)

LEMMA RecordDependencies ==
  ASSUME RecordsOK, NEW a \in Saved
  PROVE  /\ a \in Artifacts /\ artifacts[a].deps \in Seq(Artifacts)
         /\ DependencySet(a) \in SUBSET Artifacts
         /\ \A i \in Steps(a) : Earlier(artifacts[a], i) \in SUBSET Artifacts
<1>1. a \in Artifacts /\ artifacts[a] \in Descriptors
  BY RegisteredDescriptor DEF Saved
<1>2. artifacts[a].deps \in Seq(Artifacts)
  BY <1>1 DEF Descriptors
<1>3. DependencySet(a) \in SUBSET Artifacts
  BY <1>2 DEF DependencySet
<1>4. ASSUME NEW i \in Steps(a) PROVE Earlier(artifacts[a], i) \in SUBSET Artifacts
  <2>1. i \in 0..(Len(artifacts[a].deps) + 1)
    BY <1>2 DEF Steps
  <2>2. QED
    BY <1>2, <2>1, EarlierType
<1>5. QED
  BY <1>1, <1>2, <1>3, <1>4

LEMMA RebuiltType ==
  ASSUME RecordsOK, NEW a \in Saved, NEW i \in Steps(a)
  PROVE  Rebuilt(a, i) \in Graphs
<1> DEFINE edges == [b \in Artifacts |->
                       IF b \in Saved /\ b < a THEN DependencySet(b)
                       ELSE IF b = a THEN Earlier(artifacts[a], i) ELSE {}]
           nodes == {b \in Saved : b < a} \cup (IF i = 0 THEN {} ELSE {a})
                      \cup UNION {edges[b] : b \in Artifacts}
           in == [d \in Artifacts |-> {b \in Artifacts : d \in edges[b]}]
<1>1. \A b \in Saved : DependencySet(b) \in SUBSET Artifacts
  BY RecordDependencies
<1>2. Earlier(artifacts[a], i) \in SUBSET Artifacts /\ a \in Artifacts
  BY RecordDependencies
<1>3. edges \in [Artifacts -> SUBSET Artifacts]
  <2>1. ASSUME NEW b \in Artifacts
        PROVE  (IF b \in Saved /\ b < a THEN DependencySet(b)
                ELSE IF b = a THEN Earlier(artifacts[a], i) ELSE {}) \in SUBSET Artifacts
    BY <1>1, <1>2
  <2>2. QED
    BY <2>1
<1>4. Rebuilt(a, i) = [nodes |-> nodes, out |-> edges, in |-> in]
  BY DEF Rebuilt
<1> HIDE DEF edges
<1>5. nodes \in SUBSET Artifacts /\ in \in [Artifacts -> SUBSET Artifacts]
  <2>1. Saved \in SUBSET Artifacts
    BY DEF Saved
  <2>2. ASSUME NEW x \in nodes PROVE x \in Artifacts
    <3>1. CASE x \in Saved
      BY <2>1, <3>1
    <3>2. CASE \E b \in Artifacts : x \in edges[b]
      BY <1>3, <3>2
    <3>3. CASE x = a
      BY <1>2, <3>3
    <3>4. QED
      BY <2>2, <3>1, <3>2, <3>3
  <2>3. nodes \in SUBSET Artifacts
    <3> HIDE DEF nodes
    <3>1. QED
      BY <2>2
  <2>4. in \in [Artifacts -> SUBSET Artifacts]
    OBVIOUS
  <2>5. QED
    BY <2>3, <2>4
<1> HIDE DEF nodes, in
<1>6. QED
  BY <1>3, <1>4, <1>5 DEF Graphs

LEMMA ReloadRecordsOK ==
  ASSUME RecordsOK, Reload
  PROVE  RecordsOK'
<1>1. \A b \in Saved : DependencySet(b) \in SUBSET Artifacts
  BY RecordDependencies
<1>2. Saved \in SUBSET Artifacts
  BY DEF Saved
<1>3. graph' \in Graphs
  <2> DEFINE nodes == Saved \cup UNION {DependencySet(a) : a \in Saved}
             out == [a \in Artifacts |-> IF a \in Saved THEN DependencySet(a) ELSE {}]
             in == [d \in Artifacts |-> {a \in Saved : d \in DependencySet(a)}]
  <2>1. nodes \in SUBSET Artifacts
    BY <1>1, <1>2
  <2>2. out \in [Artifacts -> SUBSET Artifacts]
    BY <1>1
  <2>3. in \in [Artifacts -> SUBSET Artifacts]
    BY <1>2
  <2>4. graph' = [nodes |-> nodes, out |-> out, in |-> in]
    BY DEF Reload
  <2> HIDE DEF nodes, out, in
  <2>5. QED
    BY <2>1, <2>2, <2>3, <2>4 DEF Graphs
<1>4. QED
  BY <1>3 DEF Reload, RestoresImage, RecordsOK, store, authority

LEMMA ReloadRefusedRecordsOK ==
  ASSUME RecordsOK, NEW a \in Saved, NEW i \in Steps(a), ReloadRefused(a, i)
  PROVE  RecordsOK'
<1>1. graph' \in Graphs
  BY RebuiltType DEF ReloadRefused
<1>2. artifacts' \in [Artifacts -> Descriptors \cup {Absent}]
  BY DEF ReloadRefused, RecordsOK
<1>3. refs' \in [Contents -> 0..(RefModulus - 1)] /\ 0 \in 0..MaxGeneration /\ 0 \in 0..MaxEpoch
  BY BoundsAssumption DEF ReloadRefused
<1>4. epoch' \in 0..MaxEpoch /\ boot' \in Boots \cup {NoBoot}
  BY BoundsAssumption DEF ReloadRefused, AsConstructed
<1>5. QED
  BY <1>1, <1>2, <1>3, <1>4 DEF ReloadRefused, RecordsOK

LEMMA PersistentRecordsOK == PersistentSpec => []RecordsOK
<1>1. PersistentInit => RecordsOK
  BY InitTypeOK DEF PersistentInit
<1>2. RecordsOK /\ [PersistentNext]_persistentVars => RecordsOK'
  <2> SUFFICES ASSUME RecordsOK, [PersistentNext]_persistentVars PROVE RecordsOK'
    OBVIOUS
  <2>1. CASE [Next]_vars
    BY <2>1, NextRecordsOK
  <2>2. QED
    BY <2>1, ReloadRecordsOK, ReloadRefusedRecordsOK DEF PersistentNext, persistentVars
<1>3. QED
  BY <1>1, <1>2, PTL DEF PersistentSpec

(* Restarts keep the reference counts exact, until an image is refused.    *)
THEOREM RestartsKeepReferences ==
  ASSUME CountsFit, BareRegistrations
  PROVE  PersistentSpec => []ReferencesSurvive
<1>1. PersistentInit => ReferencesSurvive
  BY InitReferencesExact DEF PersistentInit, ReferencesSurvive
<1>2. RecordsOK /\ ReferencesSurvive /\ [PersistentNext]_persistentVars => ReferencesSurvive'
  <2> SUFFICES ASSUME RecordsOK, ReferencesSurvive, [PersistentNext]_persistentVars, intact'
               PROVE  ReferencesExact'
    BY DEF ReferencesSurvive
  <2>1. CASE [Next]_vars /\ UNCHANGED intact
    BY <2>1, NextReferencesExact DEF ReferencesSurvive
  <2>2. CASE Reload
    <3>1. UNCHANGED <<artifacts, store>> /\ ReferencesExact
      BY <2>2 DEF Reload, RestoresImage, ReferencesSurvive
    <3>2. QED
      BY <3>1 DEF ReferencesExact, Holders, Registered, store
  <2>3. QED
    BY <2>1, <2>2 DEF PersistentNext, persistentVars, ReloadRefused
<1>3. QED
  BY <1>1, <1>2, PersistentRecordsOK, PTL DEF PersistentSpec

(* The dependencies that stand in the records are in the graph load builds.*)
LEMMA ReloadLinks ==
  ASSUME Reload
  PROVE  /\ UNCHANGED artifacts
         /\ \A a \in Artifacts :
              graph'.out[a] = IF Registered(a) THEN Declared(artifacts[a]) ELSE {}
BY DEF Reload, RestoresImage, Saved, DependencySet, Declared

LEMMA PersistentDependencyInv == PersistentSpec => [](intact => DependencyInv)
<1>1. PersistentInit => (intact => DependencyInv)
  BY InitDependencyInv DEF PersistentInit
<1>2. RecordsOK /\ (intact => DependencyInv) /\ [PersistentNext]_persistentVars
        => (intact => DependencyInv)'
  <2> SUFFICES ASSUME RecordsOK, intact => DependencyInv, [PersistentNext]_persistentVars, intact'
               PROVE  DependencyInv'
    OBVIOUS
  <2>1. CASE [Next]_vars /\ UNCHANGED intact
    BY <2>1, NextDependencyInv
  <2>2. CASE Reload
    <3>1. DependencyInv
      BY <2>2 DEF Reload
    <3>2. ASSUME NEW a \in Artifacts, artifacts'[a].lifecycle \in Wired
          PROVE  graph'.out[a] = {artifacts'[a].deps[i] : i \in 1..Len(artifacts'[a].deps)}
      <4>1. Registered(a)
        BY <2>2, <3>2, ReloadLinks DEF Registered, Absent, Wired, Live
      <4>2. QED
        BY <2>2, <4>1, ReloadLinks DEF Declared
    <3>3. DependenciesInGraph'
      BY <3>2 DEF DependenciesInGraph, Wired
    <3>4. QED
      BY <2>2, <3>1, <3>3, ReloadLinks DEF DependencyInv, Registered
  <2>3. QED
    BY <2>1, <2>2 DEF PersistentNext, persistentVars, ReloadRefused
<1>3. QED
  BY <1>1, <1>2, PersistentRecordsOK, PTL DEF PersistentSpec

(* Restarts lose no dependency, until an image is refused. *)
THEOREM RestartsKeepDependencies == PersistentSpec => []DependenciesSurvive
<1>1. (intact => DependencyInv) => DependenciesSurvive
  BY DEF DependenciesSurvive, DependencyInv
<1>2. QED
  BY <1>1, PersistentDependencyInv, PTL

-----------------------------------------------------------------------------
(* What may be loaded again. *)

(* Fewer edges reach less, and close no cycle that more edges do not. *)
LEMMA FewerEdges ==
  ASSUME NEW g, NEW h, \A x \in Artifacts : h.out[x] \subseteq g.out[x]
  PROVE  /\ \A a, b \in Artifacts : b \in Reach(h, a) => b \in Reach(g, a)
         /\ Acyclic(g) => Acyclic(h)
<1>1. ASSUME NEW S \in SUBSET Artifacts, Closed(g, S)
      PROVE  Closed(h, S)
  BY <1>1 DEF Closed
<1>2. ASSUME NEW a, NEW b \in Artifacts, b \in Reach(h, a)
      PROVE  b \in Reach(g, a)
  BY <1>1, <1>2 DEF Reach
<1>3. ASSUME Acyclic(g), NEW a \in Artifacts, NEW b \in h.out[a], a \in Reach(h, b)
      PROVE  FALSE
  <2>1. b \in g.out[a] /\ a \in Reach(g, b)
    BY <1>2, <1>3
  <2>2. QED
    BY <1>3, <2>1 DEF Acyclic, TransitiveDependencies
<1>4. QED
  BY <1>2, <1>3 DEF Acyclic, TransitiveDependencies

(* Registrations that carry no dependencies, as those of the one caller of *)
(* register_artifact (af_cli's register).                                  *)
LooseRegistrations == \A r \in RegisterRequests : r.deps = << >>

(* The graph the sound records declare, whatever stands in graph. *)
SoundOut(a) == IF Sound(a) THEN Declared(artifacts[a]) ELSE {}

SoundRecords ==
  [nodes |-> Artifacts,
   out   |-> [a \in Artifacts |-> SoundOut(a)],
   in    |-> [d \in Artifacts |-> {a \in Artifacts : d \in SoundOut(a)}]]

LoadInv ==
  /\ \A a \in Artifacts : artifacts[a].lifecycle = "DECLARED" => artifacts[a].deps = << >>
  /\ \A a \in Artifacts : Sound(a) =>
       \A i \in 1..Len(artifacts[a].deps) : artifacts[a].deps[i] \notin Earlier(artifacts[a], i)
  /\ Acyclic(SoundRecords)

LEMMA SoundRegistered ==
  ASSUME NEW a \in Artifacts, Sound(a)
  PROVE  Registered(a)
BY DEF Sound, Live, Registered, Absent

LEMMA SoundRecordsType ==
  ASSUME RecordsOK
  PROVE  SoundRecords \in Graphs
<1>1. ASSUME NEW a \in Artifacts
      PROVE  SoundOut(a) \in SUBSET Artifacts
  <2>1. CASE Sound(a)
    <3>1. artifacts[a].deps \in Seq(Artifacts)
      BY <2>1, SoundRegistered, RegisteredDescriptor DEF Descriptors
    <3>2. QED
      BY <3>1 DEF SoundOut, Declared
  <2>2. QED
    BY <2>1 DEF SoundOut
<1>2. QED
  BY <1>1 DEF SoundRecords, Graphs

(* The sound records declare no edge the graph does not have. *)
LEMMA SoundRecordsInGraph ==
  ASSUME DependencyInv, LoadInv
  PROVE  \A a \in Artifacts : SoundRecords.out[a] \subseteq graph.out[a]
<1> SUFFICES ASSUME NEW a \in Artifacts PROVE SoundOut(a) \subseteq graph.out[a]
  BY DEF SoundRecords
<1>1. CASE artifacts[a].lifecycle = "DECLARED"
  BY <1>1 DEF LoadInv, SoundOut, Declared
<1>2. CASE Sound(a) /\ artifacts[a].lifecycle # "DECLARED"
  BY <1>2 DEF Sound, SoundOut, Declared, DependencyInv, DependenciesInGraph
<1>3. QED
  BY <1>1, <1>2 DEF SoundOut

(* Records that stay as they are, or stop being sound, can still be loaded.*)
LEMMA KeepsLoadInv ==
  ASSUME LoadInv,
         \A x \in Artifacts : Sound(x)' => Sound(x) /\ artifacts'[x].deps = artifacts[x].deps,
         \A x \in Artifacts : artifacts'[x].lifecycle = "DECLARED" =>
                                artifacts[x].lifecycle = "DECLARED"
  PROVE  LoadInv'
<1>1. ASSUME NEW x \in Artifacts, artifacts'[x].lifecycle = "DECLARED"
      PROVE  artifacts'[x].deps = << >>
  BY <1>1 DEF LoadInv, Sound
<1>2. ASSUME NEW x \in Artifacts, Sound(x)', NEW i \in 1..Len(artifacts'[x].deps)
      PROVE  artifacts'[x].deps[i] \notin Earlier(artifacts'[x], i)
  BY <1>2 DEF LoadInv, Earlier
<1>3. ASSUME NEW x \in Artifacts
      PROVE  SoundRecords'.out[x] \subseteq SoundRecords.out[x]
  BY DEF SoundRecords, SoundOut, Declared
<1>4. Acyclic(SoundRecords')
  BY <1>3, FewerEdges DEF LoadInv
<1>5. QED
  BY <1>1, <1>2, <1>4 DEF LoadInv

(* A publication that goes through declares each dependency once, and      *)
(* none of them reaches it.                                                *)
LEMMA PublishLoadInv ==
  ASSUME RecordsOK, DependencyInv, LoadInv,
         NEW r \in PublishRequests, NEW e \in Envelopes, PublishesUnindexed(r, e)
  PROVE  LoadInv'
<1> DEFINE a == r.id
<1>1. a \in Artifacts /\ r.deps \in Seq(Artifacts) /\ ~Registered(a)
  BY PublishRequestType DEF PublishesUnindexed, MayPublish
<1>2. \A x \in Artifacts \ {a} : artifacts'[x] = artifacts[x]
  BY DEF PublishesUnindexed
<1>3. artifacts'[a].lifecycle = "PUBLISHED" /\ artifacts'[a].deps = r.deps
  BY <1>1 DEF PublishesUnindexed, RecordsOK, PublishedRecord, Building
<1> HIDE DEF a
<1>4. Sound(a)' /\ ~Sound(a)
  BY <1>1, <1>3, SoundRegistered DEF Sound, Live
<1>5. ASSUME NEW i \in 1..Len(r.deps)
      PROVE  ~CreatesCycle(graph, a, r.deps[i]) /\ r.deps[i] \notin Earlier(r, i)
  BY DEF PublishesUnindexed, Linkable, DependencyRefused, a
<1>6. ASSUME NEW x \in Artifacts, Sound(x)', NEW i \in 1..Len(artifacts'[x].deps)
      PROVE  artifacts'[x].deps[i] \notin Earlier(artifacts'[x], i)
  <2>1. CASE x = a
    BY <1>3, <1>5, <1>6, <2>1 DEF Earlier
  <2>2. CASE x # a
    BY <1>2, <1>6, <2>2 DEF LoadInv, Sound
  <2>3. QED
    BY <2>1, <2>2
<1>7. ASSUME NEW t \in Declared(r)
      PROVE  t \in Artifacts /\ ~CreatesCycle(SoundRecords, a, t)
  <2>1. t \in Artifacts /\ ~CreatesCycle(graph, a, t)
    BY <1>1, <1>5 DEF Declared
  <2>2. QED
    BY <1>1, <2>1, SoundRecordsInGraph, FewerEdges DEF CreatesCycle
<1>8. Acyclic(AddEdges(SoundRecords, a, Declared(r)))
  BY <1>1, <1>7, SoundRecordsType, AddEdgesAcyclic DEF LoadInv
<1>9. ASSUME NEW x \in Artifacts
      PROVE  SoundRecords'.out[x] \subseteq AddEdges(SoundRecords, a, Declared(r)).out[x]
  <2>1. /\ AddEdges(SoundRecords, a, Declared(r)).out
             = [SoundRecords.out EXCEPT ![a] = @ \cup Declared(r)]
        /\ SoundRecords.out = [y \in Artifacts |-> SoundOut(y)]
    BY DEF AddEdges, SoundRecords
  <2>2. SoundRecords'.out[x] = SoundOut(x)'
    BY DEF SoundRecords
  <2>3. CASE x = a
    <3>1. SoundOut(a)' = Declared(r)
      BY <1>3, <1>4 DEF SoundOut, Declared
    <3>2. QED
      BY <2>1, <2>2, <2>3, <3>1
  <2>4. CASE x # a
    <3>1. SoundOut(x)' = SoundOut(x)
      BY <1>2, <2>4 DEF SoundOut, Declared, Sound
    <3>2. QED
      BY <2>1, <2>2, <2>4, <3>1
  <2>5. QED
    BY <2>3, <2>4
<1>10. Acyclic(SoundRecords')
  BY <1>8, <1>9, FewerEdges
<1>11. ASSUME NEW x \in Artifacts, artifacts'[x].lifecycle = "DECLARED"
       PROVE  artifacts'[x].deps = << >>
  BY <1>2, <1>3, <1>11 DEF LoadInv
<1>12. QED
  BY <1>6, <1>10, <1>11 DEF LoadInv

LEMMA NextLoadInv ==
  ASSUME RecordsOK, DependencyInv, LooseRegistrations, LoadInv, [Next]_vars
  PROVE  LoadInv'
<1>1. CASE UNCHANGED artifacts
  BY <1>1, KeepsLoadInv DEF Sound
<1>2. ASSUME NEW r \in RegisterRequests, NEW e \in Envelopes, Register(r, e)
      PROVE  LoadInv'
  <2>1. /\ r.id \in Artifacts /\ Stores(r.id) /\ artifacts'[r.id].lifecycle = "DECLARED"
        /\ artifacts'[r.id].deps = << >>
    BY <1>2, RegisterStores DEF LooseRegistrations
  <2>2. \A x \in Artifacts \ {r.id} : artifacts'[x] = artifacts[x]
    BY <2>1 DEF Stores
  <2>3. ASSUME NEW x \in Artifacts, artifacts'[x].lifecycle = "DECLARED"
        PROVE  artifacts'[x].deps = << >>
    BY <2>1, <2>2, <2>3 DEF LoadInv
  <2>4. ASSUME NEW x \in Artifacts, Sound(x)', NEW i \in 1..Len(artifacts'[x].deps)
        PROVE  artifacts'[x].deps[i] \notin Earlier(artifacts'[x], i)
    <3>1. CASE x = r.id
      BY <2>1, <2>4, <3>1
    <3>2. CASE x # r.id
      BY <2>2, <2>4, <3>2 DEF LoadInv, Sound
    <3>3. QED
      BY <3>1, <3>2
  <2>5. ASSUME NEW x \in Artifacts
        PROVE  SoundRecords'.out[x] \subseteq SoundRecords.out[x]
    <3>1. CASE x = r.id
      <4>1. SoundOut(x)' = {}
        BY <2>1, <3>1 DEF SoundOut, Declared
      <4>2. QED
        BY <4>1 DEF SoundRecords
    <3>2. CASE x # r.id
      <4>1. SoundOut(x)' = SoundOut(x)
        BY <2>2, <3>2 DEF SoundOut, Declared, Sound
      <4>2. QED
        BY <4>1 DEF SoundRecords
    <3>3. QED
      BY <3>1, <3>2
  <2>6. Acyclic(SoundRecords')
    BY <2>5, FewerEdges DEF LoadInv
  <2>7. QED
    BY <2>3, <2>4, <2>6 DEF LoadInv
<1>3. ASSUME NEW r \in PublishRequests, NEW e \in Envelopes, Publishes(r, e)
      PROVE  LoadInv'
  <2>1. CASE PublishesUnindexed(r, e)
    BY <2>1, PublishLoadInv
  <2>2. CASE artifacts'[r.id].lifecycle # "PUBLISHED"
    <3>1. Stores(r.id) /\ artifacts'[r.id].lifecycle = "BUILDING"
      BY <1>3, <2>2, PublishStores
    <3>2. ~Sound(r.id)'
      BY <3>1 DEF Sound, Live
    <3>3. \A x \in Artifacts \ {r.id} : artifacts'[x] = artifacts[x]
      BY <3>1 DEF Stores
    <3>4. ASSUME NEW x \in Artifacts, Sound(x)'
          PROVE  Sound(x) /\ artifacts'[x].deps = artifacts[x].deps
      BY <3>2, <3>3, <3>4 DEF Sound
    <3>5. ASSUME NEW x \in Artifacts, artifacts'[x].lifecycle = "DECLARED"
          PROVE  artifacts[x].lifecycle = "DECLARED"
      BY <3>1, <3>3, <3>5
    <3>6. QED
      BY <3>4, <3>5, KeepsLoadInv
  <2>3. QED
    BY <1>3, <2>1, <2>2, PublishOut
<1>4. ASSUME NEW a \in Artifacts, NEW e \in Envelopes, Edits(a, e)
      PROVE  LoadInv'
  <2>1. Tracks
    BY <1>4, EditsTrack
  <2>2. ASSUME NEW x \in Artifacts, Sound(x)'
        PROVE  Sound(x) /\ artifacts'[x].deps = artifacts[x].deps
    <3>1. Sound(x)
      BY <2>1, <2>2 DEF Tracks, Sound, Wired
    <3>2. QED
      BY <2>1, <3>1, SoundRegistered DEF Tracks
  <2>3. QED
    BY <2>1, <2>2, KeepsLoadInv DEF Tracks
<1>5. QED
  BY <1>1, <1>2, <1>3, <1>4 DEF Next, SetAuthority, RollEpoch, RebuildIndexes, vars

LEMMA InitLoadInv == Init => LoadInv
<1> SUFFICES ASSUME Init PROVE LoadInv
  OBVIOUS
<1>1. \A a \in Artifacts : artifacts[a].lifecycle = "ABSENT" /\ ~Sound(a)
  BY DEF Init, Absent, Sound, Live
<1>2. \A a \in Artifacts : SoundRecords.out[a] = {}
  BY <1>1 DEF SoundRecords, SoundOut
<1>3. Acyclic(SoundRecords)
  BY <1>2 DEF Acyclic, TransitiveDependencies
<1>4. QED
  BY <1>1, <1>3 DEF LoadInv

(* Nothing load meets in sound records is an edge it would refuse: the     *)
(* edges it has built when it comes to one are among theirs.               *)
LEMMA SoundNeverSpoils ==
  ASSUME RecordsOK, LoadInv, \A a \in Saved : Sound(a)
  PROVE  \A a \in Saved : \A i \in Steps(a) \ {0} : ~Spoils(a, i)
<1> SUFFICES ASSUME NEW a \in Saved, NEW i \in Steps(a) \ {0}, Spoils(a, i)
             PROVE  FALSE
  OBVIOUS
<1> DEFINE d == artifacts[a].deps[i]
<1>1. a \in Artifacts /\ Sound(a) /\ artifacts[a].deps \in Seq(Artifacts)
  BY RecordDependencies DEF Saved
<1>2. i \in 1..Len(artifacts[a].deps)
  BY <1>1 DEF Steps
<1>3. d \in Artifacts /\ d \in SoundRecords.out[a] /\ d \notin Earlier(artifacts[a], i)
  BY <1>1, <1>2 DEF SoundRecords, SoundOut, Declared, LoadInv
<1>4. a \notin Reach(SoundRecords, d)
  BY <1>1, <1>3 DEF LoadInv, Acyclic, TransitiveDependencies
<1>5. d # a
  BY <1>1, <1>4, SoundRecordsType, ReachClosed
<1>6. ~(a < a)
  BY <1>1, ArtifactsAssumption
<1>7. \A b \in Artifacts :
        Rebuilt(a, i).out[b] = IF b \in Saved /\ b < a THEN DependencySet(b)
                               ELSE IF b = a THEN Earlier(artifacts[a], i) ELSE {}
  BY DEF Rebuilt
<1>8. d \notin Rebuilt(a, i).out[a]
  BY <1>1, <1>3, <1>6, <1>7
<1>9. ASSUME NEW b \in Artifacts
      PROVE  Rebuilt(a, i).out[b] \subseteq SoundRecords.out[b]
  <2>1. b \in Saved => SoundRecords.out[b] = DependencySet(b)
    BY DEF SoundRecords, SoundOut, Declared, DependencySet
  <2>2. Earlier(artifacts[a], i) \subseteq DependencySet(a)
    BY <1>1, <1>2 DEF Earlier, DependencySet
  <2>3. QED
    BY <1>7, <2>1, <2>2
<1>10. ~CreatesCycle(Rebuilt(a, i), a, d)
  BY <1>1, <1>3, <1>4, <1>9, FewerEdges DEF CreatesCycle
<1>11. QED
  BY <1>5, <1>8, <1>10 DEF Spoils

(* Whatever the catalog holds that was published to its end can be loaded  *)
(* again in the order of the ids, after any number of restarts, as long as *)
(* no image was refused and registrations carry no dependencies.           *)
THEOREM SoundCatalogsLoad ==
  ASSUME LooseRegistrations
  PROVE  PersistentSpec => []SoundRecordsLoad
<1>1. PersistentInit => (intact => LoadInv)
  BY InitLoadInv DEF PersistentInit
<1>2. RecordsOK /\ (intact => DependencyInv) /\ (intact => LoadInv)
        /\ [PersistentNext]_persistentVars => (intact => LoadInv)'
  <2> SUFFICES ASSUME RecordsOK, intact => DependencyInv, intact => LoadInv,
                      [PersistentNext]_persistentVars, intact'
               PROVE  LoadInv'
    OBVIOUS
  <2>1. CASE [Next]_vars /\ UNCHANGED intact
    BY <2>1, NextLoadInv
  <2>2. CASE Reload
    <3>1. LoadInv /\ UNCHANGED artifacts
      BY <2>2 DEF Reload, RestoresImage
    <3>2. QED
      BY <3>1, KeepsLoadInv DEF Sound
  <2>3. QED
    BY <2>1, <2>2 DEF PersistentNext, persistentVars, ReloadRefused
<1>3. RecordsOK /\ (intact => LoadInv) => SoundRecordsLoad
  BY SoundNeverSpoils DEF SoundRecordsLoad
<1>4. QED
  BY <1>1, <1>2, <1>3, PersistentRecordsOK, PersistentDependencyInv, PTL DEF PersistentSpec

-----------------------------------------------------------------------------
(* Staged publication: who works on what. *)

(* A claimed record is one client's, it is there and it has not been       *)
(* retired.                                                                *)
ClaimInv ==
  /\ stage \in [Handles -> Places]
  /\ plan = [h \in Handles |-> plan[h]]
  /\ \A h \in Handles : Open(h) =>
       /\ plan[h].request \in StagedRequests
       /\ Registered(Id(h))
       /\ artifacts[Id(h)].lifecycle # "RETIRED"
  /\ \A h, k \in Handles : Open(h) /\ Open(k) /\ Id(h) = Id(k) => h = k

LEMMA StagedRequestType ==
  ASSUME NEW r \in StagedRequests
  PROVE  /\ r.id \in Artifacts
         /\ r.content \in Contents
         /\ r.digest \in Contents \cup {NoContent}
         /\ r.deps \in Seq(Artifacts)
         /\ r.generation \in 0..MaxGeneration
         /\ r.size \in Nat
         /\ r.validation \in ValidationStates
BY StagedAssumption DEF Plans

LEMMA ClaimedRecord ==
  ASSUME RecordsOK, ClaimInv, NEW h \in Handles, Open(h)
  PROVE  Id(h) \in Artifacts /\ artifacts[Id(h)] \in Descriptors
<1>1. Id(h) \in Artifacts
  BY StagedRequestType DEF ClaimInv, Id
<1>2. QED
  BY <1>1, RegisteredDescriptor DEF ClaimInv

(* A client moves on with its record, or ends with it. *)
Works(h) ==
  /\ Open(h)
  /\ artifacts' \in [Artifacts -> Descriptors \cup {Absent}]
  /\ artifacts'[Id(h)] \in Descriptors
  /\ artifacts'[Id(h)].lifecycle # "RETIRED"
  /\ \A x \in Artifacts \ {Id(h)} : artifacts'[x] = artifacts[x]
  /\ \E place \in Places \ {"idle", "reserved"} : Reaches(h, place)
  /\ UNCHANGED plan

Finishes(h) ==
  /\ Open(h)
  /\ artifacts' \in [Artifacts -> Descriptors \cup {Absent}]
  /\ \/ artifacts'[Id(h)] = Absent
     \/ artifacts'[Id(h)] \in Descriptors /\ artifacts'[Id(h)].lifecycle = "PUBLISHED"
  /\ \A x \in Artifacts \ {Id(h)} : artifacts'[x] = artifacts[x]
  /\ Ends(h)

LEMMA ReserveStores ==
  ASSUME RecordsOK, NEW h \in Handles, NEW r \in StagedRequests, NEW e \in Envelopes, Reserve(h, r, e)
  PROVE  /\ r.id \in Artifacts /\ Stores(r.id)
         /\ artifacts'[r.id].lifecycle = "BUILDING"
         /\ artifacts' \in [Artifacts -> Descriptors \cup {Absent}]
<1> DEFINE d == [lifecycle |-> "BUILDING", validation |-> r.validation,
                 generation |-> r.generation, content |-> r.digest,
                 deps |-> r.deps, size |-> r.size]
<1>1. d \in Descriptors /\ r.id \in Artifacts
  BY StagedRequestType DEF Descriptors, LifecycleStates
<1>2. ~Registered(r.id) /\ artifacts' = [artifacts EXCEPT ![r.id] = d]
  BY DEF Reserve
<1>3. d.lifecycle = "BUILDING"
  OBVIOUS
<1> HIDE DEF d
<1>4. /\ artifacts'[r.id] = d /\ \A x \in Artifacts \ {r.id} : artifacts'[x] = artifacts[x]
      /\ artifacts' \in [Artifacts -> Descriptors \cup {Absent}]
  BY <1>1, <1>2 DEF RecordsOK
<1>5. QED
  BY <1>1, <1>2, <1>3, <1>4 DEF Stores

LEMMA ProduceForm ==
  ASSUME RecordsOK, ClaimInv, NEW h \in Handles, NEW c \in Contents, Produce(h, c)
  PROVE  Works(h) /\ artifacts'[Id(h)].content = c
<1>1. Open(h) /\ Id(h) \in Artifacts /\ artifacts[Id(h)] \in Descriptors
  BY ClaimedRecord DEF Produce, At, Open
<1>2. artifacts' = [artifacts EXCEPT ![Id(h)] = [artifacts[Id(h)] EXCEPT !.content = c, !.lifecycle = "VALIDATING"]]
  BY <1>1 DEF Produce, RecordsOK
<1> DEFINE d == [artifacts[Id(h)] EXCEPT !.content = c, !.lifecycle = "VALIDATING"]
<1>3. d \in Descriptors /\ d.lifecycle = "VALIDATING" /\ d.content = c
  BY <1>1 DEF Descriptors, LifecycleStates
<1> HIDE DEF d
<1>4. /\ artifacts'[Id(h)] = d /\ \A x \in Artifacts \ {Id(h)} : artifacts'[x] = artifacts[x]
      /\ artifacts' \in [Artifacts -> Descriptors \cup {Absent}]
  BY <1>1, <1>2, <1>3 DEF RecordsOK, d
<1>5. Reaches(h, "produced") /\ UNCHANGED plan
  BY DEF Produce
<1>6. QED
  BY <1>1, <1>3, <1>4, <1>5 DEF Works, Places

LEMMA ValidateForm ==
  ASSUME RecordsOK, ClaimInv, NEW h \in Handles, NEW report \in Reports, ValidatePublish(h, report)
  PROVE  Works(h) /\ artifacts'[Id(h)].content = artifacts[Id(h)].content
<1>1. Open(h) /\ Id(h) \in Artifacts /\ artifacts[Id(h)] \in Descriptors
  BY ClaimedRecord DEF ValidatePublish, At, Open
<1> DEFINE d == [artifacts[Id(h)] EXCEPT !.validation = report.state, !.lifecycle = ValidationTarget(report)]
<1>2. artifacts' = [artifacts EXCEPT ![Id(h)] = d]
  BY <1>1 DEF ValidatePublish, RecordsOK
<1>3. /\ d \in Descriptors /\ d.lifecycle # "RETIRED"
      /\ d.content = artifacts[Id(h)].content
  BY <1>1, ReportedState DEF Descriptors, LifecycleStates, ValidationTarget
<1> HIDE DEF d
<1>4. /\ artifacts'[Id(h)] = d /\ \A x \in Artifacts \ {Id(h)} : artifacts'[x] = artifacts[x]
      /\ artifacts' \in [Artifacts -> Descriptors \cup {Absent}]
  BY <1>1, <1>2, <1>3 DEF RecordsOK
<1>5. UNCHANGED plan /\ (Reaches(h, "validated") \/ Reaches(h, "refused"))
  BY DEF ValidatePublish
<1>6. QED
  BY <1>1, <1>3, <1>4, <1>5 DEF Works, Places

LEMMA VerifyForm ==
  ASSUME RecordsOK, ClaimInv, NEW h \in Handles,
         VerifyDependencies(h) \/ VerifyRefused(h) \/ VerifyWithoutNode(h)
  PROVE  Works(h) /\ UNCHANGED artifacts
<1>1. /\ Open(h) /\ UNCHANGED <<artifacts, plan>>
      /\ Reaches(h, "verified") \/ Reaches(h, "refused")
  BY DEF VerifyDependencies, VerifyRefused, VerifyWithoutNode, At, Open, vars
<1>2. QED
  BY <1>1, ClaimedRecord DEF ClaimInv, Works, Places, RecordsOK

LEMMA CommitForm ==
  ASSUME RecordsOK, ClaimInv, NEW h \in Handles, Commit(h) \/ CommitRefused(h)
  PROVE  /\ artifacts'[Id(h)] \in Descriptors
         /\ artifacts'[Id(h)].lifecycle = "PUBLISHED"
         /\ artifacts'[Id(h)].content = artifacts[Id(h)].content
         /\ Commit(h) => Finishes(h) /\ artifacts'[Id(h)] = Commits(h)
         /\ CommitRefused(h) => Works(h)
<1>1. Open(h) /\ Id(h) \in Artifacts /\ artifacts[Id(h)] \in Descriptors
  BY ClaimedRecord DEF Commit, CommitRefused, At, Open
<1>2. artifacts' = [artifacts EXCEPT ![Id(h)] = Commits(h)]
  BY DEF Commit, CommitRefused
<1>3. /\ Commits(h) \in Descriptors /\ Commits(h).lifecycle = "PUBLISHED"
      /\ Commits(h).content = artifacts[Id(h)].content
  BY <1>1 DEF Commits, Descriptors, LifecycleStates
<1>4. /\ artifacts'[Id(h)] = Commits(h) /\ \A x \in Artifacts \ {Id(h)} : artifacts'[x] = artifacts[x]
      /\ artifacts' \in [Artifacts -> Descriptors \cup {Absent}]
  BY <1>1, <1>2, <1>3 DEF RecordsOK
<1>5. /\ Commit(h) => Ends(h)
      /\ CommitRefused(h) => Reaches(h, "refused") /\ UNCHANGED plan
  BY DEF Commit, CommitRefused
<1>6. QED
  BY <1>1, <1>3, <1>4, <1>5 DEF Works, Finishes, Places

LEMMA AbortForm ==
  ASSUME RecordsOK, ClaimInv, NEW h \in Handles, Abort(h) \/ AbortRefused(h)
  PROVE  /\ Finishes(h) /\ artifacts'[Id(h)] = Absent
         /\ refs' = Released(artifacts[Id(h)]) /\ Erases(artifacts[Id(h)])
<1>1. Open(h) /\ Id(h) \in Artifacts /\ artifacts[Id(h)] \in Descriptors
  BY ClaimedRecord DEF Abort, AbortRefused
<1>2. Forgets(h) /\ Ends(h)
  BY DEF Abort, AbortRefused
<1>3. /\ artifacts'[Id(h)] = Absent /\ \A x \in Artifacts \ {Id(h)} : artifacts'[x] = artifacts[x]
      /\ artifacts' \in [Artifacts -> Descriptors \cup {Absent}]
  BY <1>1, <1>2 DEF Forgets, RecordsOK
<1>4. QED
  BY <1>1, <1>2, <1>3 DEF Finishes, Forgets

LEMMA OthersAreCalls ==
  ASSUME Others
  PROVE  Next
BY DEF Others, Next, Withdraws, Edits

(* What a step of a client does to the records and the clients. *)
LEMMA StepForm ==
  ASSUME RecordsOK, ClaimInv, NEW h \in Handles, Step(h)
  PROVE  \/ \E r \in StagedRequests, e \in Envelopes : Reserve(h, r, e)
         \/ UNCHANGED <<artifacts, clients>>
         \/ Works(h)
         \/ Finishes(h)
<1>1. ASSUME NEW r \in StagedRequests, NEW e \in Envelopes, ReserveRefused(h, r, e)
      PROVE  UNCHANGED <<artifacts, clients>>
  BY <1>1 DEF ReserveRefused
<1>2. QED
  BY <1>1, ProduceForm, ValidateForm, VerifyForm, CommitForm, AbortForm DEF Step

LEMMA StepRecordsOK ==
  ASSUME RecordsOK, ClaimInv, NEW h \in Handles, Step(h)
  PROVE  RecordsOK'
<1>1. artifacts' \in [Artifacts -> Descriptors \cup {Absent}]
  BY StepForm, ReserveStores DEF Works, Finishes, RecordsOK
<1>2. graph' \in Graphs
  <2>1. ASSUME Open(h) PROVE /\ Id(h) \in Artifacts
                             /\ Verifying(h).id \in Artifacts /\ Verifying(h).deps \in Seq(Artifacts)
    BY <2>1, ClaimedRecord DEF Verifying, Descriptors
  <2>2. CASE VerifyDependencies(h)
    <3>1. Open(h) /\ graph' = Linked(Verifying(h), Len(Verifying(h).deps) + 1)
      BY <2>2 DEF VerifyDependencies, At, Open
    <3>2. Len(Verifying(h).deps) + 1 \in 1..(Len(Verifying(h).deps) + 1)
      BY <2>1, <3>1
    <3>3. QED
      BY <2>1, <3>1, <3>2, LinkedType
  <2>3. CASE VerifyRefused(h)
    <3>1. Open(h)
      BY <2>3 DEF VerifyRefused, At, Open
    <3>2. PICK i \in 1..Len(Verifying(h).deps) :
            graph' = AddNodes(Linked(Verifying(h), i),
                              IF NoRoomFor(Verifying(h), i) THEN {} ELSE {Verifying(h).deps[i]})
      BY <2>3 DEF VerifyRefused
    <3>3. Verifying(h).deps[i] \in Artifacts /\ i \in 1..(Len(Verifying(h).deps) + 1)
      BY <2>1, <3>1, <3>2
    <3>4. Linked(Verifying(h), i) \in Graphs
      BY <2>1, <3>1, <3>3, LinkedType
    <3>5. QED
      BY <3>2, <3>3, <3>4 DEF AddNodes, Graphs
  <2>4. CASE UNCHANGED graph
    BY <2>4 DEF RecordsOK
  <2>5. QED
    BY <2>2, <2>3, <2>4
    DEF Step, Reserve, ReserveRefused, Produce, ValidatePublish, VerifyWithoutNode, vars,
        Commit, CommitRefused, Abort, AbortRefused
<1>3. backed' \in SUBSET Contents /\ refs' \in [Contents -> 0..(RefModulus - 1)]
  <2>1. ASSUME NEW c \in Contents, Produce(h, c)
        PROVE  backed' \in SUBSET Contents /\ refs' \in [Contents -> 0..(RefModulus - 1)]
    <3>1. Stages([content |-> c]) /\ [content |-> c].content \in Contents
      BY <2>1 DEF Produce
    <3>2. QED
      BY <3>1, StagesType
  <2>2. CASE Abort(h) \/ AbortRefused(h)
    <3> DEFINE d == artifacts[Id(h)]
    <3>1. refs' = Released(d) /\ Erases(d) /\ d.content \in Contents \cup {NoContent}
      BY <2>2, AbortForm, ClaimedRecord DEF Abort, AbortRefused, Descriptors
    <3>2. ASSUME NEW n \in 0..(RefModulus - 1) PROVE Dropped(n) \in 0..(RefModulus - 1)
      BY BoundsAssumption DEF Dropped
    <3> HIDE DEF d
    <3>3. refs' \in [Contents -> 0..(RefModulus - 1)]
      BY <3>1, <3>2 DEF Released, RecordsOK
    <3>4. backed' \in SUBSET Contents
      BY <3>1 DEF Erases, RecordsOK
    <3>5. QED
      BY <3>3, <3>4
  <2>3. CASE UNCHANGED store
    BY <2>3 DEF store, RecordsOK
  <2>4. QED
    BY <2>1, <2>2, <2>3
    DEF Step, Reserve, ReserveRefused, ValidatePublish, VerifyDependencies, VerifyRefused,
        VerifyWithoutNode, vars, store, Commit, CommitRefused
<1>4. nextGeneration' \in 0..MaxGeneration
  <2>1. ASSUME NEW r \in StagedRequests, NEW e \in Envelopes, MayReserve(h, r, e)
        PROVE  nextGeneration' \in 0..MaxGeneration
    <3>1. r.generation \in 0..MaxGeneration
      BY StagedRequestType
    <3>2. QED
      BY <2>1, <3>1, BoundsAssumption DEF MayReserve, RaisedBy, RecordsOK
  <2>2. CASE UNCHANGED nextGeneration
    BY <2>2 DEF RecordsOK
  <2>3. QED
    BY <2>1, <2>2
    DEF Step, Reserve, ReserveRefused, Produce, ValidatePublish, VerifyDependencies,
        VerifyRefused, VerifyWithoutNode, vars, Commit, CommitRefused, Abort, AbortRefused
<1>5. UNCHANGED <<authority, history>>
  BY DEF Step, Reserve, ReserveRefused, Produce, ValidatePublish, VerifyDependencies,
         VerifyRefused, VerifyWithoutNode, vars, authority, history, Commit, CommitRefused,
         Abort, AbortRefused
<1>6. QED
  BY <1>1, <1>2, <1>3, <1>4, <1>5 DEF RecordsOK, authority, history

(* What the other calls leave of a claimed record: everything but its      *)
(* lifecycle, and that is not RETIRED.                                     *)
LEMMA OthersLeaveClaims ==
  ASSUME RecordsOK, ClaimInv, Others, NEW a \in Artifacts, Claimed(a)
  PROVE  /\ Registered(a)' /\ artifacts'[a].lifecycle # "RETIRED"
         /\ artifacts'[a].content = artifacts[a].content
<1>1. Registered(a) /\ artifacts[a].lifecycle # "RETIRED" /\ artifacts[a] \in Descriptors
  BY ClaimedRecord DEF Claimed, ClaimInv
<1>2. CASE artifacts'[a] = artifacts[a]
  BY <1>1, <1>2 DEF Registered
<1>3. ASSUME NEW r \in PublishRequests, NEW e \in Envelopes, Publishes(r, e)
      PROVE  artifacts'[a] = artifacts[a]
  BY <1>1, <1>3, PublishStores DEF Stores
<1>4. ASSUME NEW x \in Artifacts, NEW c \in Causes, NEW e \in Envelopes,
             \/ Invalidate(x, c, e)
             \/ \E i \in 1..Len(Visits(x)) : InvalidateStoppedAt(x, i, c, e)
      PROVE  /\ Registered(a)' /\ artifacts'[a].lifecycle # "RETIRED"
             /\ artifacts'[a].content = artifacts[a].content
  <2>1. PICK hit \in SUBSET Artifacts : \E stuck : Invalidates(hit, stuck, c)
    BY <1>4, InvalidateForm
  <2>2. artifacts'[a] = artifacts[a] \/ artifacts'[a] = [artifacts[a] EXCEPT !.lifecycle = "INVALIDATED"]
    BY <2>1 DEF Invalidates
  <2>3. CASE artifacts'[a] = [artifacts[a] EXCEPT !.lifecycle = "INVALIDATED"]
    <3>1. /\ artifacts'[a].lifecycle = "INVALIDATED"
          /\ artifacts'[a].content = artifacts[a].content
          /\ artifacts'[a] # Absent
      BY <1>1, <2>3 DEF Descriptors, Absent
    <3>2. QED
      BY <3>1 DEF Registered
  <2>4. QED
    BY <1>2, <2>2, <2>3
<1>5. ASSUME NEW x \in Artifacts, NEW e \in Envelopes, ~Claimed(x),
             \/ Retire(x, e) \/ RetireRefused(x, e)
             \/ RetireShortOfPhysicalBytes(x, e) \/ RetireShortOfLogical(x, e)
      PROVE  artifacts'[a] = artifacts[a]
  <2>1. x # a
    BY <1>5
  <2>2. Advances(x)
    BY <1>5, EditOneAdvances, RetireAdvances
    DEF Retire, RetireShortOfPhysicalBytes, RetireShortOfLogical
  <2>3. QED
    BY <2>1, <2>2 DEF Advances
<1>6. QED
  BY <1>2, <1>3, <1>4, <1>5 DEF Others, Withdraws, SetAuthority, RollEpoch

(* What a step leaves of the other clients' records. *)
LEMMA OtherClients ==
  ASSUME ClaimInv, NEW h \in Handles, NEW k \in Handles \ {h}, Open(k),
         NEW place, Reaches(h, place), plan' = plan \/ (\E p : plan' = [plan EXCEPT ![h] = p])
  PROVE  stage'[k] = stage[k] /\ Open(k)' /\ plan'[k] = plan[k] /\ Id(k)' = Id(k)
BY DEF ClaimInv, Reaches, Open, Id

(* Who is open after a step was open before, unless the step opened it. *)
LEMMA StillOpen ==
  ASSUME ClaimInv, NEW h \in Handles, NEW k \in Handles \ {h}, NEW place, Reaches(h, place)
  PROVE  Open(k)' <=> Open(k)
BY DEF ClaimInv, Reaches, Open

LEMMA ReserveClaimInv ==
  ASSUME RecordsOK, ClaimInv, NEW h \in Handles, NEW r \in StagedRequests, NEW e \in Envelopes,
         Reserve(h, r, e)
  PROVE  /\ ClaimInv'
         /\ stage'[h] = "reserved" /\ Id(h)' = r.id
         /\ \A k \in Handles \ {h} : (Open(k)' <=> Open(k)) /\ (Open(k) => Id(k)' = Id(k))
<1>1. /\ ~Registered(r.id) /\ r.id \in Artifacts /\ Registered(r.id)'
      /\ artifacts'[r.id].lifecycle = "BUILDING"
      /\ \A x \in Artifacts \ {r.id} : artifacts'[x] = artifacts[x]
  BY ReserveStores DEF Stores, Registered, Descriptors, Absent
<1>2. /\ Reaches(h, "reserved")
      /\ plan' = [plan EXCEPT ![h] = [request |-> r, epoch |-> e.epoch, boot |-> e.boot]]
  BY DEF Reserve
<1>3. stage' \in [Handles -> Places] /\ stage'[h] = "reserved" /\ Open(h)'
  BY <1>2 DEF ClaimInv, Reaches, Places, Open
<1>4. plan' = [k \in Handles |-> plan'[k]] /\ plan'[h].request = r /\ Id(h)' = r.id
  BY <1>2 DEF ClaimInv, Id
<1>5. ASSUME NEW k \in Handles, k # h, Open(k)'
      PROVE  /\ Open(k) /\ stage'[k] = stage[k] /\ plan'[k] = plan[k] /\ Id(k)' = Id(k)
             /\ Id(k) # r.id /\ artifacts'[Id(k)] = artifacts[Id(k)]
  <2>1. Open(k)
    BY <1>2, <1>5, StillOpen
  <2>2. stage'[k] = stage[k] /\ plan'[k] = plan[k] /\ Id(k)' = Id(k)
    BY <1>2, <1>5, <2>1, OtherClients
  <2>3. Id(k) # r.id
    BY <1>1, <2>1 DEF ClaimInv
  <2>4. Id(k) \in Artifacts
    BY <2>1, ClaimedRecord
  <2>5. QED
    BY <1>1, <2>1, <2>2, <2>3, <2>4
<1>6. ASSUME NEW k \in Handles, Open(k)'
      PROVE  /\ plan'[k].request \in StagedRequests
             /\ Registered(Id(k))'
             /\ artifacts'[Id(k)'].lifecycle # "RETIRED"
  <2>1. CASE k = h
    BY <1>1, <1>4, <2>1 DEF Registered
  <2>2. CASE k # h
    BY <1>5, <1>6, <2>2 DEF ClaimInv, Registered
  <2>3. QED
    BY <2>1, <2>2
<1>7. ASSUME NEW k \in Handles, NEW l \in Handles, Open(k)', Open(l)', Id(k)' = Id(l)'
      PROVE  k = l
  BY <1>4, <1>5, <1>7 DEF ClaimInv
<1>8. ClaimInv'
  BY <1>3, <1>4, <1>6, <1>7 DEF ClaimInv
<1>9. ASSUME NEW k \in Handles, k # h
      PROVE  (Open(k)' <=> Open(k)) /\ (Open(k) => Id(k)' = Id(k))
  BY <1>2, <1>9, StillOpen, OtherClients
<1>10. QED
  BY <1>3, <1>4, <1>8, <1>9

LEMMA WorksClaimInv ==
  ASSUME RecordsOK, ClaimInv, NEW h \in Handles, Works(h)
  PROVE  /\ ClaimInv'
         /\ \A k \in Handles : (Open(k)' <=> Open(k)) /\ Id(k)' = Id(k)
<1>1. PICK place \in Places \ {"idle", "reserved"} : Reaches(h, place)
  BY DEF Works
<1>2. /\ Open(h) /\ Id(h) \in Artifacts
      /\ artifacts'[Id(h)] \in Descriptors /\ artifacts'[Id(h)].lifecycle # "RETIRED"
      /\ \A x \in Artifacts \ {Id(h)} : artifacts'[x] = artifacts[x]
      /\ UNCHANGED plan
  BY ClaimedRecord DEF Works
<1>3. stage' \in [Handles -> Places] /\ stage'[h] \notin {"idle", "reserved"}
  BY <1>1 DEF ClaimInv, Reaches
<1>4. \A k \in Handles : (Open(k)' <=> Open(k)) /\ Id(k)' = Id(k)
  BY <1>1, <1>2, <1>3, StillOpen DEF Open, Id
<1>5. ASSUME NEW k \in Handles, Open(k)'
      PROVE  /\ plan'[k].request \in StagedRequests
             /\ Registered(Id(k))'
             /\ artifacts'[Id(k)'].lifecycle # "RETIRED"
  <2>1. Open(k) /\ Id(k)' = Id(k) /\ Id(k) \in Artifacts
    BY <1>4, <1>5, ClaimedRecord
  <2>2. CASE k = h
    <3>1. artifacts'[Id(h)] # Absent /\ Id(k)' = Id(h)
      BY <1>2, <2>1, <2>2 DEF Descriptors, Absent
    <3>2. plan'[k].request \in StagedRequests
      BY <1>2, <2>1 DEF ClaimInv
    <3>3. QED
      BY <1>2, <1>3, <2>2, <3>1, <3>2 DEF Registered
  <2>3. CASE k # h
    <3>1. Id(k) # Id(h) /\ artifacts'[Id(k)] = artifacts[Id(k)]
      BY <1>2, <2>1, <2>3 DEF ClaimInv
    <3>2. stage'[k] = stage[k]
      BY <1>1, <1>2, <2>1, <2>3, OtherClients
    <3>3. QED
      BY <1>2, <2>1, <3>1, <3>2 DEF ClaimInv, Registered
  <2>4. QED
    BY <2>2, <2>3
<1>6. ASSUME NEW k \in Handles, NEW l \in Handles, Open(k)', Open(l)', Id(k)' = Id(l)'
      PROVE  k = l
  BY <1>4, <1>6 DEF ClaimInv
<1>7. plan' = [k \in Handles |-> plan'[k]]
  BY <1>2 DEF ClaimInv
<1>8. ClaimInv'
  BY <1>3, <1>5, <1>6, <1>7 DEF ClaimInv
<1>9. QED
  BY <1>4, <1>8

LEMMA FinishesClaimInv ==
  ASSUME RecordsOK, ClaimInv, NEW h \in Handles, Finishes(h)
  PROVE  /\ ClaimInv'
         /\ \A k \in Handles : Open(k)' => Open(k) /\ k # h /\ Id(k)' = Id(k)
         /\ \A k \in Handles \ {h} : Open(k) => Open(k)' /\ Id(k)' = Id(k)
<1>1. /\ Open(h) /\ Id(h) \in Artifacts
      /\ \A x \in Artifacts \ {Id(h)} : artifacts'[x] = artifacts[x]
      /\ Reaches(h, "idle") /\ plan' = [plan EXCEPT ![h] = NoPlan]
  BY ClaimedRecord DEF Finishes, Ends
<1>2. /\ stage' \in [Handles -> Places] /\ stage'[h] = "idle"
      /\ plan' = [k \in Handles |-> plan'[k]]
  BY <1>1 DEF ClaimInv, Reaches, Places
<1>3. ASSUME NEW k \in Handles, Open(k)'
      PROVE  /\ Open(k) /\ k # h /\ stage'[k] = stage[k] /\ plan'[k] = plan[k] /\ Id(k)' = Id(k)
             /\ artifacts'[Id(k)] = artifacts[Id(k)]
  <2>1. k # h
    BY <1>2, <1>3 DEF Open
  <2>2. Open(k)
    BY <1>1, <1>3, <2>1, StillOpen
  <2>3. stage'[k] = stage[k] /\ plan'[k] = plan[k] /\ Id(k)' = Id(k)
    BY <1>1, <2>1, <2>2, OtherClients
  <2>4. Id(k) # Id(h) /\ Id(k) \in Artifacts
    BY <1>1, <2>1, <2>2, ClaimedRecord DEF ClaimInv
  <2>5. QED
    BY <1>1, <2>1, <2>2, <2>3, <2>4
<1>4. ASSUME NEW k \in Handles, Open(k)'
      PROVE  /\ plan'[k].request \in StagedRequests
             /\ Registered(Id(k))'
             /\ artifacts'[Id(k)'].lifecycle # "RETIRED"
  BY <1>3, <1>4 DEF ClaimInv, Registered
<1>5. ASSUME NEW k \in Handles, NEW l \in Handles, Open(k)', Open(l)', Id(k)' = Id(l)'
      PROVE  k = l
  BY <1>3, <1>5 DEF ClaimInv
<1>6. ClaimInv'
  BY <1>2, <1>4, <1>5 DEF ClaimInv
<1>7. \A k \in Handles \ {h} : Open(k) => Open(k)' /\ Id(k)' = Id(k)
  BY <1>1, OtherClients
<1>8. QED
  BY <1>3, <1>6, <1>7

LEMMA OthersClaimInv ==
  ASSUME RecordsOK, ClaimInv, Others, UNCHANGED clients
  PROVE  ClaimInv'
<1>1. UNCHANGED <<stage, plan>> /\ \A h \in Handles : (Open(h)' <=> Open(h)) /\ Id(h)' = Id(h)
  BY DEF clients, Open, Id
<1>2. ASSUME NEW h \in Handles, Open(h)
      PROVE  /\ Registered(Id(h))'
             /\ artifacts'[Id(h)].lifecycle # "RETIRED"
             /\ artifacts'[Id(h)].content = artifacts[Id(h)].content
  <2>1. Id(h) \in Artifacts /\ Claimed(Id(h))
    BY <1>2, ClaimedRecord DEF Claimed
  <2>2. PICK a : a = Id(h)
    OBVIOUS
  <2>3. Registered(a)' /\ artifacts'[a].lifecycle # "RETIRED" /\ artifacts'[a].content = artifacts[a].content
    BY <2>1, <2>2, OthersLeaveClaims
  <2>4. QED
    BY <1>1, <2>2, <2>3 DEF Registered
<1>3. QED
  BY <1>1, <1>2 DEF ClaimInv

LEMMA StagedInvariant == StagedSpec => [](RecordsOK /\ ClaimInv)
<1>1. StagedInit => RecordsOK /\ ClaimInv
  <2>1. StagedInit => RecordsOK
    BY InitTypeOK DEF StagedInit
  <2>2. StagedInit => ClaimInv
    BY DEF StagedInit, ClaimInv, Open, Places
  <2>3. QED
    BY <2>1, <2>2
<1>2. RecordsOK /\ ClaimInv /\ [StagedNext]_stagedVars => RecordsOK' /\ ClaimInv'
  <2> SUFFICES ASSUME RecordsOK, ClaimInv, [StagedNext]_stagedVars
               PROVE  RecordsOK' /\ ClaimInv'
    OBVIOUS
  <2>1. ASSUME UNCHANGED <<artifacts, clients>>
        PROVE  ClaimInv'
    BY <2>1 DEF ClaimInv, clients, Open, Id, Registered
  <2>2. CASE UNCHANGED stagedVars
    <3>1. UNCHANGED vars /\ UNCHANGED <<artifacts, clients>>
      BY <2>2 DEF stagedVars, vars
    <3>2. QED
      BY <2>1, <3>1, NextRecordsOK
  <2>3. ASSUME NEW h \in Handles, Step(h)
        PROVE  RecordsOK' /\ ClaimInv'
    BY <2>1, <2>3, StepRecordsOK, StepForm, ReserveClaimInv, WorksClaimInv, FinishesClaimInv
  <2>4. CASE Others /\ UNCHANGED <<reserved, clients>>
    BY <2>4, OthersAreCalls, NextRecordsOK, OthersClaimInv
  <2>5. QED
    BY <2>2, <2>3, <2>4 DEF StagedNext
<1>3. QED
  BY <1>1, <1>2, PTL DEF StagedSpec

LEMMA NextStagedCases ==
  ASSUME RecordsOK, ClaimInv, [StagedNext]_stagedVars
  PROVE  \/ UNCHANGED stagedVars
         \/ \E h \in Handles : Step(h)
         \/ Others /\ UNCHANGED <<reserved, clients>> /\ \A a : Claimed(a)' <=> Claimed(a)
<1>1. UNCHANGED clients => \A a : Claimed(a)' <=> Claimed(a)
  BY DEF clients, Claimed, Open, Id
<1>2. QED
  BY <1>1 DEF StagedNext

(* A record another call does not store keeps its state, or is invalidated *)
(* or retired.                                                             *)
LEMMA OthersWithdraw ==
  ASSUME RecordsOK, Others, NEW a \in Artifacts,
         ~ \E r \in PublishRequests, e \in Envelopes : Publishes(r, e) /\ a = r.id
  PROVE  /\ Registered(a) => Registered(a)'
         /\ \/ artifacts'[a].lifecycle \in {"INVALIDATED", "RETIRED"}
            \/ artifacts'[a].lifecycle = artifacts[a].lifecycle
<1>1. CASE artifacts'[a] = artifacts[a]
  BY <1>1 DEF Registered
<1>2. ASSUME NEW r \in PublishRequests, NEW e \in Envelopes, Publishes(r, e)
      PROVE  artifacts'[a] = artifacts[a]
  BY <1>2, PublishStores DEF Stores
<1>3. ASSUME NEW x \in Artifacts, NEW c \in Causes, NEW e \in Envelopes,
             \/ Invalidate(x, c, e)
             \/ \E i \in 1..Len(Visits(x)) : InvalidateStoppedAt(x, i, c, e)
      PROVE  \/ artifacts'[a] = artifacts[a]
             \/ Registered(a)' /\ artifacts'[a].lifecycle = "INVALIDATED"
  <2>1. PICK hit \in SUBSET Artifacts : \E stuck :
          /\ \A y \in hit : artifacts[y].lifecycle \in Reachable
          /\ Invalidates(hit, stuck, c)
    BY <1>3, InvalidateForm
  <2>2. CASE a \notin hit
    BY <2>1, <2>2 DEF Invalidates
  <2>3. CASE a \in hit
    <3>1. artifacts[a] \in Descriptors
      BY <2>1, <2>3, RegisteredDescriptor DEF Reachable, Registered, Absent
    <3>2. artifacts'[a] = [artifacts[a] EXCEPT !.lifecycle = "INVALIDATED"]
      BY <2>1, <2>3 DEF Invalidates
    <3>3. artifacts'[a].lifecycle = "INVALIDATED"
      BY <3>1, <3>2 DEF Descriptors
    <3>4. QED
      BY <3>3 DEF Registered, Absent
  <2>4. QED
    BY <2>2, <2>3
<1>4. ASSUME NEW x \in Artifacts, NEW e \in Envelopes, RetireRefused(x, e)
      PROVE  artifacts'[a] = artifacts[a]
  BY <1>4 DEF RetireRefused, Refuses, RecordsOK
<1>5. ASSUME NEW x \in Artifacts, NEW e \in Envelopes,
             Retire(x, e) \/ RetireShortOfPhysicalBytes(x, e) \/ RetireShortOfLogical(x, e)
      PROVE  \/ artifacts'[a] = artifacts[a]
             \/ Registered(a)' /\ artifacts'[a].lifecycle = "RETIRED"
  <2>1. Advances(x) /\ artifacts'[x].lifecycle = "RETIRED"
    BY <1>5, RetireAdvances DEF Retire, RetireShortOfPhysicalBytes, RetireShortOfLogical
  <2>2. QED
    BY <2>1 DEF Advances, Registered, Absent
<1>6. QED
  BY <1>1, <1>2, <1>3, <1>4, <1>5 DEF Others, Withdraws, SetAuthority, RollEpoch

(* Outside the open transactions no staged record is left half way. *)
THEOREM StagingLeavesNothing == StagedSpec => []NoLeftovers
<1> DEFINE Halfway == {"BUILDING", "VALIDATING", "VALID", "FAILED"}
           Ids == {r.id : r \in StagedRequests} \ {r.id : r \in PublishRequests}
<1>1. StagedInit => NoLeftovers
  <2>1. Ids \subseteq Artifacts
    BY StagedRequestType
  <2>2. QED
    BY <2>1 DEF StagedInit, Init, NoLeftovers, Absent
<1>2. RecordsOK /\ ClaimInv /\ NoLeftovers /\ [StagedNext]_stagedVars => NoLeftovers'
  <2> SUFFICES ASSUME RecordsOK, ClaimInv, NoLeftovers, [StagedNext]_stagedVars,
                      NEW a \in Ids, artifacts'[a].lifecycle \in Halfway
               PROVE  Claimed(a)'
    BY DEF NoLeftovers
  <2>1. a \in Artifacts /\ \A r \in PublishRequests : a # r.id
    BY StagedRequestType
  <2>2. artifacts[a].lifecycle \in Halfway => Claimed(a)
    BY DEF NoLeftovers
  <2>3. ASSUME UNCHANGED <<artifacts, clients>> PROVE Claimed(a)'
    <3>1. Claimed(a)
      BY <2>2, <2>3
    <3>2. QED
      BY <2>3, <3>1 DEF clients, Claimed, Open, Id
  <2>4. ASSUME NEW h \in Handles, NEW r \in StagedRequests, NEW e \in Envelopes, Reserve(h, r, e)
        PROVE  Claimed(a)'
    <3>1. /\ stage'[h] = "reserved" /\ Id(h)' = r.id
          /\ \A k \in Handles \ {h} : Open(k) => Open(k)' /\ Id(k)' = Id(k)
      BY <2>4, ReserveClaimInv
    <3>2. CASE a = r.id
      BY <3>1, <3>2 DEF Claimed, Open
    <3>3. CASE a # r.id
      <4>1. artifacts'[a] = artifacts[a]
        BY <2>1, <2>4, <3>3, ReserveStores DEF Stores
      <4>2. PICK k \in Handles : Open(k) /\ Id(k) = a
        BY <2>2, <4>1 DEF Claimed
      <4>3. k # h
        BY <2>4, <4>2 DEF Reserve, MayReserve
      <4>4. Open(k)' /\ Id(k)' = a
        BY <3>1, <4>2, <4>3
      <4>5. QED
        BY <4>4 DEF Claimed
    <3>4. QED
      BY <3>2, <3>3
  <2>5. ASSUME NEW h \in Handles, Works(h)
        PROVE  Claimed(a)'
    <3>1. \A k \in Handles : (Open(k)' <=> Open(k)) /\ Id(k)' = Id(k)
      BY <2>5, WorksClaimInv
    <3>2. Claimed(a)
      BY <2>1, <2>2, <2>5 DEF Works, Claimed
    <3>3. QED
      BY <3>1, <3>2 DEF Claimed
  <2>6. ASSUME NEW h \in Handles, Finishes(h)
        PROVE  Claimed(a)'
    <3>1. a # Id(h) /\ artifacts'[a] = artifacts[a]
      BY <2>1, <2>6 DEF Finishes, Absent
    <3>2. PICK k \in Handles : Open(k) /\ Id(k) = a
      BY <2>2, <3>1 DEF Claimed
    <3>3. Open(k)' /\ Id(k)' = a
      BY <2>6, <3>1, <3>2, FinishesClaimInv
    <3>4. QED
      BY <3>3 DEF Claimed
  <2>7. ASSUME Others, Claimed(a)' <=> Claimed(a)
        PROVE  Claimed(a)'
    BY <2>1, <2>2, <2>7, OthersWithdraw
  <2>8. QED
    BY <2>3, <2>4, <2>5, <2>6, <2>7, NextStagedCases, StepForm DEF stagedVars, vars
<1>3. QED
  BY <1>1, <1>2, StagedInvariant, PTL DEF StagedSpec

-----------------------------------------------------------------------------
(* Staged publication: the indexes. *)

HiddenInv ==
  /\ \A entry \in index : /\ entry[3] \in Artifacts
                          /\ Registered(entry[3]) \/ cause[entry[3]] # NoCause
  /\ StagedStaysHidden

(* What others file is unclaimed or has just been invalidated. *)
LEMMA OthersFile ==
  ASSUME RecordsOK, ClaimInv, Others
  PROVE  /\ \A entry \in index' \ index :
              /\ entry[3] \in Artifacts /\ Registered(entry[3])'
              /\ ~Claimed(entry[3]) \/ cause'[entry[3]] # NoCause
         /\ \A a \in Artifacts : cause[a] # NoCause => cause'[a] # NoCause
<1>1. CASE UNCHANGED <<index, cause>>
  BY <1>1
<1>2. ASSUME NEW r \in PublishRequests, NEW e \in Envelopes, Publishes(r, e)
      PROVE  /\ \A entry \in index' \ index :
                  entry[3] \in Artifacts /\ Registered(entry[3])' /\ ~Claimed(entry[3])
             /\ UNCHANGED cause
  <2>1. r.id \in Artifacts /\ ~Registered(r.id) /\ Registered(r.id)'
    BY <1>2, PublishStores, PublishRequestType DEF Stores, Registered, Descriptors, Absent
  <2>2. ~Claimed(r.id)
    BY <2>1 DEF ClaimInv, Claimed
  <2>3. index' = index \/ index' = index \cup IndexEntries(r.id, PublishedRecord(r))
    BY <1>2 DEF Publishes, Publish, PublishOverflowing, PublishesUnindexed,
                PublishWithoutNode, PublishRefusedAt
  <2>4. UNCHANGED cause
    BY <1>2 DEF Publishes, Publish, PublishOverflowing, PublishesUnindexed,
                PublishWithoutNode, PublishRefusedAt, history
  <2>5. QED
    BY <2>1, <2>2, <2>3, <2>4, EntryOwner
<1>3. ASSUME NEW x \in Artifacts, NEW c \in Causes, NEW e \in Envelopes,
             \/ Invalidate(x, c, e)
             \/ \E i \in 1..Len(Visits(x)) : InvalidateStoppedAt(x, i, c, e)
      PROVE  /\ \A entry \in index' \ index :
                  /\ entry[3] \in Artifacts /\ Registered(entry[3])'
                  /\ cause'[entry[3]] # NoCause
             /\ \A a \in Artifacts : cause[a] # NoCause => cause'[a] # NoCause
  <2>1. PICK hit \in SUBSET Artifacts : \E stuck :
          /\ \A y \in hit : artifacts[y].lifecycle \in Reachable
          /\ Invalidates(hit, stuck, c)
    BY <1>3, InvalidateForm
  <2>2. ASSUME NEW a \in hit
        PROVE  Registered(a)' /\ cause'[a] # NoCause
    <3>1. artifacts[a] \in Descriptors
      BY <2>1, RegisteredDescriptor DEF Reachable, Registered, Absent
    <3>2. artifacts'[a] = [artifacts[a] EXCEPT !.lifecycle = "INVALIDATED"]
      BY <2>1 DEF Invalidates
    <3>3. artifacts'[a].lifecycle = "INVALIDATED"
      BY <3>1, <3>2 DEF Descriptors
    <3>4. cause'[a] = c
      BY <2>1 DEF Invalidates
    <3>5. QED
      BY <3>3, <3>4, CallersAssumption DEF Registered, Absent
  <2>3. ASSUME NEW entry \in index' \ index
        PROVE  entry[3] \in hit
    <3>1. PICK stuck : Invalidates(hit, stuck, c)
      BY <2>1
    <3>2. PICK a \in hit : entry \in IndexEntries(a, [artifacts[a] EXCEPT !.lifecycle = "INVALIDATED"])
      BY <3>1 DEF Invalidates
    <3>3. QED
      BY <3>2, EntryOwner
  <2>4. ASSUME NEW a \in Artifacts, cause[a] # NoCause
        PROVE  cause'[a] # NoCause
    BY <2>1, <2>4, CallersAssumption DEF Invalidates
  <2>5. QED
    BY <2>2, <2>3, <2>4
<1>4. ASSUME NEW x \in Artifacts, NEW e \in Envelopes, ~Claimed(x),
             \/ Retire(x, e) \/ RetireRefused(x, e)
             \/ RetireShortOfPhysicalBytes(x, e) \/ RetireShortOfLogical(x, e)
      PROVE  /\ \A entry \in index' \ index : entry[3] = x
             /\ Registered(x)' /\ UNCHANGED cause
  <2>1. Advances(x)
    BY <1>4, EditOneAdvances, RetireAdvances
    DEF Retire, RetireShortOfPhysicalBytes, RetireShortOfLogical
  <2>2. Registered(x)'
    BY <2>1 DEF Advances, Registered, Descriptors, Absent
  <2>3. UNCHANGED cause
    BY <1>4 DEF Retire, RetireRefused, RetireShortOfPhysicalBytes, RetireShortOfLogical,
                Retires, history
  <2>4. \/ index' = index \ IndexEntries(x, artifacts[x])
        \/ \E d : index' = (index \ IndexEntries(x, artifacts[x])) \cup IndexEntries(x, d)
    BY <1>4 DEF Retire, RetireRefused, RetireShortOfPhysicalBytes, RetireShortOfLogical, Refuses
  <2>5. QED
    BY <2>2, <2>3, <2>4, EntryOwner
<1>5. QED
  BY <1>1, <1>2, <1>3, <1>4 DEF Others, Withdraws, SetAuthority, RollEpoch, history

(* Only the commit files what was staged, and no step forgets a cause. *)
LEMMA StepFiles ==
  ASSUME NEW h \in Handles, Step(h), ~Commit(h)
  PROVE  UNCHANGED <<index, cause>>
BY DEF Step, Reserve, ReserveRefused, Produce, ValidatePublish, VerifyDependencies,
       VerifyRefused, VerifyWithoutNode, vars, CommitRefused, Abort, AbortRefused, history

LEMMA NextHiddenInv ==
  ASSUME RecordsOK, ClaimInv, HiddenInv, [StagedNext]_stagedVars
  PROVE  HiddenInv'
<1>1. SUFFICES ASSUME NEW entry \in index', NEW a, a = entry[3]
               PROVE  /\ a \in Artifacts
                      /\ Registered(a)' \/ cause'[a] # NoCause
                      /\ Claimed(a)' => cause'[a] # NoCause
  BY DEF HiddenInv, StagedStaysHidden, Registered, Claimed
<1>2. entry \in index => /\ a \in Artifacts
                         /\ Registered(a) \/ cause[a] # NoCause
                         /\ Claimed(a) => cause[a] # NoCause
  BY <1>1 DEF HiddenInv, StagedStaysHidden
<1>3. CASE UNCHANGED <<artifacts, index, cause, clients>>
  BY <1>1, <1>2, <1>3 DEF clients, Claimed, Open, Id, Registered
<1>4. ASSUME NEW h \in Handles, NEW r \in StagedRequests, NEW e \in Envelopes, Reserve(h, r, e)
      PROVE  /\ a \in Artifacts
             /\ Registered(a)' \/ cause'[a] # NoCause
             /\ Claimed(a)' => cause'[a] # NoCause
  <2>1. UNCHANGED <<index, cause>> /\ ~Registered(r.id) /\ ~Open(h)
    BY <1>4 DEF Reserve, MayReserve, history
  <2>2. Registered(a) => Registered(a)'
    BY <1>2, <1>4, <2>1, <1>1, ReserveStores DEF Stores, Registered
  <2>3. Claimed(a)' => Claimed(a) \/ a = r.id
    BY <1>4, ReserveClaimInv DEF Claimed
  <2>4. QED
    BY <1>1, <1>2, <2>1, <2>2, <2>3
<1>5. ASSUME NEW h \in Handles, Works(h), UNCHANGED <<index, cause>>
      PROVE  /\ a \in Artifacts
             /\ Registered(a)' \/ cause'[a] # NoCause
             /\ Claimed(a)' => cause'[a] # NoCause
  <2>1. Claimed(a)' => Claimed(a)
    BY <1>5, WorksClaimInv DEF Claimed
  <2>2. Registered(a) => Registered(a)'
    BY <1>1, <1>2, <1>5 DEF Works, Registered, Descriptors, Absent, LifecycleStates
  <2>3. QED
    BY <1>1, <1>2, <1>5, <2>1, <2>2
<1>6. ASSUME NEW h \in Handles, Finishes(h), UNCHANGED <<index, cause>>
      PROVE  /\ a \in Artifacts
             /\ Registered(a)' \/ cause'[a] # NoCause
             /\ Claimed(a)' => cause'[a] # NoCause
  <2>1. Claimed(a)' => Claimed(a)
    BY <1>6, FinishesClaimInv DEF Claimed
  <2>2. a = Id(h) => Claimed(a)
    BY <1>6 DEF Finishes, Claimed
  <2>3. a # Id(h) => (Registered(a) => Registered(a)')
    BY <1>1, <1>2, <1>6 DEF Finishes, Registered
  <2>4. QED
    BY <1>1, <1>2, <1>6, <2>1, <2>2, <2>3
<1>7. ASSUME NEW h \in Handles, Commit(h)
      PROVE  /\ a \in Artifacts
             /\ Registered(a)' \/ cause'[a] # NoCause
             /\ Claimed(a)' => cause'[a] # NoCause
  <2>1. Finishes(h) /\ Open(h) /\ Id(h) \in Artifacts
    BY <1>7, CommitForm, ClaimedRecord DEF Finishes
  <2>2. UNCHANGED cause /\ index' = index \cup IndexEntries(Id(h), Commits(h))
    BY <1>7 DEF Commit, history
  <2>3. Claimed(a)' => Claimed(a) /\ a # Id(h)
    <3>1. ASSUME NEW k \in Handles, Open(k)', Id(k)' = a
          PROVE  Claimed(a) /\ a # Id(h)
      BY <2>1, <3>1, FinishesClaimInv DEF Claimed, ClaimInv
    <3>2. QED
      BY <3>1 DEF Claimed
  <2>4. artifacts'[Id(h)] # Absent
    BY <1>7, CommitForm DEF Absent
  <2>5. CASE a = Id(h)
    BY <2>1, <2>3, <2>4, <2>5 DEF Registered
  <2>6. CASE a # Id(h)
    <3>1. entry \in index
      BY <1>1, <2>2, <2>6, EntryOwner
    <3>2. Registered(a) => Registered(a)'
      BY <1>2, <2>1, <2>6, <3>1 DEF Finishes, Registered
    <3>3. QED
      BY <1>2, <2>2, <2>3, <3>1, <3>2
  <2>7. QED
    BY <2>5, <2>6
<1>8. ASSUME NEW h \in Handles, Step(h)
      PROVE  /\ a \in Artifacts
             /\ Registered(a)' \/ cause'[a] # NoCause
             /\ Claimed(a)' => cause'[a] # NoCause
  BY <1>3, <1>4, <1>5, <1>6, <1>7, <1>8, StepFiles, StepForm
<1>9. ASSUME Others, \A x : Claimed(x)' <=> Claimed(x)
      PROVE  /\ a \in Artifacts
             /\ Registered(a)' \/ cause'[a] # NoCause
             /\ Claimed(a)' => cause'[a] # NoCause
  <2>1. CASE entry \in index
    <3>1. cause[a] # NoCause => cause'[a] # NoCause
      BY <1>2, <1>9, <2>1, OthersFile
    <3>2. Registered(a) => Registered(a)'
      <4>1. ASSUME NEW r \in PublishRequests, NEW e \in Envelopes, Publishes(r, e), a = r.id
            PROVE  ~Registered(a)
        BY <4>1, PublishStores DEF Stores
      <4>2. QED
        BY <1>2, <1>9, <2>1, <4>1, OthersWithdraw
    <3>3. QED
      BY <1>2, <1>9, <2>1, <3>1, <3>2
  <2>2. CASE entry \notin index
    BY <1>1, <1>9, <2>2, OthersFile
  <2>3. QED
    BY <2>1, <2>2
<1>10. QED
  BY <1>3, <1>8, <1>9, NextStagedCases DEF stagedVars, vars

(* Lookups do not find what is being staged, unless an invalidation came   *)
(* along its edges and filed it.                                           *)
THEOREM StagingStaysHidden == StagedSpec => []StagedStaysHidden
<1>1. StagedInit => HiddenInv
  BY DEF StagedInit, Init, HiddenInv, StagedStaysHidden
<1>2. RecordsOK /\ ClaimInv /\ HiddenInv /\ [StagedNext]_stagedVars => HiddenInv'
  BY NextHiddenInv
<1>3. HiddenInv => StagedStaysHidden
  BY DEF HiddenInv
<1>4. QED
  BY <1>1, <1>2, <1>3, StagedInvariant, PTL DEF StagedSpec

-----------------------------------------------------------------------------
(* Staged publication: the reference counts. *)

(* One record that is there changes its content, and is not retired. *)
LEMMA HoldersRewritten ==
  ASSUME NEW a \in Artifacts, Registered(a), artifacts[a].lifecycle # "RETIRED",
         artifacts'[a] \in Descriptors, artifacts'[a].lifecycle # "RETIRED",
         \A x \in Artifacts \ {a} : artifacts'[x] = artifacts[x],
         NEW c
  PROVE  Holders(c)' = IF artifacts'[a].content = c THEN Holders(c) \cup {a} ELSE Holders(c) \ {a}
<1>1. artifacts'[a] # Absent
  BY DEF Descriptors, Absent, LifecycleStates
<1>2. a \in Holders(c)' <=> artifacts'[a].content = c
  BY <1>1 DEF Holders, Registered
<1>3. ASSUME NEW x \in Artifacts, x # a
      PROVE  x \in Holders(c)' <=> x \in Holders(c)
  BY <1>3 DEF Holders, Registered
<1>4. Holders(c) \subseteq Artifacts /\ Holders(c)' \subseteq Artifacts
  BY DEF Holders
<1>5. QED
  BY <1>2, <1>3, <1>4

(* Which records' content is still to be produced, after a step. *)
LEMMA UndeliveredReserved ==
  ASSUME RecordsOK, ClaimInv, NEW h \in Handles, NEW r \in StagedRequests, NEW e \in Envelopes,
         Reserve(h, r, e)
  PROVE  Undelivered' = Undelivered \cup {r.id} /\ r.id \notin Undelivered
<1>1. /\ stage' = [stage EXCEPT ![h] = "reserved"] /\ ~Open(h) /\ ~Registered(r.id)
      /\ stage \in [Handles -> Places]
  BY DEF Reserve, MayReserve, Reaches, ClaimInv
<1>2. /\ Id(h)' = r.id
      /\ \A k \in Handles \ {h} : (Open(k)' <=> Open(k)) /\ (Open(k) => Id(k)' = Id(k))
  BY ReserveClaimInv
<1>3. \A k \in Handles \ {h} : stage'[k] = stage[k] /\ (stage[k] = "reserved" => Open(k))
  BY <1>1 DEF Open
<1>4. stage'[h] = "reserved" /\ stage[h] # "reserved"
  BY <1>1 DEF Open
<1>5. \A k \in Handles : stage[k] = "reserved" => Id(k) # r.id
  BY <1>1, <1>3, <1>4 DEF ClaimInv
<1>6. ASSUME NEW x PROVE x \in Undelivered' <=> x \in Undelivered \cup {r.id}
  BY <1>2, <1>3, <1>4 DEF Undelivered
<1>7. QED
  BY <1>5, <1>6 DEF Undelivered

LEMMA UndeliveredGoesOn ==
  ASSUME RecordsOK, ClaimInv, NEW h \in Handles, Works(h) \/ Finishes(h)
  PROVE  /\ Undelivered' = Undelivered \ {Id(h)}
         /\ Id(h) \in Undelivered <=> stage[h] = "reserved"
<1>1. PICK place \in Places \ {"reserved"} : stage' = [stage EXCEPT ![h] = place]
  BY DEF Works, Finishes, Ends, Reaches, Places
<1>2. /\ Open(h) /\ stage'[h] # "reserved"
      /\ \A k \in Handles \ {h} : stage'[k] = stage[k] /\ (stage[k] = "reserved" => Open(k))
  BY <1>1 DEF ClaimInv, Open, Works, Finishes
<1>3. \A k \in Handles \ {h} : Open(k) => Id(k)' = Id(k) /\ Id(k) # Id(h)
  BY <1>2, WorksClaimInv, FinishesClaimInv DEF ClaimInv
<1>4. ASSUME NEW x PROVE x \in Undelivered' <=> x \in Undelivered /\ x # Id(h)
  BY <1>2, <1>3 DEF Undelivered
<1>5. Id(h) \in Undelivered <=> stage[h] = "reserved"
  BY <1>2, <1>3 DEF Undelivered
<1>6. QED
  BY <1>4, <1>5

LEMMA UndeliveredKept ==
  ASSUME UNCHANGED clients
  PROVE  Undelivered' = Undelivered
BY DEF clients, Undelivered, Id

LEMMA UndeliveredClaimed ==
  ASSUME RecordsOK, ClaimInv, NEW a \in Undelivered
  PROVE  a \in Artifacts /\ Claimed(a) /\ Registered(a)
<1>1. PICK h \in Handles : stage[h] = "reserved" /\ a = Id(h)
  BY DEF Undelivered
<1>2. QED
  BY <1>1, ClaimedRecord DEF Claimed, Open, ClaimInv

(* The carriers' tables, before and after a step. *)
LEMMA CarriersTable ==
  ASSUME NEW H, H = [c \in Contents |-> Carriers(c)]
  PROVE  /\ H \in Tables /\ \A c \in Contents : H[c] = Holders(c) \ Undelivered
         /\ StagedReferencesExact <=> (~overdrawn => Counted(H, refs, backed))
<1>1. \A c : Carriers(c) \in SUBSET Artifacts
  BY DEF Carriers, Holders
<1>2. QED
  BY <1>1 DEF Tables, StagedReferencesExact, Counted, Carriers

LEMMA CarriersTableAfter ==
  ASSUME NEW I, I = [c \in Contents |-> Carriers(c)']
  PROVE  /\ \A c \in Contents : I[c] = Holders(c)' \ Undelivered'
         /\ StagedReferencesExact' <=> (~overdrawn' => Counted(I, refs', backed'))
BY DEF StagedReferencesExact, Counted, Carriers

(* A client that is done with the delivery and leaves the content and the  *)
(* store alone.                                                            *)
LEMMA ContentKept ==
  ASSUME RecordsOK, ClaimInv, NEW h \in Handles, Works(h) \/ Finishes(h),
         stage[h] # "reserved", artifacts'[Id(h)] \in Descriptors,
         artifacts'[Id(h)].lifecycle # "RETIRED",
         artifacts'[Id(h)].content = artifacts[Id(h)].content,
         NEW c \in Contents
  PROVE  Holders(c)' \ Undelivered' = Holders(c) \ Undelivered
<1>1. PICK a : a = Id(h)
  OBVIOUS
<1>2. /\ a \in Artifacts /\ Registered(a) /\ artifacts[a] \in Descriptors
      /\ artifacts[a].lifecycle # "RETIRED" /\ artifacts'[a] \in Descriptors
      /\ artifacts'[a].lifecycle # "RETIRED" /\ artifacts'[a].content = artifacts[a].content
      /\ \A x \in Artifacts \ {a} : artifacts'[x] = artifacts[x]
  BY <1>1, ClaimedRecord DEF ClaimInv, Works, Finishes
<1>3. Holders(c)' = IF artifacts'[a].content = c THEN Holders(c) \cup {a} ELSE Holders(c) \ {a}
  BY <1>2, HoldersRewritten
<1>4. a \in Holders(c) <=> artifacts'[a].content = c
  BY <1>2, HoldersHold
<1>5. Undelivered' = Undelivered \ {a} /\ a \notin Undelivered
  BY <1>1, UndeliveredGoesOn
<1>6. QED
  BY <1>3, <1>4, <1>5

LEMMA ProducedCarriers ==
  ASSUME RecordsOK, ClaimInv, NEW h \in Handles, NEW c \in Contents, Produce(h, c)
  PROVE  /\ Id(h) \in Artifacts /\ Id(h) \in Undelivered
         /\ \A d \in Contents :
              Holders(d)' \ Undelivered' =
                IF d = c THEN (Holders(d) \ Undelivered) \cup {Id(h)} ELSE Holders(d) \ Undelivered
<1>1. PICK a : a = Id(h)
  OBVIOUS
<1>2. Works(h) /\ artifacts'[a].content = c /\ stage[h] = "reserved"
  BY <1>1, ProduceForm DEF Produce, At
<1>3. /\ a \in Artifacts /\ Registered(a) /\ artifacts[a].lifecycle # "RETIRED"
      /\ artifacts'[a] \in Descriptors /\ artifacts'[a].lifecycle # "RETIRED"
      /\ \A x \in Artifacts \ {a} : artifacts'[x] = artifacts[x]
  BY <1>1, <1>2, ClaimedRecord DEF Works, ClaimInv
<1>4. Undelivered' = Undelivered \ {a} /\ a \in Undelivered
  BY <1>1, <1>2, UndeliveredGoesOn
<1>5. ASSUME NEW d \in Contents
      PROVE  Holders(d)' \ Undelivered' =
               IF d = c THEN (Holders(d) \ Undelivered) \cup {a} ELSE Holders(d) \ Undelivered
  <2>1. Holders(d)' = IF artifacts'[a].content = d THEN Holders(d) \cup {a} ELSE Holders(d) \ {a}
    BY <1>3, HoldersRewritten
  <2>2. QED
    BY <1>2, <1>4, <2>1
<1>6. QED
  BY <1>1, <1>3, <1>4, <1>5

(* What an abort takes back, unless the reference was never taken. *)
LEMMA AbortedCarriers ==
  ASSUME RecordsOK, ClaimInv, NEW h \in Handles, Abort(h) \/ AbortRefused(h), NEW c \in Contents
  PROVE  Holders(c)' \ Undelivered' = (Holders(c) \ Undelivered) \ {Id(h)}
<1>1. PICK a : a = Id(h)
  OBVIOUS
<1>2. /\ Finishes(h) /\ artifacts'[a] = Absent
      /\ \A x \in Artifacts \ {a} : artifacts'[x] = artifacts[x]
  BY <1>1, AbortForm DEF Finishes
<1>3. a \notin Holders(c)'
  BY <1>2 DEF Holders, Registered
<1>4. ASSUME NEW x \in Artifacts, x # a
      PROVE  x \in Holders(c)' <=> x \in Holders(c)
  BY <1>2, <1>4 DEF Holders, Registered
<1>5. Holders(c) \subseteq Artifacts /\ Holders(c)' \subseteq Artifacts
  BY DEF Holders
<1>6. Undelivered' = Undelivered \ {a}
  BY <1>1, <1>2, UndeliveredGoesOn
<1>7. QED
  BY <1>1, <1>3, <1>4, <1>5, <1>6

LEMMA StepReferencesExact ==
  ASSUME RecordsOK, ClaimInv, StagedReferencesExact, CountsFit, NEW h \in Handles, Step(h)
  PROVE  StagedReferencesExact'
<1>1. PICK H : H = [c \in Contents |-> Carriers(c)]
  OBVIOUS
<1>2. PICK I : I = [c \in Contents |-> Carriers(c)']
  OBVIOUS
<1>3. /\ H \in Tables /\ (~overdrawn => Counted(H, refs, backed))
      /\ \A c \in Contents : H[c] = Holders(c) \ Undelivered /\ I[c] = Holders(c)' \ Undelivered'
  BY <1>1, <1>2, CarriersTable, CarriersTableAfter
<1> SUFFICES ASSUME ~overdrawn' PROVE Counted(I, refs', backed')
  BY <1>2, CarriersTableAfter
<1>4. ~overdrawn
  BY DEF Step, Reserve, ReserveRefused, Produce, ValidatePublish, VerifyDependencies,
         VerifyRefused, VerifyWithoutNode, Commit, CommitRefused, Abort, AbortRefused, clients
<1>5. Counted(H, refs, backed)
  BY <1>3, <1>4
<1>6. ASSUME NEW r \in StagedRequests, NEW e \in Envelopes, Reserve(h, r, e)
      PROVE  Counted(I, refs', backed')
  <2>1. r.id \in Artifacts /\ Stores(r.id) /\ artifacts'[r.id].lifecycle # "RETIRED"
    BY <1>6, ReserveStores
  <2>2. Undelivered' = Undelivered \cup {r.id}
    BY <1>6, UndeliveredReserved
  <2>3. ASSUME NEW c \in Contents PROVE I[c] = H[c]
    <3>1. /\ r.id \notin Holders(c)
          /\ Holders(c)' = IF artifacts'[r.id].content = c THEN Holders(c) \cup {r.id} ELSE Holders(c)
      BY <2>1, HoldersStored
    <3>2. I[c] = Holders(c)' \ (Undelivered \cup {r.id}) /\ H[c] = Holders(c) \ Undelivered
      BY <1>3, <2>2
    <3>3. Holders(c)' = Holders(c) \cup {r.id} \/ Holders(c)' = Holders(c)
      BY <3>1
    <3>4. QED
      BY <3>1, <3>2, <3>3
  <2>4. UNCHANGED store
    BY <1>6 DEF Reserve
  <2>5. QED
    BY <1>5, <2>3, <2>4, CountKept
<1>7. ASSUME NEW c \in Contents, Produce(h, c)
      PROVE  Counted(I, refs', backed')
  <2>1. PICK r : r = [content |-> c]
    OBVIOUS
  <2>2. r.content \in Contents /\ r.content = c /\ Stages(r)
    BY <1>7, <2>1 DEF Produce
  <2>3. PICK a : a = Id(h)
    OBVIOUS
  <2>4. /\ a \in Artifacts /\ a \in Undelivered
        /\ \A d \in Contents :
              Holders(d)' \ Undelivered' =
                IF d = c THEN (Holders(d) \ Undelivered) \cup {a} ELSE Holders(d) \ Undelivered
    BY <1>7, <2>3, ProducedCarriers
  <2>5. /\ a \notin H[r.content]
        /\ \A d \in Contents : I[d] = IF d = r.content THEN H[d] \cup {a} ELSE H[d]
    BY <1>3, <2>2, <2>4
  <2>6. H \in Tables /\ a \in Artifacts /\ r.content \in Contents /\ Stages(r)
    BY <1>3, <2>2, <2>4
  <2>7. QED
    BY <1>5, <2>5, <2>6, CountGained
<1>8. ASSUME UNCHANGED store, Works(h) \/ Finishes(h), stage[h] # "reserved",
             artifacts'[Id(h)] \in Descriptors, artifacts'[Id(h)].lifecycle # "RETIRED",
             artifacts'[Id(h)].content = artifacts[Id(h)].content
      PROVE  Counted(I, refs', backed')
  <2>1. \A c \in Contents : I[c] = H[c]
    BY <1>3, <1>8, ContentKept
  <2>2. QED
    BY <1>5, <1>8, <2>1, CountKept
<1>9. ASSUME NEW report \in Reports, ValidatePublish(h, report)
      PROVE  Counted(I, refs', backed')
  <2>1. Works(h) /\ artifacts'[Id(h)].content = artifacts[Id(h)].content
    BY <1>9, ValidateForm
  <2>2. UNCHANGED store /\ stage[h] # "reserved"
    BY <1>9 DEF ValidatePublish, At
  <2>3. QED
    BY <1>8, <2>1, <2>2 DEF Works
<1>10. CASE Commit(h) \/ CommitRefused(h)
  <2>1. /\ artifacts'[Id(h)] \in Descriptors /\ artifacts'[Id(h)].lifecycle = "PUBLISHED"
        /\ artifacts'[Id(h)].content = artifacts[Id(h)].content
        /\ Works(h) \/ Finishes(h)
    BY <1>10, CommitForm
  <2>2. UNCHANGED store /\ stage[h] # "reserved"
    BY <1>10 DEF Commit, CommitRefused, At
  <2>3. QED
    BY <1>8, <2>1, <2>2
<1>11. CASE VerifyDependencies(h) \/ VerifyRefused(h) \/ VerifyWithoutNode(h)
  <2>1. Works(h) /\ UNCHANGED artifacts
    BY <1>11, VerifyForm
  <2>2. UNCHANGED store /\ stage[h] # "reserved"
    BY <1>11 DEF VerifyDependencies, VerifyRefused, VerifyWithoutNode, vars, store, At
  <2>3. QED
    BY <1>8, <2>1, <2>2 DEF Works
<1>12. CASE Abort(h) \/ AbortRefused(h)
  <2>1. PICK a : a = Id(h)
    OBVIOUS
  <2>2. /\ Finishes(h) /\ refs' = Released(artifacts[a]) /\ Erases(artifacts[a])
    BY <1>12, <2>1, AbortForm
  <2>3. \A c \in Contents : I[c] = H[c] \ {a}
    BY <1>3, <1>12, <2>1, AbortedCarriers
  <2>4. /\ a \in Artifacts /\ artifacts[a] \in Descriptors /\ artifacts[a].lifecycle # "RETIRED"
        /\ a \in Undelivered <=> stage[h] = "reserved"
    BY <2>1, <2>2, ClaimedRecord, UndeliveredGoesOn DEF ClaimInv, Finishes
  <2>5. CASE stage[h] = "reserved"
    <3>1. artifacts[a].content \notin backed
      BY <1>12, <2>1, <2>5 DEF Abort, AbortRefused, TakesBackTooMuch
    <3>2. UNCHANGED store
      BY <2>2, <3>1 DEF Released, Erases, ReleasesLast, store
    <3>3. \A c \in Contents : a \notin H[c]
      BY <1>3, <2>4, <2>5
    <3>4. \A c \in Contents : I[c] = H[c]
      BY <2>3, <3>3, NothingTaken
    <3>5. QED
      BY <1>5, <3>2, <3>4, CountKept
  <2>6. CASE stage[h] # "reserved"
    <3>1. \A c \in Contents : a \in H[c] <=> artifacts[a].content = c
      BY <1>3, <2>4, <2>6, HoldersHold
    <3>2. QED
      BY <1>3, <1>5, <2>2, <2>3, <2>4, <3>1, CountGivenUp
  <2>7. QED
    BY <2>5, <2>6
<1>13. ASSUME NEW r \in StagedRequests, NEW e \in Envelopes, ReserveRefused(h, r, e)
       PROVE  Counted(I, refs', backed')
  <2>1. UNCHANGED <<artifacts, store, clients>>
    BY <1>13 DEF ReserveRefused
  <2>2. \A c \in Contents : I[c] = H[c]
    BY <1>3, <2>1, UndeliveredKept DEF Holders, Registered
  <2>3. QED
    BY <1>5, <2>1, <2>2, CountKept
<1>14. QED
  BY <1>6, <1>7, <1>9, <1>10, <1>11, <1>12, <1>13 DEF Step

LEMMA OthersReferencesExact ==
  ASSUME RecordsOK, ClaimInv, StagedReferencesExact, CountsFit, Others, UNCHANGED clients
  PROVE  StagedReferencesExact'
<1>1. PICK H : H = [c \in Contents |-> Carriers(c)]
  OBVIOUS
<1>2. PICK I : I = [c \in Contents |-> Carriers(c)']
  OBVIOUS
<1>3. /\ H \in Tables /\ (~overdrawn => Counted(H, refs, backed))
      /\ \A c \in Contents : H[c] = Holders(c) \ Undelivered /\ I[c] = Holders(c)' \ Undelivered
  BY <1>1, <1>2, CarriersTable, CarriersTableAfter, UndeliveredKept
<1> SUFFICES ASSUME ~overdrawn' PROVE Counted(I, refs', backed')
  BY <1>2, CarriersTableAfter
<1>4. Counted(H, refs, backed)
  BY <1>3 DEF clients
<1>5. ASSUME KeepsHolders PROVE Counted(I, refs', backed')
  BY <1>3, <1>4, <1>5, CountKept DEF KeepsHolders
<1>6. CASE UNCHANGED <<artifacts, store>>
  BY <1>5, <1>6 DEF KeepsHolders, Holders, Registered
<1>7. ASSUME NEW r \in PublishRequests, NEW e \in Envelopes, Publishes(r, e)
      PROVE  Counted(I, refs', backed')
  <2>1. /\ r.id \in Artifacts /\ r.content \in Contents /\ ~Registered(r.id) /\ Stages(r)
        /\ r.id \notin Holders(r.content)
        /\ \A c \in Contents :
             Holders(c)' = IF c = r.content THEN Holders(c) \cup {r.id} ELSE Holders(c)
    BY <1>7, PublishHolders
  <2>2. r.id \notin Undelivered
    BY <2>1, UndeliveredClaimed
  <2>3. /\ r.id \notin H[r.content]
        /\ \A c \in Contents : I[c] = IF c = r.content THEN H[c] \cup {r.id} ELSE H[c]
    BY <1>3, <2>1, <2>2
  <2>4. QED
    BY <1>3, <1>4, <2>1, <2>3, CountGained
<1>8. ASSUME NEW a \in Artifacts, NEW e \in Envelopes, ~Claimed(a), Withdraws(a, e)
      PROVE  Counted(I, refs', backed')
  <2>1. Edits(a, e)
    BY <1>8 DEF Withdraws, Edits
  <2>2. a \notin Undelivered
    BY <1>8, UndeliveredClaimed
  <2>3. ASSUME GivesUp(a) PROVE Counted(I, refs', backed')
    <3>1. \A c \in Contents : (a \in H[c] <=> artifacts[a].content = c) /\ I[c] = H[c] \ {a}
      BY <1>3, <2>2, <2>3, HoldersHold DEF GivesUp
    <3>2. QED
      BY <1>3, <1>4, <2>3, <3>1, CountGivenUp DEF GivesUp
  <2>4. QED
    BY <1>5, <2>1, <2>3, EditHolders
<1>9. QED
  BY <1>6, <1>7, <1>8 DEF Others, SetAuthority, RollEpoch

(* The reference counts stay exact while any number of clients stage,      *)
(* commit and abort publications among the other calls, whatever digests   *)
(* their descriptors come with, until an abort before produce gives back   *)
(* a reference its transaction never took.                                 *)
THEOREM StagingCountsReferences ==
  ASSUME CountsFit
  PROVE  StagedSpec => []StagedReferencesExact
<1>1. StagedInit => StagedReferencesExact
  <2> SUFFICES ASSUME StagedInit PROVE StagedReferencesExact
    OBVIOUS
  <2>1. \A c : Carriers(c) = {}
    BY DEF StagedInit, Init, Carriers, Holders, Registered
  <2>2. QED
    BY <2>1, FS_EmptySet DEF StagedInit, Init, StagedReferencesExact
<1>2. RecordsOK /\ ClaimInv /\ StagedReferencesExact /\ [StagedNext]_stagedVars => StagedReferencesExact'
  <2> SUFFICES ASSUME RecordsOK, ClaimInv, StagedReferencesExact, [StagedNext]_stagedVars
               PROVE  StagedReferencesExact'
    OBVIOUS
  <2>1. CASE UNCHANGED stagedVars
    BY <2>1 DEF stagedVars, vars, clients, StagedReferencesExact, Carriers, Undelivered, Id,
                Holders, Registered
  <2>2. QED
    BY <2>1, StepReferencesExact, OthersReferencesExact DEF StagedNext
<1>3. QED
  BY <1>1, <1>2, StagedInvariant, PTL DEF StagedSpec

-----------------------------------------------------------------------------
(* The order of the visits. *)

(* Every set of ids that is not empty has a least one. *)
LEMMA LeastId ==
  ASSUME NEW T \in SUBSET Artifacts, T # {}
  PROVE  \E m \in T : \A x \in T : m <= x
<1> DEFINE below == {p \in Nat \X Nat : p[1] < p[2]}
<1>1. IsWellFoundedOn(below, Nat)
  BY NatLessThanWellFounded DEF OpToRel
<1>2. T \subseteq Nat
  BY ArtifactsAssumption
<1> HIDE DEF below
<1>3. PICK m \in T : \A x \in T : ~(<<x, m>> \in below)
  BY <1>1, <1>2, WFMin
<1>4. ASSUME NEW x \in T
      PROVE  m <= x
  <2>1. m \in Nat /\ x \in Nat /\ ~(<<x, m>> \in below)
    BY <1>2, <1>3
  <2>2. ~(x < m)
    BY <2>1 DEF below
  <2>3. QED
    BY <2>1, <2>2
<1>5. QED
  BY <1>4

(* Among the sets of artifacts with a property there is one none of whose  *)
(* proper subsets has it.                                                  *)
LEMMA SmallestSet ==
  ASSUME NEW F \in SUBSET (SUBSET Artifacts), F # {}
  PROVE  \E T \in F : \A U \in F : U \subseteq T => U = T
<1>1. F \subseteq FiniteSubsetsOf(Artifacts)
  BY IdsAssumption, FS_FiniteSubsetsOfFinite
<1>2. PICK T \in F : \A U \in F : <<U, T>> \notin StrictSubsetOrdering(Artifacts)
  BY <1>1, FS_StrictSubsetOrderingWellFounded, WFMin
<1>3. QED
  BY <1>2 DEF StrictSubsetOrdering

(* One step of the recursion VisitOrder is defined by: the set a visit     *)
(* deals with falls into what depends on the first and what does not.      *)
First(T) == CHOOSE m \in T : \A x \in T : m <= x
Near(T) == (T \ {First(T)}) \cap Dependents(graph, First(T))
Far(T) == (T \ {First(T)}) \ Dependents(graph, First(T))

VisitStep(f, T) == IF T = {} THEN << >> ELSE <<First(T)>> \o f[Near(T)] \o f[Far(T)]

IsOrder(f, S) == f = [T \in SUBSET S |-> VisitStep(f, T)]

LEMMA VisitOrderUnfolded ==
  ASSUME NEW S
  PROVE  VisitOrder(S) = (CHOOSE f : IsOrder(f, S))[S]
BY Zenon DEF VisitOrder, IsOrder, VisitStep, First, Near, Far

(* The least one goes first and both parts are smaller. *)
LEMMA SplitSmaller ==
  ASSUME NEW T \in SUBSET Artifacts, T # {}
  PROVE  /\ First(T) \in T
         /\ First(T) \notin Near(T) /\ First(T) \notin Far(T)
         /\ T = {First(T)} \cup Near(T) \cup Far(T)
<1>1. First(T) \in T
  BY LeastId DEF First
<1>2. QED
  BY <1>1 DEF Near, Far

LEMMA OrderStep ==
  ASSUME NEW S \in SUBSET Artifacts, NEW f, IsOrder(f, S), NEW T \in SUBSET S
  PROVE  f[T] = VisitStep(f, T)
BY DEF IsOrder

(* The recursion has one solution at most. *)
LEMMA OrdersAgree ==
  ASSUME NEW S \in SUBSET Artifacts, NEW f, IsOrder(f, S),
         NEW R \in SUBSET Artifacts, NEW g, IsOrder(g, R),
         NEW V \in SUBSET (S \cap R)
  PROVE  f[V] = g[V]
<1> DEFINE F == {T \in SUBSET (S \cap R) : f[T] # g[T]}
<1>1. SUFFICES ASSUME F # {} PROVE FALSE
  BY <1>1
<1>2. F \in SUBSET (SUBSET Artifacts)
  OBVIOUS
<1>3. PICK T \in F : \A U \in F : U \subseteq T => U = T
  <2> HIDE DEF F
  <2>1. QED
    BY <1>1, <1>2, SmallestSet
<1>4. T \in SUBSET S /\ T \in SUBSET R /\ T \in SUBSET Artifacts /\ f[T] # g[T]
  BY <1>3
<1>5. f[T] = VisitStep(f, T) /\ g[T] = VisitStep(g, T)
  BY <1>4, OrderStep
<1>6. T # {}
  BY <1>4, <1>5 DEF VisitStep
<1>7. /\ Near(T) \in SUBSET (S \cap R) /\ Near(T) \subseteq T /\ Near(T) # T
      /\ Far(T) \in SUBSET (S \cap R) /\ Far(T) \subseteq T /\ Far(T) # T
  BY <1>4, <1>6, SplitSmaller
<1>8. f[Near(T)] = g[Near(T)] /\ f[Far(T)] = g[Far(T)]
  BY <1>3, <1>7
<1>9. QED
  BY <1>4, <1>5, <1>6, <1>8 DEF VisitStep

(* It has one. *)
LEMMA OrderExists ==
  ASSUME NEW S \in SUBSET Artifacts
  PROVE  \E f : IsOrder(f, S)
<1> DEFINE F == {T \in SUBSET Artifacts : ~ \E f : IsOrder(f, T)}
<1>1. SUFFICES ASSUME F # {} PROVE FALSE
  BY <1>1
<1>2. PICK T \in F : \A U \in F : U \subseteq T => U = T
  <2>1. F \in SUBSET (SUBSET Artifacts)
    OBVIOUS
  <2> HIDE DEF F
  <2>2. QED
    BY <1>1, <2>1, SmallestSet
<1>3. T \in SUBSET Artifacts /\ ~ \E f : IsOrder(f, T)
  BY <1>2
<1> DEFINE o(U) == CHOOSE f : IsOrder(f, U)
           g == [U \in SUBSET T |->
                   IF U = {} THEN << >>
                   ELSE <<First(U)>> \o o(Near(U))[Near(U)] \o o(Far(U))[Far(U)]]
<1>4. ASSUME NEW U \in SUBSET T, U # T
      PROVE  IsOrder(o(U), U)
  <2>1. U \notin F /\ U \in SUBSET Artifacts
    BY <1>2, <1>3, <1>4
  <2>2. \E f : IsOrder(f, U)
    BY <2>1
  <2>3. QED
    BY <2>2
<1> HIDE DEF o, F
<1>5. ASSUME NEW U \in SUBSET T, U # {}
      PROVE  /\ Near(U) \in SUBSET U /\ Near(U) \in SUBSET T /\ Near(U) # T
             /\ Far(U) \in SUBSET U /\ Far(U) \in SUBSET T /\ Far(U) # T
  BY <1>3, <1>5, SplitSmaller
<1>6. ASSUME NEW V \in SUBSET T, V # T
      PROVE  g[V] = o(V)[V]
  <2>1. IsOrder(o(V), V) /\ V \in SUBSET Artifacts /\ V \in SUBSET V
    BY <1>3, <1>4, <1>6
  <2>2. o(V)[V] = VisitStep(o(V), V)
    BY <2>1, OrderStep
  <2>3. CASE V = {}
    BY <2>2, <2>3 DEF VisitStep
  <2>4. CASE V # {}
    <3>1. /\ Near(V) \in SUBSET V /\ Near(V) \in SUBSET Artifacts
          /\ Far(V) \in SUBSET V /\ Far(V) \in SUBSET Artifacts
          /\ IsOrder(o(Near(V)), Near(V)) /\ IsOrder(o(Far(V)), Far(V))
      BY <1>3, <1>4, <1>5, <2>4
    <3>2. o(V)[Near(V)] = o(Near(V))[Near(V)] /\ o(V)[Far(V)] = o(Far(V))[Far(V)]
      BY <2>1, <3>1, OrdersAgree
    <3>3. g[V] = <<First(V)>> \o o(Near(V))[Near(V)] \o o(Far(V))[Far(V)]
      BY <2>4
    <3> HIDE DEF g
    <3>4. QED
      BY <2>2, <2>4, <3>2, <3>3 DEF VisitStep
  <2>5. QED
    BY <2>3, <2>4
<1>7. ASSUME NEW U \in SUBSET T
      PROVE  g[U] = VisitStep(g, U)
  <2>1. CASE U = {}
    BY <2>1 DEF VisitStep
  <2>2. CASE U # {}
    <3>1. g[Near(U)] = o(Near(U))[Near(U)] /\ g[Far(U)] = o(Far(U))[Far(U)]
      BY <1>5, <1>6, <2>2
    <3>2. g[U] = <<First(U)>> \o o(Near(U))[Near(U)] \o o(Far(U))[Far(U)]
      BY <2>2
    <3> HIDE DEF g
    <3>3. QED
      BY <2>2, <3>1, <3>2 DEF VisitStep
  <2>3. QED
    BY <2>1, <2>2
<1>8. g = [U \in SUBSET T |-> g[U]]
  OBVIOUS
<1> HIDE DEF g
<1>9. IsOrder(g, T)
  BY <1>7, <1>8 DEF IsOrder
<1>10. QED
  BY <1>3, <1>9

Elements(s) == {s[i] : i \in 1..Len(s)}

LEMMA ElementsJoined ==
  ASSUME NEW X, NEW m \in X, NEW s \in Seq(X), NEW t \in Seq(X)
  PROVE  /\ <<m>> \o s \o t \in Seq(X)
         /\ Elements(<<m>> \o s \o t) = {m} \cup Elements(s) \cup Elements(t)
<1> DEFINE u == <<m>> \o s
<1>1. /\ u \in Seq(X) /\ Len(u) = Len(s) + 1 /\ u[1] = m
      /\ \A i \in 1..Len(s) : u[i + 1] = s[i]
  OBVIOUS
<1>2. Elements(u) = {m} \cup Elements(s)
  <2> HIDE DEF u
  <2>1. ASSUME NEW x, x \in Elements(u) PROVE x \in {m} \cup Elements(s)
    <3>1. PICK i \in 1..Len(u) : x = u[i]
      BY <2>1 DEF Elements
    <3>2. CASE i = 1
      BY <1>1, <3>1, <3>2
    <3>3. CASE i # 1
      <4>1. i - 1 \in 1..Len(s) /\ u[(i - 1) + 1] = u[i]
        BY <1>1, <3>1, <3>3
      <4>2. QED
        BY <1>1, <3>1, <4>1 DEF Elements
    <3>4. QED
      BY <3>2, <3>3
  <2>2. m \in Elements(u)
    BY <1>1 DEF Elements
  <2>3. ASSUME NEW i \in 1..Len(s) PROVE s[i] \in Elements(u)
    <3>1. i + 1 \in 1..Len(u) /\ u[i + 1] = s[i]
      BY <1>1
    <3>2. QED
      BY <3>1 DEF Elements
  <2>4. QED
    BY <2>1, <2>2, <2>3 DEF Elements
<1> HIDE DEF u
<1>3. /\ u \o t \in Seq(X) /\ Len(u \o t) = Len(u) + Len(t)
      /\ \A i \in 1..Len(u) : (u \o t)[i] = u[i]
      /\ \A i \in 1..Len(t) : (u \o t)[Len(u) + i] = t[i]
  <2>1. u \in Seq(X) /\ t \in Seq(X) /\ Len(u) \in Nat /\ Len(t) \in Nat
    BY <1>1
  <2>2. u \o t \in Seq(X) /\ Len(u \o t) = Len(u) + Len(t)
    BY <2>1
  <2>3. \A i \in 1..Len(u) : (u \o t)[i] = u[i]
    BY <2>1
  <2>4. ASSUME NEW i \in 1..Len(t)
        PROVE  (u \o t)[Len(u) + i] = t[i]
    <3>1. Len(u) + i \in 1..(Len(u) + Len(t)) /\ ~(Len(u) + i <= Len(u)) /\ (Len(u) + i) - Len(u) = i
      BY <2>1
    <3>2. QED
      BY <2>1, <3>1
  <2>5. QED
    BY <2>2, <2>3, <2>4
<1>4. Elements(u \o t) = Elements(u) \cup Elements(t)
  <2> DEFINE w == u \o t
  <2>0. /\ Len(u) \in Nat /\ Len(t) \in Nat
        /\ w \in Seq(X) /\ Len(w) = Len(u) + Len(t)
        /\ \A i \in 1..Len(u) : w[i] = u[i]
        /\ \A i \in 1..Len(t) : w[Len(u) + i] = t[i]
    BY <1>1, <1>3
  <2> HIDE DEF w
  <2>1. ASSUME NEW x, x \in Elements(w) PROVE x \in Elements(u) \cup Elements(t)
    <3>1. PICK i \in 1..Len(w) : x = w[i]
      BY <2>1 DEF Elements
    <3>2. CASE i <= Len(u)
      BY <2>0, <3>1, <3>2 DEF Elements
    <3>3. CASE i > Len(u)
      <4>1. i - Len(u) \in 1..Len(t) /\ w[Len(u) + (i - Len(u))] = w[i]
        BY <2>0, <3>1, <3>3
      <4>2. QED
        BY <2>0, <3>1, <4>1 DEF Elements
    <3>4. QED
      BY <2>0, <3>1, <3>2, <3>3
  <2>2. ASSUME NEW i \in 1..Len(u) PROVE u[i] \in Elements(w)
    <3>1. i \in 1..Len(w) /\ w[i] = u[i]
      BY <2>0
    <3>2. QED
      BY <3>1 DEF Elements
  <2>3. ASSUME NEW i \in 1..Len(t) PROVE t[i] \in Elements(w)
    <3>1. Len(u) + i \in 1..Len(w) /\ w[Len(u) + i] = t[i]
      BY <2>0
    <3>2. QED
      BY <3>1 DEF Elements
  <2>4. Elements(w) = Elements(u) \cup Elements(t)
    <3>1. Elements(w) \subseteq Elements(u) \cup Elements(t)
      BY <2>1
    <3>2. Elements(u) \subseteq Elements(w) /\ Elements(t) \subseteq Elements(w)
      BY <2>2, <2>3 DEF Elements
    <3>3. QED
      BY <3>1, <3>2
  <2>5. QED
    BY <2>4 DEF w
<1>5. u \o t = <<m>> \o s \o t
  BY DEF u
<1>6. QED
  BY <1>2, <1>3, <1>4, <1>5

(* The order visits every member of the set and nothing else. *)
LEMMA VisitOrderElements ==
  ASSUME NEW S \in SUBSET Artifacts
  PROVE  VisitOrder(S) \in Seq(S) /\ Elements(VisitOrder(S)) = S
<1>1. PICK f : IsOrder(f, S) /\ VisitOrder(S) = f[S]
  BY OrderExists, VisitOrderUnfolded
<1> DEFINE F == {T \in SUBSET S : ~(f[T] \in Seq(T) /\ Elements(f[T]) = T)}
<1>2. SUFFICES ASSUME F # {} PROVE FALSE
  BY <1>1, <1>2
<1>3. PICK T \in F : \A U \in F : U \subseteq T => U = T
  <2>1. F \in SUBSET (SUBSET Artifacts)
    OBVIOUS
  <2> HIDE DEF F
  <2>2. QED
    BY <1>2, <2>1, SmallestSet
<1>4. T \in SUBSET S /\ T \in SUBSET Artifacts /\ ~(f[T] \in Seq(T) /\ Elements(f[T]) = T)
  BY <1>3
<1>5. f[T] = VisitStep(f, T)
  BY <1>1, <1>4, OrderStep
<1>6. CASE T = {}
  <2>1. f[T] = << >>
    BY <1>5, <1>6 DEF VisitStep
  <2>2. Elements(f[T]) = {}
    BY <2>1 DEF Elements
  <2>3. QED
    BY <1>4, <1>6, <2>1, <2>2
<1>7. CASE T # {}
  <2>1. /\ First(T) \in T /\ First(T) \notin Near(T) /\ First(T) \notin Far(T)
        /\ T = {First(T)} \cup Near(T) \cup Far(T)
    BY <1>4, <1>7, SplitSmaller
  <2>2. /\ Near(T) \in SUBSET S /\ Near(T) \subseteq T /\ Near(T) # T
        /\ Far(T) \in SUBSET S /\ Far(T) \subseteq T /\ Far(T) # T
    BY <1>4, <2>1
  <2>3. /\ f[Near(T)] \in Seq(Near(T)) /\ Elements(f[Near(T)]) = Near(T)
        /\ f[Far(T)] \in Seq(Far(T)) /\ Elements(f[Far(T)]) = Far(T)
    BY <1>3, <2>2
  <2>4. f[Near(T)] \in Seq(T) /\ f[Far(T)] \in Seq(T)
    BY <2>2, <2>3
  <2>5. f[T] = <<First(T)>> \o f[Near(T)] \o f[Far(T)]
    BY <1>5, <1>7 DEF VisitStep
  <2>6. /\ f[T] \in Seq(T)
        /\ Elements(f[T]) = {First(T)} \cup Elements(f[Near(T)]) \cup Elements(f[Far(T)])
    BY <2>1, <2>4, <2>5, ElementsJoined
  <2>7. QED
    BY <1>4, <2>1, <2>3, <2>6
<1>8. QED
  BY <1>6, <1>7

(* What an invalidate call on a visits, if nothing stops it: a itself and  *)
(* all that depends on it, those excepted that propagation passes over.    *)
Visited(a) == {x \in {a} \cup Dependents(graph, a) : Invalidatable(x)}

LEMMA VisitsElements ==
  ASSUME RecordsOK, NEW a \in Artifacts
  PROVE  Visits(a) \in Seq(Artifacts) /\ Elements(Visits(a)) = Visited(a)
<1> DEFINE S == {x \in Dependents(graph, a) : Invalidatable(x)}
           rest == VisitOrder(S)
<1>1. S \in SUBSET Artifacts
  BY DEF Dependents, RecordsOK, Graphs
<1>2. rest \in Seq(S) /\ Elements(rest) = S
  BY <1>1, VisitOrderElements
<1>3. rest \in Seq(Artifacts)
  BY <1>1, <1>2
<1>4. Visits(a) = (IF Invalidatable(a) THEN <<a>> ELSE << >>) \o rest
  BY DEF Visits
<1>5. Visited(a) = (IF Invalidatable(a) THEN {a} ELSE {}) \cup S
  BY DEF Visited
<1> HIDE DEF rest, S
<1>6. CASE Invalidatable(a)
  <2> DEFINE none == << >>
  <2>1. none \in Seq(Artifacts) /\ Elements(none) = {} /\ <<a>> \o none = <<a>>
    BY DEF Elements
  <2>2. Visits(a) = <<a>> \o rest
    BY <1>4, <1>6
  <2> HIDE DEF none
  <2>3. /\ <<a>> \o none \o rest \in Seq(Artifacts)
        /\ Elements(<<a>> \o none \o rest) = {a} \cup Elements(none) \cup Elements(rest)
    BY <1>3, <2>1, ElementsJoined
  <2>4. QED
    BY <1>2, <1>5, <1>6, <2>1, <2>2, <2>3
<1>7. CASE ~Invalidatable(a)
  <2>1. Visits(a) = rest
    <3>1. Visits(a) = << >> \o rest
      BY <1>4, <1>7
    <3>2. << >> \o rest = rest
      BY <1>3
    <3>3. QED
      BY <3>1, <3>2
  <2>2. QED
    BY <1>2, <1>3, <1>5, <1>7, <2>1
<1>8. QED
  BY <1>6, <1>7

(* Only what was visited is invalidated, for the cause the call gave. *)
LEMMA InvalidateReaches ==
  ASSUME RecordsOK, NEW a \in Artifacts, NEW c \in Causes, NEW e \in Envelopes,
         InvalidateCall(a, c, e), NEW x \in NewlyInvalid
  PROVE  x \in Visited(a) /\ cause'[x] = c
<1>1. Visits(a) \in Seq(Artifacts) /\ Elements(Visits(a)) = Visited(a)
  BY VisitsElements
<1>2. \E hit : \E stuck :
        hit \in SUBSET {y \in Artifacts : y \in Visited(a)} /\ Invalidates(hit, stuck, c)
  <2>1. CASE Invalidate(a, c, e)
    <3> DEFINE hit == {y \in Artifacts : \E i \in 1..Len(Visits(a)) : Visits(a)[i] = y}
    <3>1. Invalidates(hit, {}, c)
      BY <2>1 DEF Invalidate
    <3>2. hit \in SUBSET {y \in Artifacts : y \in Visited(a)}
      BY <1>1 DEF Elements
    <3> HIDE DEF hit
    <3>3. QED
      BY <3>1, <3>2
  <2>2. ASSUME NEW i \in 1..Len(Visits(a)), InvalidateStoppedAt(a, i, c, e)
        PROVE  \E hit : \E stuck :
                 hit \in SUBSET {y \in Artifacts : y \in Visited(a)} /\ Invalidates(hit, stuck, c)
    <3> DEFINE hit == {y \in Artifacts : \E j \in 1..(i - 1) : Visits(a)[j] = y}
    <3>1. Invalidates(hit, {Visits(a)[i]}, c)
      BY <2>2 DEF InvalidateStoppedAt
    <3>2. 1..(i - 1) \subseteq 1..Len(Visits(a))
      BY <1>1
    <3>3. hit \in SUBSET {y \in Artifacts : y \in Visited(a)}
      BY <1>1, <3>2 DEF Elements
    <3> HIDE DEF hit
    <3>4. QED
      BY <3>1, <3>3
  <2>3. QED
    BY <2>1, <2>2 DEF InvalidateCall
<1>3. PICK hit, stuck :
        hit \in SUBSET {y \in Artifacts : y \in Visited(a)} /\ Invalidates(hit, stuck, c)
  BY <1>2
<1>4. x \in Artifacts /\ artifacts'[x] # artifacts[x]
  BY DEF NewlyInvalid
<1>5. x \in hit
  BY <1>3, <1>4 DEF Invalidates
<1>6. QED
  BY <1>3, <1>4, <1>5 DEF Invalidates

(* A call that returns has dealt with all it had to visit. *)
LEMMA InvalidateCompletes ==
  ASSUME RecordsOK, NEW a \in Artifacts, NEW c \in Causes, NEW e \in Envelopes,
         Invalidate(a, c, e), NEW x \in {a} \cup Dependents(graph, a)
  PROVE  artifacts'[x].lifecycle \notin Live
<1>1. Elements(Visits(a)) = Visited(a)
  BY VisitsElements
<1>2. x \in Artifacts
  BY DEF Dependents, RecordsOK, Graphs
<1> DEFINE hit == {y \in Artifacts : \E i \in 1..Len(Visits(a)) : Visits(a)[i] = y}
<1>3. Invalidates(hit, {}, c) /\ \A i \in 1..Len(Visits(a)) : ~Blocks(Visits(a)[i])
  BY DEF Invalidate
<1>4. hit = {y \in Artifacts : y \in Visited(a)}
  BY <1>1 DEF Elements
<1>5. \A y \in hit : ~Blocks(y)
  BY <1>3
<1> HIDE DEF hit
<1>6. CASE Invalidatable(x)
  <2>1. x \in hit /\ ~Blocks(x)
    BY <1>2, <1>4, <1>5, <1>6 DEF Visited
  <2>2. Registered(x) /\ artifacts[x] \in Descriptors
    BY <1>2, <2>1, TransitionRegistered, RegisteredDescriptor DEF Blocks
  <2>3. artifacts'[x] = [artifacts[x] EXCEPT !.lifecycle = "INVALIDATED"]
    BY <1>2, <1>3, <2>1 DEF Invalidates
  <2>4. artifacts'[x].lifecycle = "INVALIDATED"
    BY <2>2, <2>3 DEF Descriptors
  <2>5. QED
    BY <2>4 DEF Live
<1>7. CASE ~Invalidatable(x)
  <2>1. x \notin hit
    BY <1>4, <1>7 DEF Visited
  <2>2. artifacts'[x] = artifacts[x]
    BY <1>2, <1>3, <2>1 DEF Invalidates
  <2>3. QED
    BY <1>7, <2>2 DEF Invalidatable, Live
<1>8. QED
  BY <1>6, <1>7

(* Invalidation reaches the artifact it is called for and what depends on  *)
(* it, through whatever chain, and nothing else.                           *)
THEOREM InvalidationIsRelevant == Spec => InvalidatesOnlyDependents
<1>1. RecordsOK /\ [Next]_vars =>
        [NewlyInvalid # {} => \A a \in Artifacts, c \in Causes, e \in Envelopes :
           InvalidateCall(a, c, e) =>
             \A x \in NewlyInvalid : x \in {a} \cup Dependents(graph, a) /\ cause'[x] = c]_vars
  BY InvalidateReaches DEF Visited
<1>2. QED
  BY <1>1, CatalogRecordsOK, PTL DEF Spec, InvalidatesOnlyDependents

(* An invalidate call that returns leaves nothing live that depends on the *)
(* artifact it was called for.                                             *)
THEOREM InvalidationIsComplete == Spec => InvalidationComplete
<1>1. RecordsOK /\ [Next]_vars =>
        [NewlyInvalid # {} => \A a \in Artifacts, c \in Causes, e \in Envelopes :
           Invalidate(a, c, e) =>
             \A x \in {a} \cup Dependents(graph, a) : artifacts'[x].lifecycle \notin Live]_vars
  BY InvalidateCompletes
<1>2. QED
  BY <1>1, CatalogRecordsOK, PTL DEF Spec, InvalidationComplete

-----------------------------------------------------------------------------
(* Sums over finite sets. *)

LEMMA SmallestSubset ==
  ASSUME NEW S, IsFiniteSet(S), NEW F \in SUBSET (SUBSET S), F # {}
  PROVE  \E T \in F : \A U \in F : U \subseteq T => U = T
<1>1. F \subseteq FiniteSubsetsOf(S)
  BY FS_FiniteSubsetsOfFinite
<1>2. PICK T \in F : \A U \in F : <<U, T>> \notin StrictSubsetOrdering(S)
  BY <1>1, FS_StrictSubsetOrderingWellFounded, WFMin
<1>3. QED
  BY <1>2 DEF StrictSubsetOrdering

(* One step of the recursion Total is defined by. *)
Picked(T) == CHOOSE x \in T : TRUE
Unpicked(T) == T \ {Picked(T)}

SumStep(f, g, T) == IF T = {} THEN 0 ELSE f[Picked(T)] + g[Unpicked(T)]

IsSum(g, f, S) == g = [T \in SUBSET S |-> SumStep(f, g, T)]

LEMMA TotalUnfolded ==
  ASSUME NEW f, NEW S
  PROVE  Total(f, S) = (CHOOSE g : IsSum(g, f, S))[S]
BY Zenon DEF Total, MapThenSumSet, MapThenFoldSet, IsSum, SumStep, Picked, Unpicked

LEMMA UnpickedSmaller ==
  ASSUME NEW T, T # {}
  PROVE  Picked(T) \in T /\ Unpicked(T) \subseteq T /\ Unpicked(T) # T
<1>1. Picked(T) \in T
  BY Zenon DEF Picked
<1>2. QED
  BY <1>1 DEF Unpicked

LEMMA SumUnfolded ==
  ASSUME NEW S, NEW f, NEW g, IsSum(g, f, S), NEW T \in SUBSET S
  PROVE  g[T] = SumStep(f, g, T)
BY DEF IsSum

(* The recursion has one solution at most. *)
LEMMA SumsAgree ==
  ASSUME NEW S, IsFiniteSet(S), NEW R, NEW f, NEW g, IsSum(g, f, S), NEW h, IsSum(h, f, R),
         NEW V \in SUBSET (S \cap R)
  PROVE  g[V] = h[V]
<1> DEFINE F == {T \in SUBSET (S \cap R) : g[T] # h[T]}
<1>1. SUFFICES ASSUME F # {} PROVE FALSE
  BY <1>1
<1>2. PICK T \in F : \A U \in F : U \subseteq T => U = T
  <2>1. F \in SUBSET (SUBSET S)
    OBVIOUS
  <2> HIDE DEF F
  <2>2. QED
    BY <1>1, <2>1, SmallestSubset
<1>3. T \in SUBSET S /\ T \in SUBSET R /\ g[T] # h[T]
  BY <1>2
<1>4. g[T] = SumStep(f, g, T) /\ h[T] = SumStep(f, h, T)
  BY <1>3, SumUnfolded
<1>5. T # {}
  BY <1>3, <1>4 DEF SumStep
<1>6. Unpicked(T) \subseteq T /\ Unpicked(T) # T
  BY <1>5, UnpickedSmaller
<1>7. g[Unpicked(T)] = h[Unpicked(T)]
  BY <1>2, <1>3, <1>6
<1>8. QED
  BY <1>3, <1>4, <1>5, <1>7 DEF SumStep

(* It has one. *)
LEMMA SumExists ==
  ASSUME NEW S, IsFiniteSet(S), NEW f
  PROVE  \E g : IsSum(g, f, S)
<1> DEFINE F == {T \in SUBSET S : ~ \E g : IsSum(g, f, T)}
<1>1. SUFFICES ASSUME F # {} PROVE FALSE
  BY <1>1
<1>2. PICK T \in F : \A U \in F : U \subseteq T => U = T
  <2>1. F \in SUBSET (SUBSET S)
    OBVIOUS
  <2> HIDE DEF F
  <2>2. QED
    BY <1>1, <2>1, SmallestSubset
<1>3. T \in SUBSET S /\ ~ \E g : IsSum(g, f, T)
  BY <1>2
<1> DEFINE o(U) == CHOOSE g : IsSum(g, f, U)
           g == [U \in SUBSET T |->
                   IF U = {} THEN 0 ELSE f[Picked(U)] + o(Unpicked(U))[Unpicked(U)]]
<1>4. ASSUME NEW U \in SUBSET T, U # T
      PROVE  IsSum(o(U), f, U) /\ IsFiniteSet(U)
  <2>1. U \notin F /\ U \in SUBSET S
    BY <1>2, <1>3, <1>4
  <2>2. \E h : IsSum(h, f, U)
    BY <2>1
  <2>3. QED
    BY <2>1, <2>2, FS_Subset
<1> HIDE DEF o, F
<1>5. ASSUME NEW U \in SUBSET T, U # {}
      PROVE  Unpicked(U) \in SUBSET U /\ Unpicked(U) \in SUBSET T /\ Unpicked(U) # T
  BY <1>5, UnpickedSmaller
<1>6. ASSUME NEW V \in SUBSET T, V # T
      PROVE  g[V] = o(V)[V]
  <2>1. IsSum(o(V), f, V) /\ IsFiniteSet(V) /\ V \in SUBSET V
    BY <1>4, <1>6
  <2>2. o(V)[V] = SumStep(f, o(V), V)
    BY <2>1, SumUnfolded
  <2>3. CASE V = {}
    BY <2>2, <2>3 DEF SumStep
  <2>4. CASE V # {}
    <3>1. Unpicked(V) \in SUBSET V /\ Unpicked(V) \in SUBSET T /\ Unpicked(V) # T
      BY <1>5, <2>4
    <3>2. IsSum(o(Unpicked(V)), f, Unpicked(V))
      BY <1>4, <3>1
    <3>3. o(V)[Unpicked(V)] = o(Unpicked(V))[Unpicked(V)]
      BY <2>1, <3>1, <3>2, SumsAgree
    <3>4. QED
      BY <2>2, <2>4, <3>3 DEF SumStep
  <2>5. QED
    BY <2>3, <2>4
<1>7. ASSUME NEW U \in SUBSET T
      PROVE  g[U] = SumStep(f, g, U)
  <2>1. CASE U = {}
    BY <2>1 DEF SumStep
  <2>2. CASE U # {}
    <3>1. g[Unpicked(U)] = o(Unpicked(U))[Unpicked(U)]
      BY <1>5, <1>6, <2>2
    <3>2. QED
      BY <2>2, <3>1 DEF SumStep
  <2>3. QED
    BY <2>1, <2>2
<1>8. IsSum(g, f, T)
  BY <1>7 DEF IsSum
<1>9. QED
  BY <1>3, <1>8

-----------------------------------------------------------------------------
LEMMA TotalIsSum ==
  ASSUME NEW S, IsFiniteSet(S), NEW f
  PROVE  \E g : IsSum(g, f, S) /\ \A T \in SUBSET S : Total(f, T) = g[T]
<1> DEFINE o(U) == CHOOSE g : IsSum(g, f, U)
<1>1. ASSUME NEW U \in SUBSET S
      PROVE  IsSum(o(U), f, U) /\ Total(f, U) = o(U)[U]
  <2>1. IsFiniteSet(U)
    BY FS_Subset
  <2>2. QED
    BY <2>1, SumExists, TotalUnfolded
<1> HIDE DEF o
<1>2. ASSUME NEW U \in SUBSET S
      PROVE  o(U)[U] = o(S)[U]
  BY <1>1, SumsAgree, FS_Subset
<1>3. QED
  BY <1>1, <1>2

LEMMA TotalNone ==
  ASSUME NEW f
  PROVE  Total(f, {}) = 0
<1>1. PICK g : IsSum(g, f, {}) /\ Total(f, {}) = g[{}]
  BY TotalIsSum, FS_EmptySet
<1>2. QED
  BY <1>1, SumUnfolded DEF SumStep

LEMMA TotalIsNat ==
  ASSUME NEW S, IsFiniteSet(S), NEW f, \A x \in S : f[x] \in Nat
  PROVE  Total(f, S) \in Nat
<1>1. PICK g : IsSum(g, f, S) /\ \A T \in SUBSET S : Total(f, T) = g[T]
  BY TotalIsSum
<1> DEFINE F == {T \in SUBSET S : g[T] \notin Nat}
<1>2. SUFFICES ASSUME F # {} PROVE FALSE
  BY <1>1, <1>2
<1>3. PICK T \in F : \A U \in F : U \subseteq T => U = T
  <2>1. F \in SUBSET (SUBSET S)
    OBVIOUS
  <2> HIDE DEF F
  <2>2. QED
    BY <1>2, <2>1, SmallestSubset
<1>4. T \in SUBSET S /\ g[T] \notin Nat /\ g[T] = SumStep(f, g, T)
  BY <1>1, <1>3, SumUnfolded
<1>5. T # {}
  BY <1>4 DEF SumStep
<1>6. Picked(T) \in S /\ g[Unpicked(T)] \in Nat
  BY <1>3, <1>4, <1>5, UnpickedSmaller
<1>7. f[Picked(T)] \in Nat
  BY <1>6
<1>8. QED
  BY <1>4, <1>5, <1>6, <1>7 DEF SumStep

(* Whichever element is taken out first, the sum is the same. *)
LEMMA TotalWithout ==
  ASSUME NEW S, IsFiniteSet(S), NEW f, \A x \in S : f[x] \in Nat, NEW x \in S
  PROVE  Total(f, S) = f[x] + Total(f, S \ {x})
<1>1. PICK g : IsSum(g, f, S) /\ \A T \in SUBSET S : Total(f, T) = g[T]
  BY TotalIsSum
<1>2. ASSUME NEW T \in SUBSET S
      PROVE  g[T] \in Nat
  BY <1>1, TotalIsNat, FS_Subset
<1> DEFINE F == {T \in SUBSET S : \E y \in T : g[T] # f[y] + g[T \ {y}]}
<1>3. SUFFICES ASSUME F # {} PROVE FALSE
  <2>1. CASE F = {}
    <3>1. S \notin F
      BY <2>1
    <3>2. g[S] = f[x] + g[S \ {x}]
      BY <3>1
    <3>3. Total(f, S) = g[S] /\ Total(f, S \ {x}) = g[S \ {x}]
      BY <1>1
    <3>4. QED
      BY <3>2, <3>3
  <2>2. QED
    BY <1>3, <2>1
<1>4. PICK T \in F : \A U \in F : U \subseteq T => U = T
  <2>1. F \in SUBSET (SUBSET S)
    OBVIOUS
  <2> HIDE DEF F
  <2>2. QED
    BY <1>3, <2>1, SmallestSubset
<1>5. PICK y \in T : g[T] # f[y] + g[T \ {y}]
  BY <1>4
<1>6. T \in SUBSET S /\ T # {}
  BY <1>4, <1>5
<1>7. PICK z : z = Picked(T)
  OBVIOUS
<1>8. z \in T /\ Unpicked(T) = T \ {z}
  BY <1>6, <1>7, UnpickedSmaller DEF Unpicked
<1>9. g[T] = f[z] + g[T \ {z}]
  <2>1. g[T] = SumStep(f, g, T)
    BY <1>1, <1>6, SumUnfolded
  <2>2. SumStep(f, g, T) = f[Picked(T)] + g[Unpicked(T)]
    BY <1>6 DEF SumStep
  <2>3. QED
    BY <1>7, <1>8, <2>1, <2>2
<1>10. y # z
  BY <1>5, <1>9
<1>11. \A U \in SUBSET T : U # T => \A v \in U : g[U] = f[v] + g[U \ {v}]
  BY <1>4, <1>6
<1> HIDE DEF F
<1>12. g[T \ {z}] = f[y] + g[(T \ {z}) \ {y}]
  BY <1>8, <1>10, <1>11
<1>13. g[T \ {y}] = f[z] + g[(T \ {y}) \ {z}]
  BY <1>8, <1>10, <1>11
<1>14. (T \ {y}) \ {z} = (T \ {z}) \ {y}
  OBVIOUS
<1>15. f[y] \in Nat /\ f[z] \in Nat /\ g[(T \ {z}) \ {y}] \in Nat
  BY <1>2, <1>6, <1>8
<1>16. f[z] + (f[y] + g[(T \ {z}) \ {y}]) = f[y] + (f[z] + g[(T \ {z}) \ {y}])
  BY <1>15
<1>17. QED
  BY <1>5, <1>9, <1>12, <1>13, <1>14, <1>16

LEMMA TotalWith ==
  ASSUME NEW S, IsFiniteSet(S), NEW f, NEW x, x \notin S, \A y \in S \cup {x} : f[y] \in Nat
  PROVE  Total(f, S \cup {x}) = f[x] + Total(f, S)
<1>1. IsFiniteSet(S \cup {x}) /\ (S \cup {x}) \ {x} = S
  BY FS_AddElement
<1>2. QED
  BY <1>1, TotalWithout

(* The sum is a matter of what f is on the set. *)
LEMMA TotalSame ==
  ASSUME NEW S, IsFiniteSet(S), NEW f, NEW g, \A x \in S : f[x] = g[x]
  PROVE  Total(f, S) = Total(g, S)
<1>1. PICK p : IsSum(p, f, S) /\ \A T \in SUBSET S : Total(f, T) = p[T]
  BY TotalIsSum
<1>2. PICK q : IsSum(q, g, S) /\ \A T \in SUBSET S : Total(g, T) = q[T]
  BY TotalIsSum
<1> DEFINE F == {T \in SUBSET S : p[T] # q[T]}
<1>3. SUFFICES ASSUME F # {} PROVE FALSE
  BY <1>1, <1>2, <1>3
<1>4. PICK T \in F : \A U \in F : U \subseteq T => U = T
  <2>1. F \in SUBSET (SUBSET S)
    OBVIOUS
  <2> HIDE DEF F
  <2>2. QED
    BY <1>3, <2>1, SmallestSubset
<1>5. /\ T \in SUBSET S /\ p[T] # q[T]
      /\ p[T] = SumStep(f, p, T) /\ q[T] = SumStep(g, q, T)
  BY <1>1, <1>2, <1>4, SumUnfolded
<1>6. T # {}
  BY <1>5 DEF SumStep
<1>7. Picked(T) \in S /\ p[Unpicked(T)] = q[Unpicked(T)]
  BY <1>4, <1>5, <1>6, UnpickedSmaller
<1>8. QED
  BY <1>5, <1>6, <1>7 DEF SumStep

(* A part sums up to no more than the whole. *)
LEMMA TotalOfPart ==
  ASSUME NEW S, IsFiniteSet(S), NEW f, \A x \in S : f[x] \in Nat, NEW R \in SUBSET S
  PROVE  Total(f, R) <= Total(f, S)
<1> DEFINE F == {T \in SUBSET S : R \subseteq T /\ ~(Total(f, R) <= Total(f, T))}
<1>1. SUFFICES ASSUME F # {} PROVE FALSE
  BY <1>1
<1>2. PICK T \in F : \A U \in F : U \subseteq T => U = T
  <2>1. F \in SUBSET (SUBSET S)
    OBVIOUS
  <2> HIDE DEF F
  <2>2. QED
    BY <1>1, <2>1, SmallestSubset
<1>3. T \in SUBSET S /\ R \subseteq T /\ ~(Total(f, R) <= Total(f, T))
  BY <1>2
<1>4. \A U \in SUBSET T : Total(f, U) \in Nat
  BY <1>3, TotalIsNat, FS_Subset
<1>5. R # T
  BY <1>3, <1>4
<1>6. PICK x \in T : x \notin R
  BY <1>3, <1>5
<1>7. Total(f, T) = f[x] + Total(f, T \ {x})
  BY <1>3, TotalWithout, FS_Subset
<1>8. Total(f, R) <= Total(f, T \ {x})
  BY <1>2, <1>3, <1>6
<1>9. f[x] \in Nat /\ Total(f, T \ {x}) \in Nat /\ Total(f, R) \in Nat
  BY <1>3, <1>4
<1>10. QED
  BY <1>3, <1>7, <1>8, <1>9

-----------------------------------------------------------------------------
(* Staged publication: the reservations. *)

(* While every delivery is as planned, each open transaction has reserved  *)
(* the bytes of the content it planned, so that its delivery, which        *)
(* overwrites them, does not change the sum.                               *)
ReservedInv ==
  /\ reservedBytes \in [Handles -> Nat]
  /\ asPlanned =>
       \A h \in Handles : Open(h) => reservedBytes[h] = Bytes[plan[h].request.content]
  /\ ReservationsExact

LEMMA OpenHandlesFinite ==
  /\ IsFiniteSet(OpenHandles)
  /\ Cardinality(OpenHandles) \in Nat
  /\ OpenHandles \subseteq Handles
BY HandlesAssumption, FS_Subset, FS_CardinalityType DEF OpenHandles

LEMMA PlannedBytes ==
  ASSUME ClaimInv, NEW h \in Handles, Open(h)
  PROVE  /\ plan[h].request \in StagedRequests
         /\ plan[h].request.content \in Contents
         /\ Bytes[plan[h].request.content] \in Nat
BY StagedRequestType, ContentsAssumption DEF ClaimInv

(* An open transaction holds a reservation and the bytes it reserved. *)
LEMMA CanRelease ==
  ASSUME ReservedInv, asPlanned, NEW h \in Handles, Open(h)
  PROVE  /\ reservations \in Nat /\ tempBytes \in Nat
         /\ reservations > 0 /\ tempBytes >= reservedBytes[h]
         /\ Cardinality(OpenHandles \ {h}) = reservations - 1
         /\ Total(reservedBytes, OpenHandles \ {h}) = tempBytes - reservedBytes[h]
<1>1. h \in OpenHandles
  BY DEF OpenHandles
<1>2. reservations = Cardinality(OpenHandles) /\ tempBytes = Total(reservedBytes, OpenHandles)
  BY DEF ReservedInv, ReservationsExact
<1>3. \A k \in OpenHandles : reservedBytes[k] \in Nat
  BY OpenHandlesFinite DEF ReservedInv
<1>4. /\ tempBytes = reservedBytes[h] + Total(reservedBytes, OpenHandles \ {h})
      /\ Total(reservedBytes, OpenHandles \ {h}) \in Nat
  <2>1. IsFiniteSet(OpenHandles \ {h}) /\ \A k \in OpenHandles \ {h} : reservedBytes[k] \in Nat
    BY <1>3, OpenHandlesFinite, FS_Subset
  <2>2. QED
    BY <1>1, <1>2, <1>3, <2>1, OpenHandlesFinite, TotalWithout, TotalIsNat
<1>5. Cardinality(OpenHandles \ {h}) = Cardinality(OpenHandles) - 1 /\ reservations # 0
  BY <1>1, <1>2, OpenHandlesFinite, FS_RemoveElement, FS_EmptySet
<1>6. QED
  BY <1>1, <1>2, <1>3, <1>4, <1>5, OpenHandlesFinite

(* Nothing changes but how far a transaction has come. *)
LEMMA ReservedKept ==
  ASSUME ReservedInv, asPlanned' => asPlanned,
         UNCHANGED <<reservations, tempBytes, reservedBytes, plan>>,
         \A h \in Handles : Open(h)' <=> Open(h)
  PROVE  ReservedInv'
<1>1. OpenHandles' = OpenHandles
  BY DEF OpenHandles
<1>2. QED
  BY <1>1 DEF ReservedInv, ReservationsExact

LEMMA ReserveReservedInv ==
  ASSUME RecordsOK, ClaimInv, ReservedInv, NEW h \in Handles, NEW r \in StagedRequests,
         NEW e \in Envelopes, Reserve(h, r, e)
  PROVE  ReservedInv'
<1>1. r.content \in Contents /\ Bytes[r.content] \in Nat
  BY StagedRequestType, ContentsAssumption
<1>2. /\ reservations' = reservations + 1 /\ tempBytes' = tempBytes + Bytes[r.content]
      /\ reservedBytes' = [reservedBytes EXCEPT ![h] = Bytes[r.content]]
      /\ plan' = [plan EXCEPT ![h] = [request |-> r, epoch |-> e.epoch, boot |-> e.boot]]
      /\ Reaches(h, "reserved") /\ ~Open(h) /\ UNCHANGED asPlanned
  BY DEF Reserve, MayReserve
<1>3. /\ reservedBytes' \in [Handles -> Nat] /\ reservedBytes'[h] = Bytes[r.content]
      /\ \A k \in Handles \ {h} : reservedBytes'[k] = reservedBytes[k]
      /\ plan'[h].request = r /\ \A k \in Handles \ {h} : plan'[k] = plan[k]
  BY <1>1, <1>2 DEF ReservedInv, ClaimInv
<1>4. \A k \in Handles \ {h} : Open(k)' <=> Open(k)
  BY <1>2, StillOpen
<1>5. Open(h)'
  BY <1>2 DEF ClaimInv, Reaches, Open
<1>6. OpenHandles' = OpenHandles \cup {h} /\ h \notin OpenHandles
  BY <1>2, <1>4, <1>5 DEF OpenHandles
<1>7. ASSUME asPlanned'
      PROVE  \A k \in Handles : Open(k)' => reservedBytes'[k] = Bytes[plan'[k].request.content]
  BY <1>2, <1>3, <1>4, <1>7 DEF ReservedInv
<1>8. ASSUME asPlanned'
      PROVE  reservations' = Cardinality(OpenHandles')
  <2>1. reservations = Cardinality(OpenHandles)
    BY <1>2, <1>8 DEF ReservedInv, ReservationsExact
  <2>2. QED
    BY <1>2, <1>6, <2>1, OpenHandlesFinite, FS_AddElement
<1>9. ASSUME asPlanned'
      PROVE  tempBytes' = Total(reservedBytes', OpenHandles')
  <2>1. tempBytes = Total(reservedBytes, OpenHandles)
    BY <1>2, <1>9 DEF ReservedInv, ReservationsExact
  <2>2. \A k \in OpenHandles : reservedBytes'[k] = reservedBytes[k]
    BY <1>3, <1>6, OpenHandlesFinite
  <2>3. Total(reservedBytes', OpenHandles) = Total(reservedBytes, OpenHandles)
    BY <2>2, OpenHandlesFinite, TotalSame
  <2>4. \A k \in OpenHandles \cup {h} : reservedBytes'[k] \in Nat
    BY <1>3, OpenHandlesFinite
  <2>5. Total(reservedBytes', OpenHandles \cup {h}) = reservedBytes'[h] + Total(reservedBytes', OpenHandles)
    BY <1>6, <2>4, OpenHandlesFinite, TotalWith
  <2>6. Total(reservedBytes', OpenHandles) \in Nat
    BY <2>4, OpenHandlesFinite, TotalIsNat
  <2>7. QED
    BY <1>1, <1>2, <1>3, <1>6, <2>1, <2>3, <2>5, <2>6
<1>10. QED
  BY <1>3, <1>7, <1>8, <1>9 DEF ReservedInv, ReservationsExact

LEMMA ProduceReservedInv ==
  ASSUME RecordsOK, ClaimInv, ReservedInv, NEW h \in Handles, NEW c \in Contents, Produce(h, c)
  PROVE  ReservedInv'
<1>1. /\ Open(h) /\ UNCHANGED <<reservations, tempBytes, plan>>
      /\ reservedBytes' = [reservedBytes EXCEPT ![h] = Bytes[c]]
      /\ asPlanned' = (asPlanned /\ Bytes[c] = Bytes[plan[h].request.content])
      /\ Bytes[c] \in Nat
  BY ContentsAssumption DEF Produce, At, Open
<1>2. \A k \in Handles : Open(k)' <=> Open(k)
  BY ProduceForm, WorksClaimInv
<1>3. CASE asPlanned'
  <2>1. asPlanned /\ Bytes[c] = reservedBytes[h]
    BY <1>1, <1>3 DEF ReservedInv
  <2>2. UNCHANGED reservedBytes
    BY <1>1, <2>1 DEF ReservedInv
  <2>3. QED
    BY <1>1, <1>2, <2>1, <2>2, ReservedKept
<1>4. CASE ~asPlanned'
  BY <1>1, <1>4 DEF ReservedInv, ReservationsExact
<1>5. QED
  BY <1>3, <1>4

LEMMA FinishReservedInv ==
  ASSUME RecordsOK, ClaimInv, ReservedInv, NEW h \in Handles,
         Commit(h) \/ Abort(h) \/ AbortRefused(h)
  PROVE  ReservedInv'
<1>1. Finishes(h) /\ UNCHANGED <<reservedBytes, asPlanned>>
  BY CommitForm, AbortForm DEF Commit, Abort, AbortRefused
<1>2. CASE ~asPlanned
  BY <1>1, <1>2 DEF ReservedInv, ReservationsExact
<1>3. CASE asPlanned
  <2>1. /\ Open(h)
        /\ reservations > 0 /\ tempBytes >= reservedBytes[h]
        /\ Cardinality(OpenHandles \ {h}) = reservations - 1
        /\ Total(reservedBytes, OpenHandles \ {h}) = tempBytes - reservedBytes[h]
    BY <1>1, <1>3, CanRelease DEF Finishes
  <2>2. reservedBytes[h] \in Nat /\ reservations \in Nat /\ tempBytes \in Nat
    BY <1>1, <1>3, CanRelease DEF Finishes, ReservedInv
  <2>3. ~CannotRelease(h)
    BY <2>1, <2>2 DEF CannotRelease
  <2>4. reservations' = reservations - 1 /\ tempBytes' = tempBytes - reservedBytes[h]
    BY <2>3 DEF Commit, Abort, AbortRefused, Releases
  <2>5. /\ \A k \in Handles : Open(k)' => Open(k) /\ k # h
        /\ \A k \in Handles \ {h} : Open(k) => Open(k)'
    BY <1>1, FinishesClaimInv
  <2>6. OpenHandles' = OpenHandles \ {h}
    BY <2>5 DEF OpenHandles
  <2>7. \A k \in Handles \ {h} : plan'[k] = plan[k]
    BY <1>1 DEF Finishes, Ends, ClaimInv
  <2>8. \A k \in Handles : Open(k)' => reservedBytes'[k] = Bytes[plan'[k].request.content]
    BY <1>1, <1>3, <2>5, <2>7 DEF ReservedInv
  <2>9. QED
    BY <1>1, <2>1, <2>4, <2>6, <2>8 DEF ReservedInv, ReservationsExact
<1>4. QED
  BY <1>2, <1>3

LEMMA StepReservedInv ==
  ASSUME RecordsOK, ClaimInv, ReservedInv, NEW h \in Handles, Step(h)
  PROVE  ReservedInv'
<1>1. ASSUME NEW report \in Reports, ValidatePublish(h, report)
      PROVE  ReservedInv'
  <2>1. UNCHANGED <<reserved, plan, asPlanned>> /\ \A k \in Handles : Open(k)' <=> Open(k)
    BY <1>1, ValidateForm, WorksClaimInv DEF ValidatePublish
  <2>2. QED
    BY <2>1, ReservedKept DEF reserved
<1>2. CASE VerifyDependencies(h) \/ VerifyRefused(h) \/ VerifyWithoutNode(h)
  <2>1. UNCHANGED <<reserved, plan, asPlanned>> /\ \A k \in Handles : Open(k)' <=> Open(k)
    BY <1>2, VerifyForm, WorksClaimInv DEF VerifyDependencies, VerifyRefused, VerifyWithoutNode
  <2>2. QED
    BY <2>1, ReservedKept DEF reserved
<1>3. CASE CommitRefused(h)
  <2>1. /\ Open(h) /\ CannotRelease(h) /\ UNCHANGED <<reservedBytes, asPlanned>>
    BY <1>3 DEF CommitRefused, At, Open
  <2>2. ~asPlanned
    <3>1. SUFFICES ASSUME asPlanned PROVE FALSE
      OBVIOUS
    <3>2. reservations \in Nat /\ tempBytes \in Nat /\ reservations > 0 /\ tempBytes >= reservedBytes[h]
      BY <2>1, <3>1, CanRelease
    <3>3. reservedBytes[h] \in Nat
      BY DEF ReservedInv
    <3>4. QED
      BY <2>1, <3>2, <3>3 DEF CannotRelease
  <2>3. QED
    BY <2>1, <2>2 DEF ReservedInv, ReservationsExact
<1>4. ASSUME NEW r \in StagedRequests, NEW e \in Envelopes, ReserveRefused(h, r, e)
      PROVE  ReservedInv'
  BY <1>4, ReservedKept DEF ReserveRefused, reserved, clients, Open
<1>5. QED
  BY <1>1, <1>2, <1>3, <1>4, ReserveReservedInv, ProduceReservedInv, FinishReservedInv DEF Step

(* The reservations and the temporary bytes are exactly what the open      *)
(* transactions hold, however many overlap and wherever each of them ends, *)
(* as long as every delivery has the planned size; so releasing one never  *)
(* throws then.                                                            *)
THEOREM ReservationsStayExact == StagedSpec => []ReservationsExact
<1>1. StagedInit => ReservedInv
  <2>1. StagedInit => OpenHandles = {}
    BY DEF StagedInit, OpenHandles, Open
  <2>2. StagedInit => reservations = 0 /\ tempBytes = 0 /\ reservedBytes \in [Handles -> Nat]
    BY DEF StagedInit
  <2>3. StagedInit => \A h \in Handles : ~Open(h)
    BY DEF StagedInit, Open
  <2>4. QED
    BY <2>1, <2>2, <2>3, TotalNone, FS_EmptySet DEF ReservedInv, ReservationsExact
<1>2. RecordsOK /\ ClaimInv /\ ReservedInv /\ [StagedNext]_stagedVars => ReservedInv'
  <2>1. ASSUME ReservedInv, UNCHANGED <<reserved, clients>>
        PROVE  ReservedInv'
    BY <2>1, ReservedKept DEF reserved, clients, Open
  <2>2. QED
    BY <2>1, StepReservedInv DEF StagedNext, stagedVars
<1>3. ReservedInv => ReservationsExact
  BY DEF ReservedInv
<1>4. QED
  BY <1>1, <1>2, <1>3, StagedInvariant, PTL DEF StagedSpec

-----------------------------------------------------------------------------
(* The accounts. *)

(* Callers who declare the sizes their contents have. *)
TrueSizes == \A r \in PublishRequests : r.size = Bytes[r.content]

Sizes == [a \in Unretired |-> artifacts[a].size]

AccountInv ==
  /\ \A a \in Unretired :
       artifacts[a].content \in Contents /\ artifacts[a].size = Bytes[artifacts[a].content]
  /\ \A c \in backed : Holders(c) # {}
  /\ accounts.logicalArtifacts = Cardinality(Unretired)
  /\ accounts.activeReferences = Cardinality(Unretired)
  /\ accounts.logicalBytes = Total(Sizes, Unretired)
  /\ accounts.physicalBacking = Cardinality(backed)
  /\ accounts.physicalBytes = Total(Bytes, backed)

LEMMA UnretiredFinite ==
  ASSUME RecordsOK
  PROVE  /\ Unretired \subseteq Artifacts /\ IsFiniteSet(Unretired)
         /\ \A a \in Unretired : artifacts[a] \in Descriptors /\ Sizes[a] \in Nat
<1>1. Unretired \subseteq Artifacts
  BY DEF Unretired
<1>2. \A a \in Unretired : artifacts[a] \in Descriptors
  BY RegisteredDescriptor DEF Unretired
<1>3. \A a \in Unretired : artifacts[a].size \in Nat
  BY <1>2 DEF Descriptors
<1>4. QED
  BY <1>1, <1>2, <1>3, IdsAssumption, FS_Subset DEF Sizes

(* The producers of a content are few and can be counted. *)
LEMMA HoldersCounted ==
  ASSUME NEW c
  PROVE  /\ Holders(c) \in SUBSET Artifacts /\ IsFiniteSet(Holders(c))
         /\ Cardinality(Holders(c)) \in Nat
<1>1. Holders(c) \in SUBSET Artifacts
  BY DEF Holders
<1>2. QED
  BY <1>1, IdsAssumption, FS_Subset, FS_CardinalityType

(* Every content in the store has a holder, so there are not more of them. *)
LEMMA BackedFinite ==
  ASSUME RecordsOK, \A c \in backed : Holders(c) # {}
  PROVE  /\ backed \subseteq Contents /\ IsFiniteSet(backed)
         /\ \A c \in backed : Bytes[c] \in Nat
<1>1. backed \subseteq Contents
  BY DEF RecordsOK
<1> DEFINE held == [a \in Artifacts |-> artifacts[a].content]
<1>2. \A c \in backed : \E a \in Artifacts : held[a] = c
  BY DEF Holders
<1>3. backed \subseteq {held[a] : a \in Artifacts}
  BY <1>2
<1>4. IsFiniteSet({held[a] : a \in Artifacts})
  <2>1. held \in Surjection(Artifacts, {held[a] : a \in Artifacts})
    BY DEF Surjection
  <2> HIDE DEF held
  <2>2. QED
    BY <2>1, IdsAssumption, FS_Surjection
<1>5. QED
  BY <1>1, <1>3, <1>4, FS_Subset, ContentsAssumption

(* What the artifacts say they are takes at least the room of what is      *)
(* stored: each content stored is some artifact's, and no two contents are *)
(* the same artifact's.                                                    *)
LEMMA LogicalCoversPhysical ==
  ASSUME RecordsOK, AccountInv
  PROVE  accounts.logicalBytes >= accounts.physicalBytes
<1> DEFINE Of(K) == {a \in Unretired : artifacts[a].content \in K}
           F == {K \in SUBSET backed : ~(Total(Bytes, K) <= Total(Sizes, Of(K)))}
<1>1. /\ backed \subseteq Contents /\ IsFiniteSet(backed)
      /\ \A c \in backed : Bytes[c] \in Nat
      /\ Unretired \subseteq Artifacts /\ IsFiniteSet(Unretired)
      /\ \A a \in Unretired : Sizes[a] \in Nat
  BY BackedFinite, UnretiredFinite DEF AccountInv
<1>2. \A K \in SUBSET backed : IsFiniteSet(K) /\ Total(Bytes, K) \in Nat
  BY <1>1, FS_Subset, TotalIsNat
<1>3. \A A \in SUBSET Unretired : IsFiniteSet(A) /\ Total(Sizes, A) \in Nat
  BY <1>1, FS_Subset, TotalIsNat
<1>4. F = {}
  <2>1. SUFFICES ASSUME F # {} PROVE FALSE
    BY <2>1
  <2>2. PICK K \in F : \A U \in F : U \subseteq K => U = K
    <3>1. F \in SUBSET (SUBSET backed)
      OBVIOUS
    <3> HIDE DEF F
    <3>2. QED
      BY <1>1, <2>1, <3>1, SmallestSubset
  <2>3. K \in SUBSET backed /\ ~(Total(Bytes, K) <= Total(Sizes, Of(K)))
    BY <2>2
  <2>4. Of(K) \in SUBSET Unretired
    OBVIOUS
  <2>5. K # {}
    BY <1>3, <2>3, <2>4, TotalNone
  <2>6. PICK c \in K : TRUE
    BY <2>5
  <2>7. PICK h \in Holders(c) : TRUE
    BY <2>3 DEF AccountInv
  <2>8. h \in Unretired /\ artifacts[h].content = c
    BY <2>7 DEF Holders, Unretired
  <2>9. Sizes[h] = Bytes[c]
    BY <2>8 DEF Sizes, AccountInv
  <2>10. /\ Of(K \ {c}) \in SUBSET Unretired /\ h \notin Of(K \ {c})
         /\ Of(K \ {c}) \cup {h} \in SUBSET Of(K)
    BY <2>6, <2>8
  <2>11. Total(Bytes, K \ {c}) <= Total(Sizes, Of(K \ {c}))
    <3>1. K \ {c} \in SUBSET backed /\ K \ {c} \subseteq K /\ K \ {c} # K
      BY <2>3, <2>6
    <3>2. K \ {c} \notin F
      BY <2>2, <3>1
    <3>3. QED
      BY <3>1, <3>2
  <2>12. Total(Bytes, K) = Bytes[c] + Total(Bytes, K \ {c})
    BY <1>1, <1>2, <2>3, <2>6, TotalWithout
  <2> HIDE DEF Of, F
  <2>13. Total(Sizes, Of(K \ {c}) \cup {h}) = Sizes[h] + Total(Sizes, Of(K \ {c}))
    BY <1>1, <1>3, <2>8, <2>10, TotalWith
  <2>14. Total(Sizes, Of(K \ {c}) \cup {h}) <= Total(Sizes, Of(K))
    BY <1>1, <1>3, <2>4, <2>10, TotalOfPart
  <2>15. /\ Total(Sizes, Of(K \ {c})) \in Nat /\ Total(Sizes, Of(K)) \in Nat
         /\ Total(Bytes, K \ {c}) \in Nat /\ Bytes[c] \in Nat
    <3>1. K \ {c} \in SUBSET backed /\ c \in backed
      BY <2>3, <2>6
    <3>2. QED
      BY <1>1, <1>2, <1>3, <2>4, <2>10, <3>1
  <2>16. QED
    BY <2>3, <2>9, <2>11, <2>12, <2>13, <2>14, <2>15
<1>5. Total(Bytes, backed) <= Total(Sizes, Of(backed))
  BY <1>4
<1>6. Of(backed) \in SUBSET Unretired
  OBVIOUS
<1> HIDE DEF Of, F
<1>7. Total(Sizes, Of(backed)) <= Total(Sizes, Unretired)
  BY <1>1, <1>6, TotalOfPart
<1>8. /\ Total(Bytes, backed) \in Nat /\ Total(Sizes, Of(backed)) \in Nat
      /\ Total(Sizes, Unretired) \in Nat
  BY <1>2, <1>3, <1>6
<1>9. QED
  BY <1>5, <1>7, <1>8 DEF AccountInv

(* Nothing of what is accounted for changes. *)
LEMMA AccountsKept ==
  ASSUME RecordsOK, AccountInv, UNCHANGED backed,
         \A a \in Artifacts : a \in Unretired' <=> a \in Unretired,
         \A a \in Unretired : /\ artifacts'[a].content = artifacts[a].content
                              /\ artifacts'[a].size = artifacts[a].size,
         /\ accounts'.logicalArtifacts = accounts.logicalArtifacts
         /\ accounts'.activeReferences = accounts.activeReferences
         /\ accounts'.logicalBytes = accounts.logicalBytes
         /\ accounts'.physicalBacking = accounts.physicalBacking
         /\ accounts'.physicalBytes = accounts.physicalBytes
  PROVE  AccountInv'
<1>1. Unretired' = Unretired
  BY DEF Unretired
<1>2. Sizes' = Sizes
  BY <1>1 DEF Sizes
<1>3. \A c \in backed : Holders(c)' = Holders(c)
  <2>1. \A c : Holders(c) = {a \in Unretired : artifacts[a].content = c}
    BY DEF Holders, Unretired
  <2>2. \A c : Holders(c)' = {a \in Unretired' : artifacts'[a].content = c}
    BY DEF Holders, Unretired
  <2>3. QED
    BY <1>1, <2>1, <2>2
<1>4. QED
  BY <1>1, <1>2, <1>3 DEF AccountInv

(* An artifact is published, its content stored or already there. *)
LEMMA PublishAccountInv ==
  ASSUME RecordsOK, AccountsOK, ReferencesExact, CountsFit, AccountInv, TrueSizes,
         NEW r \in PublishRequests, NEW e \in Envelopes, PublishesUnindexed(r, e), Publishes(r, e)
  PROVE  AccountInv'
<1>1. /\ r.id \in Artifacts /\ r.content \in Contents /\ r.size = Bytes[r.content]
      /\ Bytes[r.content] \in Nat
  BY PublishRequestType, ContentsAssumption DEF TrueSizes
<1>2. /\ Stores(r.id) /\ artifacts'[r.id].lifecycle # "RETIRED"
      /\ artifacts'[r.id].content = r.content /\ artifacts'[r.id].size = r.size
      /\ Registered(r.id)'
  BY PublishStores DEF Stores, Registered, Descriptors, Absent
<1>3. backed' = backed \cup {r.content} /\ accounts' = Committed(r)
  BY DEF PublishesUnindexed, Stages
<1>4. \A x \in Artifacts \ {r.id} : artifacts'[x] = artifacts[x]
  BY <1>2 DEF Stores
<1>5. r.id \notin Unretired /\ Unretired' = Unretired \cup {r.id}
  BY <1>1, <1>2, <1>4 DEF Unretired, Stores, Registered
<1>6. /\ Unretired \subseteq Artifacts /\ IsFiniteSet(Unretired)
      /\ \A a \in Unretired : Sizes[a] \in Nat
  BY UnretiredFinite
<1>7. Sizes'[r.id] = r.size /\ \A a \in Unretired : Sizes'[a] = Sizes[a]
  BY <1>1, <1>2, <1>4, <1>5, <1>6 DEF Sizes
<1>8. /\ Cardinality(Unretired') = Cardinality(Unretired) + 1
      /\ Total(Sizes', Unretired') = Total(Sizes, Unretired) + r.size
  <2>1. Total(Sizes', Unretired) = Total(Sizes, Unretired)
    BY <1>6, <1>7, TotalSame
  <2>2. Total(Sizes', Unretired \cup {r.id}) = Sizes'[r.id] + Total(Sizes', Unretired)
    BY <1>1, <1>5, <1>6, <1>7, TotalWith
  <2>3. Total(Sizes, Unretired) \in Nat
    BY <1>6, TotalIsNat
  <2>4. Cardinality(Unretired \cup {r.id}) = Cardinality(Unretired) + 1
    BY <1>5, <1>6, FS_AddElement
  <2>5. Total(Sizes', Unretired \cup {r.id}) = Total(Sizes, Unretired) + r.size
    BY <1>1, <1>7, <2>1, <2>2, <2>3
  <2>6. QED
    BY <1>5, <2>4, <2>5
<1>9. /\ accounts'.logicalArtifacts = accounts.logicalArtifacts + 1
      /\ accounts'.logicalBytes = accounts.logicalBytes + r.size
      /\ accounts'.activeReferences = accounts.activeReferences + 1
      /\ accounts'.physicalBacking =
           IF r.content \in backed THEN accounts.physicalBacking ELSE accounts.physicalBacking + 1
      /\ accounts'.physicalBytes =
           IF r.content \in backed THEN accounts.physicalBytes ELSE accounts.physicalBytes + BackingSize(r)
  BY <1>3 DEF Committed, Staged, AccountsOK, Accounts
<1>10. BackingSize(r) = Bytes[r.content]
  BY <1>1 DEF BackingSize
<1>11. /\ backed \subseteq Contents /\ IsFiniteSet(backed)
       /\ \A c \in backed : Bytes[c] \in Nat
  BY BackedFinite DEF AccountInv
<1>12. /\ accounts'.physicalBacking = Cardinality(backed')
       /\ accounts'.physicalBytes = Total(Bytes, backed')
  <2>1. CASE r.content \in backed
    <3>1. backed' = backed
      BY <1>3, <2>1
    <3>2. QED
      BY <1>9, <2>1, <3>1 DEF AccountInv
  <2>2. CASE r.content \notin backed
    <3>1. Cardinality(backed') = Cardinality(backed) + 1
      BY <1>3, <1>11, <2>2, FS_AddElement
    <3>2. Total(Bytes, backed') = Bytes[r.content] + Total(Bytes, backed)
      BY <1>1, <1>3, <1>11, <2>2, TotalWith
    <3>3. Total(Bytes, backed) \in Nat
      BY <1>11, TotalIsNat
    <3>4. QED
      BY <1>1, <1>9, <1>10, <2>2, <3>1, <3>2, <3>3 DEF AccountInv
  <2>3. QED
    BY <2>1, <2>2
<1>13. \A c : Holders(c)' = IF r.content = c THEN Holders(c) \cup {r.id} ELSE Holders(c)
  BY <1>1, <1>2, HoldersStored
<1>14. \A c \in backed' : Holders(c)' # {}
  BY <1>3, <1>13 DEF AccountInv
<1>15. \A a \in Unretired' :
         artifacts'[a].content \in Contents /\ artifacts'[a].size = Bytes[artifacts'[a].content]
  BY <1>1, <1>2, <1>4, <1>5, <1>6 DEF AccountInv
<1>16. QED
  BY <1>8, <1>9, <1>12, <1>14, <1>15 DEF AccountInv

(* The artifact to retire is accounted for, so no counter is short of it;  *)
(* its content goes when nobody else has it.                               *)
LEMMA RetireAccountInv ==
  ASSUME RecordsOK, AccountsOK, ReferencesExact, AccountInv,
         NEW a \in Artifacts, NEW e \in Envelopes,
         Retire(a, e) \/ RetireShortOfPhysicalBytes(a, e) \/ RetireShortOfLogical(a, e)
  PROVE  AccountInv'
<1> DEFINE d == artifacts[a]
           content == d.content
<1>1. /\ Retires(a, e) /\ Registered(a) /\ refs' = Released(d)
      /\ Advances(a) /\ d.lifecycle # "RETIRED" /\ artifacts'[a].lifecycle = "RETIRED"
      /\ d \in Descriptors
  BY RetireAdvances, RegisteredDescriptor
     DEF Retires, Retire, RetireShortOfPhysicalBytes, RetireShortOfLogical
<1>2. /\ \A x \in Artifacts \ {a} : artifacts'[x] = artifacts[x]
      /\ Registered(a)'
  BY <1>1 DEF Advances, Registered, Descriptors, Absent
<1>3. a \in Unretired /\ Unretired' = Unretired \ {a}
  BY <1>1, <1>2 DEF Unretired, Registered
<1>4. a \in Holders(content) /\ \A c : c # content => a \notin Holders(c)
  BY <1>1 DEF Holders
<1>5. \A c : Holders(c)' = Holders(c) \ {a}
  BY <1>1, HoldersRetired
<1>6. /\ content \in Contents /\ d.size = Bytes[content] /\ Bytes[content] \in Nat
      /\ content \in backed
  BY <1>3, <1>4, ContentsAssumption DEF AccountInv, ReferencesExact
<1>7. /\ Unretired \subseteq Artifacts /\ IsFiniteSet(Unretired)
      /\ \A x \in Unretired : Sizes[x] \in Nat
      /\ backed \subseteq Contents /\ IsFiniteSet(backed)
      /\ \A c \in backed : Bytes[c] \in Nat
  BY UnretiredFinite, BackedFinite DEF AccountInv
<1>8. ReleasesLast(d) <=> Holders(content) \ {a} = {}
  <2>1. /\ IsFiniteSet(Holders(content)) /\ refs[content] = Cardinality(Holders(content))
        /\ Cardinality(Holders(content)) \in Nat
    BY <1>6, HoldersCounted DEF ReferencesExact
  <2>2. /\ IsFiniteSet(Holders(content) \ {a})
        /\ Cardinality(Holders(content) \ {a}) = Cardinality(Holders(content)) - 1
    BY <1>4, <2>1, FS_RemoveElement
  <2>3. Cardinality(Holders(content)) # 0
    BY <1>4, <2>1, FS_EmptySet
  <2>4. ReleasesLast(d) <=> Cardinality(Holders(content)) - 1 = 0
    BY <1>6, <2>1, <2>3 DEF ReleasesLast, Dropped
  <2>5. QED
    BY <2>2, <2>4, FS_EmptySet
<1>9. /\ Total(Sizes, Unretired) = d.size + Total(Sizes, Unretired \ {a})
      /\ Total(Sizes, Unretired \ {a}) \in Nat
      /\ Cardinality(Unretired \ {a}) = Cardinality(Unretired) - 1
      /\ Cardinality(Unretired \ {a}) \in Nat
  <2>1. Sizes[a] = d.size
    BY <1>3 DEF Sizes
  <2>2. Total(Sizes, Unretired) = Sizes[a] + Total(Sizes, Unretired \ {a})
    BY <1>3, <1>7, TotalWithout
  <2>3. IsFiniteSet(Unretired \ {a}) /\ Cardinality(Unretired \ {a}) = Cardinality(Unretired) - 1
    BY <1>3, <1>7, FS_RemoveElement
  <2>4. Total(Sizes, Unretired \ {a}) \in Nat
    BY <1>7, <2>3, TotalIsNat
  <2> HIDE DEF d
  <2>5. QED
    BY <2>1, <2>2, <2>3, <2>4, FS_CardinalityType
<1>10. /\ Total(Bytes, backed) = Bytes[content] + Total(Bytes, backed \ {content})
       /\ Total(Bytes, backed \ {content}) \in Nat
       /\ Cardinality(backed \ {content}) = Cardinality(backed) - 1
  <2>1. IsFiniteSet(backed \ {content}) /\ Cardinality(backed \ {content}) = Cardinality(backed) - 1
    BY <1>6, <1>7, FS_RemoveElement
  <2> HIDE DEF content
  <2>2. QED
    BY <1>6, <1>7, <2>1, TotalWithout, TotalIsNat
<1>11. Retire(a, e)
  <2>1. ~ShortOfPhysicalBytes(d)
    BY <1>6, <1>10 DEF ShortOfPhysicalBytes, AccountInv
  <2>2. ~ShortOfLogicalBytes(d)
    BY <1>6, <1>9 DEF ShortOfLogicalBytes, AccountInv
  <2>3. ~ShortOfReferences
    BY <1>9, <1>7, FS_CardinalityType DEF ShortOfReferences, AccountInv
  <2>4. QED
    BY <2>1, <2>2, <2>3 DEF RetireShortOfPhysicalBytes, RetireShortOfLogical
<1>12. /\ backed' = IF ReleasesLast(d) THEN backed \ {content} ELSE backed
       /\ accounts'.logicalArtifacts = accounts.logicalArtifacts - 1
       /\ accounts'.logicalBytes = accounts.logicalBytes - d.size
       /\ accounts'.activeReferences = accounts.activeReferences - 1
       /\ accounts'.physicalBacking =
            IF ReleasesLast(d) THEN accounts.physicalBacking - 1 ELSE accounts.physicalBacking
       /\ accounts'.physicalBytes =
            IF ReleasesLast(d) THEN accounts.physicalBytes - Bytes[content] ELSE accounts.physicalBytes
  BY <1>11 DEF Retire, Erases, Unbacked, AccountsOK, Accounts
<1> HIDE DEF d
<1>13. Total(Sizes', Unretired') = Total(Sizes, Unretired \ {a})
  <2>1. \A x \in Unretired \ {a} : Sizes'[x] = Sizes[x]
    BY <1>2, <1>3, <1>7 DEF Sizes
  <2>2. IsFiniteSet(Unretired \ {a})
    BY <1>7, FS_Subset
  <2>3. Total(Sizes', Unretired \ {a}) = Total(Sizes, Unretired \ {a})
    BY <2>1, <2>2, TotalSame
  <2>4. QED
    BY <1>3, <2>3
<1>14. /\ accounts'.logicalArtifacts = Cardinality(Unretired')
       /\ accounts'.activeReferences = Cardinality(Unretired')
  BY <1>3, <1>9, <1>12 DEF AccountInv
<1>15. accounts'.logicalBytes = Total(Sizes', Unretired')
  BY <1>6, <1>9, <1>12, <1>13 DEF AccountInv
<1>16. /\ accounts'.physicalBacking = Cardinality(backed')
       /\ accounts'.physicalBytes = Total(Bytes, backed')
  <2> HIDE DEF content
  <2>1. CASE ReleasesLast(d)
    <3>1. backed' = backed \ {content}
      BY <1>12, <2>1
    <3>2. /\ accounts'.physicalBacking = Cardinality(backed) - 1
          /\ accounts'.physicalBytes = Total(Bytes, backed) - Bytes[content]
      BY <1>12, <2>1 DEF AccountInv
    <3>3. Total(Bytes, backed) - Bytes[content] = Total(Bytes, backed \ {content})
      BY <1>6, <1>10
    <3>4. QED
      BY <1>10, <3>1, <3>2, <3>3
  <2>2. CASE ~ReleasesLast(d)
    BY <1>12, <2>2 DEF AccountInv
  <2>3. QED
    BY <2>1, <2>2
<1>17. \A c \in backed' : Holders(c)' # {}
  BY <1>4, <1>5, <1>8, <1>12 DEF AccountInv
<1>18. \A x \in Unretired' :
         artifacts'[x].content \in Contents /\ artifacts'[x].size = Bytes[artifacts'[x].content]
  BY <1>2, <1>3, <1>7 DEF AccountInv
<1>19. QED
  BY <1>14, <1>15, <1>16, <1>17, <1>18 DEF AccountInv

LEMMA EditAccountInv ==
  ASSUME RecordsOK, AccountsOK, ReferencesExact, AccountInv,
         NEW a \in Artifacts, NEW e \in Envelopes, Edits(a, e)
  PROVE  AccountInv'
<1>1. ASSUME NEW c \in Causes,
             \/ Invalidate(a, c, e)
             \/ \E i \in 1..Len(Visits(a)) : InvalidateStoppedAt(a, i, c, e)
      PROVE  AccountInv'
  <2>1. PICK hit \in SUBSET Artifacts : \E stuck :
          /\ \A x \in hit : artifacts[x].lifecycle \in Reachable
          /\ Invalidates(hit, stuck, c)
    BY <1>1, InvalidateForm
  <2>2. UNCHANGED backed
    BY <1>1, InvalidateForm DEF store
  <2>3. ASSUME NEW x \in Artifacts
        PROVE  /\ x \in Unretired' <=> x \in Unretired
               /\ x \in Unretired => /\ artifacts'[x].content = artifacts[x].content
                                     /\ artifacts'[x].size = artifacts[x].size
    <3>1. CASE x \in hit
      <4>1. artifacts[x].lifecycle \in Reachable
        BY <2>1, <3>1
      <4>2. Registered(x) /\ artifacts[x] \in Descriptors
        BY <4>1, RegisteredDescriptor DEF Reachable, Registered, Absent
      <4>3. artifacts'[x] = [artifacts[x] EXCEPT !.lifecycle = "INVALIDATED"]
        BY <2>1, <3>1 DEF Invalidates
      <4>4. /\ artifacts'[x].lifecycle = "INVALIDATED"
            /\ artifacts'[x].content = artifacts[x].content
            /\ artifacts'[x].size = artifacts[x].size
            /\ artifacts'[x] # Absent
        BY <4>2, <4>3 DEF Descriptors, Absent
      <4>5. QED
        BY <4>1, <4>2, <4>4 DEF Unretired, Registered, Reachable
    <3>2. CASE x \notin hit
      <4>1. artifacts'[x] = artifacts[x]
        BY <2>1, <3>2 DEF Invalidates
      <4>2. QED
        BY <4>1 DEF Unretired, Registered
    <3>3. QED
      BY <3>1, <3>2
  <2>4. Unretired \subseteq Artifacts
    BY DEF Unretired
  <2>5. /\ accounts'.logicalArtifacts = accounts.logicalArtifacts
        /\ accounts'.activeReferences = accounts.activeReferences
        /\ accounts'.logicalBytes = accounts.logicalBytes
        /\ accounts'.physicalBacking = accounts.physicalBacking
        /\ accounts'.physicalBytes = accounts.physicalBytes
    BY <2>1 DEF Invalidates, AccountsOK, Accounts
  <2>6. QED
    BY <2>2, <2>3, <2>4, <2>5, AccountsKept
<1>2. ASSUME \/ \E report \in Reports : Validate(a, report, e) \/ ValidateRefused(a, report, e)
             \/ Promote(a, e) \/ PromoteRefused(a, e)
             \/ \E new \in Artifacts : Supersede(a, new, e) \/ SupersedeRefused(a, new, e)
             \/ Quarantine(a, e) \/ QuarantineRefused(a, e)
             \/ RetireRefused(a, e)
      PROVE  AccountInv'
  <2>1. Advances(a) /\ (artifacts'[a].lifecycle = "RETIRED" => artifacts[a].lifecycle = "RETIRED")
    BY <1>2, EditOneAdvances
  <2>2. artifacts[a].lifecycle = "RETIRED" => artifacts'[a].lifecycle = "RETIRED"
    BY <2>1 DEF Advances, CanTransition, Successors, LifecycleStates
  <2>3. /\ Registered(a) /\ Registered(a)'
        /\ artifacts'[a].content = artifacts[a].content /\ artifacts'[a].size = artifacts[a].size
        /\ \A x \in Artifacts \ {a} : artifacts'[x] = artifacts[x]
    BY <2>1 DEF Advances, Registered, Descriptors, Absent
  <2>4. /\ Unretired \subseteq Artifacts
        /\ \A x \in Artifacts : x \in Unretired' <=> x \in Unretired
    BY <2>1, <2>2, <2>3 DEF Unretired, Registered
  <2>5. /\ UNCHANGED backed
        /\ accounts'.logicalArtifacts = accounts.logicalArtifacts
        /\ accounts'.activeReferences = accounts.activeReferences
        /\ accounts'.logicalBytes = accounts.logicalBytes
        /\ accounts'.physicalBacking = accounts.physicalBacking
        /\ accounts'.physicalBytes = accounts.physicalBytes
    <3>1. UNCHANGED store /\ (UNCHANGED accounts \/ \E pair : Records(pair))
      BY <1>2 DEF Validate, ValidateRefused, Promote, PromoteRefused, Supersede,
                  SupersedeRefused, Quarantine, QuarantineRefused, RetireRefused
    <3>2. QED
      BY <3>1 DEF store, Records, AccountsOK, Accounts
  <2>6. QED
    BY <2>3, <2>4, <2>5, AccountsKept
<1>3. QED
  BY <1>1, <1>2, RetireAccountInv DEF Edits

(* A publication that ends at the graph leaves a record behind that is     *)
(* charged for its bytes and counted nowhere else.                         *)
PublicationFails ==
  \E r \in PublishRequests, e \in Envelopes :
    PublishWithoutNode(r, e) \/ \E i \in 1..Len(r.deps) : PublishRefusedAt(r, i, e)

(* As long as no publication fails at the graph, sizes are declared as     *)
(* they are and nothing is registered without publishing, the accounts are *)
(* the catalog: artifacts, references and bytes as the callers see them,   *)
(* backing and bytes as stored once per content, and never less seen than  *)
(* stored, so that the difference reported as shared is no underflow.      *)
THEOREM AccountsStayExact ==
  ASSUME CountsFit, TrueSizes, RegisterRequests = {}
  PROVE  Spec /\ [][~PublicationFails]_vars => []AccountsExact
<1>1. Init => AccountInv
  <2> SUFFICES ASSUME Init PROVE AccountInv
    OBVIOUS
  <2>1. Unretired = {}
    BY DEF Init, Unretired, Registered
  <2>2. QED
    BY <2>1, TotalNone, FS_EmptySet DEF Init, NoAccounts, AccountInv
<1>2. TypeOK /\ ReferencesExact /\ AccountInv /\ [Next]_vars /\ [~PublicationFails]_vars => AccountInv'
  <2> SUFFICES ASSUME TypeOK, ReferencesExact, AccountInv, [Next]_vars, [~PublicationFails]_vars
               PROVE  AccountInv'
    OBVIOUS
  <2>1. RecordsOK /\ AccountsOK
    BY TypeSplit
  <2>2. CASE UNCHANGED <<artifacts, backed, accounts>>
    <3>1. UNCHANGED <<Unretired, backed, accounts>>
      BY <2>2 DEF Unretired, Registered
    <3>2. QED
      BY <2>1, <2>2, <3>1, AccountsKept DEF Unretired
  <2>3. ASSUME NEW r \in PublishRequests, NEW e \in Envelopes, Publishes(r, e), ~PublicationFails
        PROVE  AccountInv'
    <3>1. PublishesUnindexed(r, e)
      BY <2>3 DEF Publishes, PublicationFails, Publish, PublishOverflowing
    <3>2. QED
      BY <2>1, <2>3, <3>1, PublishAccountInv
  <2>4. CASE UNCHANGED vars
    BY <2>2, <2>4 DEF vars
  <2>5. CASE Next /\ ~PublicationFails
    BY <2>1, <2>2, <2>3, <2>5, EditAccountInv
       DEF Next, SetAuthority, RollEpoch, RebuildIndexes, store
  <2>6. QED
    BY <2>4, <2>5
<1>3. RecordsOK /\ AccountInv => AccountsExact
  BY LogicalCoversPhysical DEF AccountInv, AccountsExact, Sizes
<1>4. BareRegistrations
  BY DEF BareRegistrations
<1>5. Spec => []ReferencesExact
  BY <1>4, CatalogCountsReferences
<1>6. QED
  BY <1>1, <1>2, <1>3, <1>5, CatalogRecordsOK, CatalogTypeCorrect, PTL DEF Spec

-----------------------------------------------------------------------------
(* The graph a restart builds. *)

(* The ids have an upper bound. *)
LEMMA BoundedIds ==
  \E n \in Nat : \A x \in Artifacts : x < n
<1> DEFINE Bounded(T) == \E n \in Nat : \A x \in T : x < n
           F == {T \in SUBSET Artifacts : ~Bounded(T)}
<1>1. SUFFICES ASSUME ~Bounded(Artifacts) PROVE FALSE
  OBVIOUS
<1>2. F \in SUBSET (SUBSET Artifacts) /\ F # {}
  <2>1. Artifacts \in F
    BY <1>1
  <2>2. QED
    BY <2>1
<1>3. PICK T \in F : \A U \in F : U \subseteq T => U = T
  <2> HIDE DEF F
  <2>1. QED
    BY <1>2, SmallestSet
<1>4. T \in SUBSET Artifacts /\ ~Bounded(T)
  BY <1>3
<1>5. PICK x \in T : TRUE
  <2>1. T = {} => Bounded(T)
    OBVIOUS
  <2>2. QED
    BY <1>4, <2>1
<1>6. Bounded(T \ {x})
  <2>1. T \ {x} \in SUBSET Artifacts /\ T \ {x} \subseteq T /\ T \ {x} # T
    BY <1>4, <1>5
  <2>2. T \ {x} \notin F
    BY <1>3, <2>1
  <2> HIDE DEF Bounded
  <2>3. QED
    BY <2>1, <2>2
<1>7. PICK n \in Nat : \A y \in T \ {x} : y < n
  BY <1>6
<1>8. x \in Nat
  BY <1>4, <1>5, ArtifactsAssumption
<1>9. \A y \in T : y < n + x + 1
  <2> SUFFICES ASSUME NEW y \in T PROVE y < n + x + 1
    OBVIOUS
  <2>1. y \in Nat /\ (y = x \/ y < n)
    BY <1>4, <1>7, ArtifactsAssumption
  <2>2. QED
    BY <1>7, <1>8, <2>1
<1>10. QED
  BY <1>4, <1>7, <1>8, <1>9

(* The edges out of the artifacts below n. *)
Below(g, n) ==
  [nodes |-> g.nodes,
   out   |-> [x \in Artifacts |-> IF x < n THEN g.out[x] ELSE {}],
   in    |-> g.in]

LEMMA BelowType ==
  ASSUME NEW g \in Graphs, NEW n \in Nat
  PROVE  /\ Below(g, n) \in Graphs
         /\ \A x \in Artifacts : Below(g, n).out[x] = IF x < n THEN g.out[x] ELSE {}
<1>1. [x \in Artifacts |-> IF x < n THEN g.out[x] ELSE {}] \in [Artifacts -> SUBSET Artifacts]
  BY DEF Graphs
<1>2. QED
  BY <1>1 DEF Below, Graphs

(* Every edge of g was accepted against all the edges of the artifacts     *)
(* before its own.                                                         *)
AcceptedInOrder(g) ==
  \A x \in Artifacts : \A d \in g.out[x] :
    /\ x \in Saved
    /\ \E j \in 1..Len(artifacts[x].deps) : d = artifacts[x].deps[j] /\ ~Spoils(x, j)

(* One artifact more closes no cycle. *)
LEMMA NextBelowAcyclic ==
  ASSUME RecordsOK, NEW g \in Graphs, AcceptedInOrder(g),
         NEW n \in Nat, Acyclic(Below(g, n))
  PROVE  Acyclic(Below(g, n + 1))
<1>1. /\ Below(g, n) \in Graphs
      /\ \A x \in Artifacts : Below(g, n).out[x] = IF x < n THEN g.out[x] ELSE {}
      /\ \A x \in Artifacts : Below(g, n + 1).out[x] = IF x < n + 1 THEN g.out[x] ELSE {}
  <2>1. n + 1 \in Nat
    OBVIOUS
  <2>2. QED
    BY <2>1, BelowType
<1>2. \A x \in Artifacts : x \in Nat
  BY ArtifactsAssumption
<1>3. CASE n \notin Artifacts
  <2>1. \A x \in Artifacts : Below(g, n + 1).out[x] \subseteq Below(g, n).out[x]
    <3> SUFFICES ASSUME NEW x \in Artifacts, x < n + 1 PROVE x < n
      BY <1>1
    <3>1. x \in Nat /\ x # n
      BY <1>2, <1>3
    <3>2. QED
      BY <3>1
  <2>2. QED
    BY <2>1, FewerEdges
<1>4. CASE n \in Artifacts
  <2>1. g.out[n] \in SUBSET Artifacts
    BY <1>4 DEF Graphs
  <2>2. ASSUME NEW d \in g.out[n]
        PROVE  ~CreatesCycle(Below(g, n), n, d)
    <3>1. PICK j \in 1..Len(artifacts[n].deps) : d = artifacts[n].deps[j] /\ ~Spoils(n, j)
      BY <1>4, <2>2 DEF AcceptedInOrder
    <3>2. n \notin Reach(Rebuilt(n, j), d)
      BY <3>1 DEF Spoils, CreatesCycle
    <3>3. ASSUME NEW x \in Artifacts
          PROVE  Below(g, n).out[x] \subseteq Rebuilt(n, j).out[x]
      <4> SUFFICES ASSUME x < n, NEW t \in g.out[x] PROVE t \in Rebuilt(n, j).out[x]
        BY <1>1, <3>3
      <4>1. x \in Saved /\ t \in DependencySet(x)
        BY <3>3 DEF AcceptedInOrder, DependencySet
      <4>2. Rebuilt(n, j).out[x] = DependencySet(x)
        BY <3>3, <4>1 DEF Rebuilt
      <4>3. QED
        BY <4>1, <4>2
    <3>4. d \in Artifacts
      BY <2>1, <2>2
    <3>5. QED
      BY <1>4, <3>2, <3>3, <3>4, FewerEdges DEF CreatesCycle
  <2>3. Acyclic(AddEdges(Below(g, n), n, g.out[n]))
    BY <1>1, <1>4, <2>1, <2>2, AddEdgesAcyclic
  <2>4. ASSUME NEW x \in Artifacts
        PROVE  Below(g, n + 1).out[x] \subseteq AddEdges(Below(g, n), n, g.out[n]).out[x]
    <3>1. AddEdges(Below(g, n), n, g.out[n]).out
            = [Below(g, n).out EXCEPT ![n] = @ \cup g.out[n]]
      BY <1>1 DEF AddEdges, Graphs
    <3>2. Below(g, n).out \in [Artifacts -> SUBSET Artifacts]
      BY <1>1 DEF Graphs
    <3>3. CASE x = n
      BY <1>1, <1>4, <3>1, <3>2, <3>3
    <3>4. CASE x # n
      <4>1. x < n + 1 => x < n
        BY <1>2, <2>4, <3>4
      <4>2. AddEdges(Below(g, n), n, g.out[n]).out[x] = Below(g, n).out[x]
        BY <2>4, <3>1, <3>2, <3>4
      <4>3. QED
        BY <1>1, <2>4, <4>1, <4>2
    <3>5. QED
      BY <3>3, <3>4
  <2>5. QED
    BY <2>3, <2>4, FewerEdges
<1>5. QED
  BY <1>3, <1>4

(* So the artifacts taken in the order of their ids close none. *)
LEMMA AcceptedAcyclic ==
  ASSUME RecordsOK, NEW g \in Graphs, AcceptedInOrder(g)
  PROVE  Acyclic(g)
<1> DEFINE F == {n \in Nat : ~Acyclic(Below(g, n))}
<1>1. ASSUME F # {} PROVE FALSE
  <2>1. PICK n \in F : \A m \in F : n <= m
    <3> DEFINE below == {p \in Nat \X Nat : p[1] < p[2]}
    <3>1. IsWellFoundedOn(below, Nat) /\ F \subseteq Nat
      BY NatLessThanWellFounded DEF OpToRel
    <3> HIDE DEF below, F
    <3>2. PICK n \in F : \A m \in F : ~(<<m, n>> \in below)
      BY <1>1, <3>1, WFMin
    <3>3. ASSUME NEW m \in F PROVE n <= m
      <4>1. m \in Nat /\ n \in Nat /\ ~(m < n)
        BY <3>1, <3>2, <3>3 DEF below
      <4>2. QED
        BY <4>1
    <3>4. QED
      BY <3>3
  <2>2. n \in Nat /\ ~Acyclic(Below(g, n))
    BY <2>1
  <2>3. n # 0
    <3>1. ASSUME NEW x \in Artifacts PROVE Below(g, 0).out[x] = {}
      <4>1. x \in Nat
        BY <3>1, ArtifactsAssumption
      <4>2. QED
        BY <3>1, <4>1, BelowType
    <3>2. Acyclic(Below(g, 0))
      BY <3>1 DEF Acyclic, TransitiveDependencies
    <3>3. QED
      BY <2>2, <3>2
  <2>4. PICK m \in Nat : n = m + 1
    <3>1. n - 1 \in Nat /\ n = (n - 1) + 1
      BY <2>2, <2>3
    <3>2. QED
      BY <3>1
  <2>5. m \notin F
    BY <2>1, <2>4
  <2>6. Acyclic(Below(g, m))
    BY <2>5
  <2>7. QED
    BY <2>2, <2>4, <2>6, NextBelowAcyclic
<1>2. PICK n \in Nat : \A x \in Artifacts : x < n
  BY BoundedIds
<1>3. Acyclic(Below(g, n))
  BY <1>1
<1>4. \A x \in Artifacts : g.out[x] \subseteq Below(g, n).out[x]
  BY <1>2, BelowType
<1>5. QED
  BY <1>3, <1>4, FewerEdges

LEMMA ReloadGraphSound ==
  ASSUME RecordsOK, RecordsOK', Reload
  PROVE  GraphSound'
<1>1. \A x \in Artifacts : graph'.out[x] = IF x \in Saved THEN DependencySet(x) ELSE {}
  BY DEF Reload
<1>2. AcceptedInOrder(graph')
  <2> SUFFICES ASSUME NEW x \in Artifacts, NEW d \in graph'.out[x]
               PROVE  /\ x \in Saved
                      /\ \E j \in 1..Len(artifacts[x].deps) :
                           d = artifacts[x].deps[j] /\ ~Spoils(x, j)
    BY DEF AcceptedInOrder
  <2>1. x \in Saved /\ d \in DependencySet(x)
    BY <1>1
  <2>2. PICK j \in 1..Len(artifacts[x].deps) : d = artifacts[x].deps[j]
    BY <2>1 DEF DependencySet
  <2>3. Len(artifacts[x].deps) \in Nat
    BY <2>1, RecordDependencies
  <2>4. ~Spoils(x, j)
    BY <2>1, <2>3 DEF Reload, Loads, Steps, RefusedAt
  <2>5. QED
    BY <2>1, <2>2, <2>4
<1>3. graph' \in Graphs
  BY DEF RecordsOK
<1>4. Acyclic(graph')
  BY <1>2, <1>3, AcceptedAcyclic
<1>5. EdgesJoinNodes(graph')
  BY <1>1 DEF EdgesJoinNodes, Reload
<1>6. InMirrorsOut(graph')
  BY <1>1 DEF InMirrorsOut, Reload
<1>7. QED
  BY <1>4, <1>5, <1>6 DEF GraphSound

LEMMA ReloadRefusedGraphSound ==
  ASSUME RecordsOK, RecordsOK', NEW a \in Saved, NEW i \in Steps(a), ReloadRefused(a, i)
  PROVE  GraphSound'
<1>1. /\ graph' = Rebuilt(a, i)
      /\ a \in Artifacts
      /\ i \in 0..Len(artifacts[a].deps)
      /\ Len(artifacts[a].deps) \in Nat
  BY RecordDependencies DEF ReloadRefused, Steps
<1>2. \A x \in Artifacts :
        graph'.out[x] = IF x \in Saved /\ x < a THEN DependencySet(x)
                        ELSE IF x = a THEN Earlier(artifacts[a], i) ELSE {}
  BY <1>1 DEF Rebuilt
<1>3. \A b \in Saved : \A j \in Steps(b) :
        b < a \/ (b = a /\ j < i) => ~RefusedAt(b, j)
  BY DEF ReloadRefused
<1>4. AcceptedInOrder(graph')
  <2> SUFFICES ASSUME NEW x \in Artifacts, NEW d \in graph'.out[x]
               PROVE  /\ x \in Saved
                      /\ \E j \in 1..Len(artifacts[x].deps) :
                           d = artifacts[x].deps[j] /\ ~Spoils(x, j)
    BY DEF AcceptedInOrder
  <2>1. CASE x \in Saved /\ x < a
    <3>1. PICK j \in 1..Len(artifacts[x].deps) : d = artifacts[x].deps[j]
      BY <1>2, <2>1 DEF DependencySet
    <3>2. j \in Steps(x) /\ j > 0
      BY <2>1, RecordDependencies DEF Steps
    <3>3. ~Spoils(x, j)
      BY <1>3, <2>1, <3>2 DEF RefusedAt
    <3>4. QED
      BY <2>1, <3>1, <3>3
  <2>2. CASE ~(x \in Saved /\ x < a)
    <3>1. x = a /\ d \in Earlier(artifacts[a], i)
      BY <1>2, <2>2
    <3>2. PICK j \in 1..(i - 1) : d = artifacts[a].deps[j]
      BY <3>1 DEF Earlier
    <3>3. j \in 1..Len(artifacts[a].deps) /\ j \in Steps(a) /\ j < i /\ j > 0
      BY <1>1, <3>2 DEF Steps
    <3>4. ~Spoils(a, j)
      BY <1>3, <3>3 DEF RefusedAt
    <3>5. QED
      BY <3>1, <3>2, <3>3, <3>4
  <2>3. QED
    BY <2>1, <2>2
<1>5. graph' \in Graphs
  BY DEF RecordsOK
<1>6. Acyclic(graph')
  BY <1>4, <1>5, AcceptedAcyclic
<1>7. EdgesJoinNodes(graph')
  <2> SUFFICES ASSUME NEW x \in Artifacts, graph'.out[x] # {}
               PROVE  x \in graph'.nodes /\ graph'.out[x] \subseteq graph'.nodes
    BY DEF EdgesJoinNodes
  <2>1. graph'.nodes = {b \in Saved : b < a} \cup (IF i = 0 THEN {} ELSE {a})
                         \cup UNION {graph'.out[b] : b \in Artifacts}
    BY <1>1 DEF Rebuilt
  <2>2. x = a => i # 0
    <3>1. i = 0 => Earlier(artifacts[a], i) = {}
      BY DEF Earlier
    <3>2. ~(a < a)
      BY <1>1, ArtifactsAssumption
    <3>3. QED
      BY <1>2, <3>1, <3>2
  <2>3. QED
    BY <1>2, <2>1, <2>2
<1>8. InMirrorsOut(graph')
  <2>1. \A d \in Artifacts : graph'.in[d] = {b \in Artifacts : d \in graph'.out[b]}
    BY <1>1 DEF Rebuilt
  <2>2. QED
    BY <2>1 DEF InMirrorsOut
<1>9. QED
  BY <1>6, <1>7, <1>8 DEF GraphSound

(* Whatever image is loaded or refused, the graph is acyclic and well      *)
(* formed: load links the artifacts in the order of their ids and each     *)
(* edge is checked against those before it (catalog.cpp:617-628).          *)
THEOREM RestartsKeepGraphSound == PersistentSpec => []GraphSound
<1>1. PersistentInit => GraphSound
  BY InitGraphSound DEF PersistentInit
<1>2. RecordsOK /\ RecordsOK' /\ GraphSound /\ [PersistentNext]_persistentVars => GraphSound'
  <2> SUFFICES ASSUME RecordsOK, RecordsOK', GraphSound, [PersistentNext]_persistentVars
               PROVE  GraphSound'
    OBVIOUS
  <2>1. CASE [Next]_vars
    BY <2>1, NextGraphSound
  <2>2. CASE Reload
    BY <2>2, ReloadGraphSound
  <2>3. ASSUME NEW a \in Saved, NEW i \in Steps(a), ReloadRefused(a, i)
        PROVE  GraphSound'
    BY <2>3, ReloadRefusedGraphSound
  <2>4. QED
    BY <2>1, <2>2, <2>3 DEF PersistentNext, persistentVars
<1>3. QED
  BY <1>1, <1>2, PersistentRecordsOK, PTL DEF PersistentSpec

(* A client's verification links as publish does. *)
LEMMA StepGraphSound ==
  ASSUME RecordsOK, ClaimInv, GraphSound, NEW h \in Handles, Step(h)
  PROVE  GraphSound'
<1> DEFINE v == Verifying(h)
<1>1. ASSUME Open(h) PROVE v.id \in Artifacts /\ v.deps \in Seq(Artifacts)
  BY <1>1, ClaimedRecord DEF Verifying, Descriptors
<1>2. CASE VerifyDependencies(h)
  <2>1. /\ v.id \in Artifacts /\ v.deps \in Seq(Artifacts)
        /\ \A i \in 1..Len(v.deps) : ~DependencyRefused(v, i)
        /\ graph' = Linked(v, Len(v.deps) + 1)
    BY <1>1, <1>2 DEF VerifyDependencies, At, Open
  <2> HIDE DEF v
  <2>2. /\ Len(v.deps) + 1 \in 1..(Len(v.deps) + 1)
        /\ \A j \in 1..(Len(v.deps) + 1 - 1) : ~DependencyRefused(v, j)
    BY <2>1
  <2>3. SoundGraph(Linked(v, Len(v.deps) + 1))
    BY <2>1, <2>2, LinkedSound
  <2>4. QED
    BY <2>1, <2>3 DEF SoundGraph, GraphSound
<1>3. CASE VerifyRefused(h)
  <2>1. /\ v.id \in Artifacts /\ v.deps \in Seq(Artifacts)
        /\ \E i \in 1..Len(v.deps) :
             /\ \A j \in 1..(i - 1) : ~DependencyRefused(v, j)
             /\ graph' = AddNodes(Linked(v, i), IF NoRoomFor(v, i) THEN {} ELSE {v.deps[i]})
    BY <1>1, <1>3 DEF VerifyRefused, At, Open
  <2> HIDE DEF v
  <2>2. PICK i \in 1..Len(v.deps) :
          /\ \A j \in 1..(i - 1) : ~DependencyRefused(v, j)
          /\ graph' = AddNodes(Linked(v, i), IF NoRoomFor(v, i) THEN {} ELSE {v.deps[i]})
    BY <2>1
  <2>3. i \in 1..(Len(v.deps) + 1) /\ v.deps[i] \in Artifacts
    BY <2>1
  <2>4. Linked(v, i) \in Graphs /\ SoundGraph(Linked(v, i))
    BY <2>1, <2>2, <2>3, LinkedType, LinkedSound
  <2>5. QED
    BY <2>2, <2>3, <2>4, AddNodesSound DEF SoundGraph, GraphSound
<1>4. CASE UNCHANGED graph
  BY <1>4 DEF GraphSound
<1>5. QED
  BY <1>2, <1>3, <1>4
  DEF Step, Reserve, ReserveRefused, Produce, ValidatePublish, VerifyWithoutNode, vars,
      Commit, CommitRefused, Abort, AbortRefused

(* Staged publications keep the graph acyclic and well formed: what an     *)
(* aborted one leaves in it is sound (abort, catalog.cpp:352-364, takes    *)
(* back no edge), and the dependencies a client links are checked at the   *)
(* moment they are.                                                        *)
THEOREM StagingKeepsGraphSound == StagedSpec => []GraphSound
<1>1. StagedInit => GraphSound
  BY InitGraphSound DEF StagedInit
<1>2. RecordsOK /\ ClaimInv /\ GraphSound /\ [StagedNext]_stagedVars => GraphSound'
  <2> SUFFICES ASSUME RecordsOK, ClaimInv, GraphSound, [StagedNext]_stagedVars
               PROVE  GraphSound'
    OBVIOUS
  <2>1. ASSUME NEW h \in Handles, Step(h) PROVE GraphSound'
    BY <2>1, StepGraphSound
  <2>2. CASE Others \/ UNCHANGED vars
    BY <2>2, OthersAreCalls, NextGraphSound
  <2>3. QED
    BY <2>1, <2>2 DEF StagedNext, stagedVars
<1>3. QED
  BY <1>1, <1>2, StagedInvariant, PTL DEF StagedSpec
=============================================================================
