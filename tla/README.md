# Artifact Fabric: verification

TLA+ models of Artifact Fabric (the C++ library under `src/`, its coordinator
and its workers), the TLC runs that check them on small instances, and proofs
that TLAPS checks for every value of the constants. Line numbers refer to
`src/`. `PROJECT.json` maps every definition to the lines it models and lists
the runs, the mutants, the hazards, the findings and the theorems.

## 1. What the system is

Artifact Fabric keeps a catalog of immutable, content-addressed build products
("artifacts"): who produced them, from what, whether they are valid, and
whether they may be reused. The catalog is a library object guarded by one
mutex; a coordinator process owns one catalog and serves workers over TCP.

### Inventory

| Component | Source | State it keeps | Operations | Hard behaviour | What makes it correct |
|---|---|---|---|---|---|
| Lifecycle and validation | `lifecycle.hpp`, `validation.hpp` | none | `can_transition`, `all_ok` | rows of a table nobody reads as a whole | nothing withdrawn comes back |
| Dependency graph | `dependency.hpp` | `nodes_`, `out_`, `in_` | `add_node`, `add_edge`, `transitive_dependencies`, `dependents`, `topological_order`, `closure` | iterative search; node limit | acyclic, mirrored, search exact and finite, order topological |
| Catalog | `catalog.hpp`, `catalog.cpp`, `accounting.hpp` | records, graph, content store with reference counts, nine indexes, accounts, supersession and cause maps, epoch, boot id, next generation | `register_artifact`, `publish`, `validate_artifact`, `promote`, `supersede`, `invalidate`, `quarantine`, `retire`, `rebuild_indexes`, `set_authority`, `roll_epoch`, `reuse`, queries | calls that throw half way and roll nothing back; recursion through dependents | indexes and reference counts exact, causes recorded, invalidation reaches what it must and nothing else |
| Staged publication | `catalog.cpp:280-363` | `reserved_id`, `reserved_bytes` of each transaction; build reservations and temporary bytes in the accounts | `reserve`, `produce`, `validate_publish`, `verify_dependencies`, `commit`, `abort` | six locks, no memory of the step reached, no look at the lifecycle table, others in between | no reservation or reference leaked or released twice, nothing found through an index before the commit, nothing left after an abort |
| Single-flight production | `catalog.cpp:16-45, 505-533` | `flights_`, and per flight owner, done, result, error | `get_or_build`, `claim_owner`, `set_result`, `set_error`, `rendezvous` | threads, a condition variable, failure and retry | one producer at a time, one answer, every call returns |
| Authority | `authority.hpp`, `catalog.cpp:48-66` | epoch, boot id | `fence`, `roll_epoch`, `set_authority` | the fence and the mutation are two critical sections | no mutation under an authority that was never this process's |
| Compatibility and reuse | `compat.*`, `reuse.*`, `catalog.cpp:474-500` | none | `check_reuse`, `evaluate_compatibility`, `Catalog::reuse` | order in which outcomes override each other, fields left open, a verdict that goes by the outcome and not by the list | the worst outcome, complete reasons, an exact verdict, only fit artifacts handed out |
| Persistence | `catalog.cpp:538-665`, `persistence.*` | the catalog file | `save`, `load`, `save_file`, `load_file` | file emptied before it is written; concurrent saves; what an image drops | a restart resumes a state of one moment |
| Coordinator and workers | `distributed.cpp`, `af_coordinator.cpp`, `af_worker.cpp` | one handler thread per connection, each worker's envelope | `HELLO`, `PUBLISH`, `QUERY`, `VALIDATE`, `INVALIDATE`, `SUPERSEDE`, `RETIRE`, `REPORT` (roll, save) | interleaved handlers, crashes, restarts, late and repeated requests | stale and repeated requests do no harm |
| Wire protocol, transport | `protocol.*`, `net.*`, `distributed.cpp:112-141` | how much of a frame each end has sent and got | `send_exact`, `recv_exact`, `send_frame`, `recv_frame`, `encode`/`decode`, `request`, `handle_client` | partial sends and receives, malformed, damaged and oversized frames, resets, shutdown; answers carry no number | frames stay aligned, an answer is the one to the call just made, what a caller is told is true, no call hangs |
| Command line | `af_cli.cpp` | a catalog per process, the file `af_state.bin` | one command per invocation, load before and save after it | overlapping invocations, kills, failed saves, a refused load passed over | changes told to the user survive; no image mixes two authorities |
| Explain, placement, identities, digests, CUDA proof, benchmarks, examples | the rest of `src/` | none of their own | | | |

How they interact: a worker's request crosses the transport, a handler thread
of the coordinator decodes it and makes one catalog call (`distributed.cpp:42`);
the call first asks `fence` (a lock of its own), then takes the catalog's lock
and edits record, indexes, store, graph and accounts. `publish`, a transaction's
`verify_dependencies` and `load` are the callers of the graph's mutators;
`invalidate` and `closure` read it. `reuse`
reads dependencies from the record, not from the graph. `get_or_build` uses a
second mutex and one mutex per flight and calls its producer with none held.
`save_file` copies the catalog under the lock and writes the file without it. The
command line tool has a catalog of its own in every process, and shares with
other invocations nothing but the state file.

## 2. Modules

| Module | Models | Kind |
|---|---|---|
| `Lifecycle` | the states, `can_transition`, `all_ok` | constants |
| `GraphOps` | a graph value and its operators | constants |
| `DependencyGraph` | a graph under its mutators: the abstract specification | state machine |
| `GraphSearch` | the same with the depth-first loop node by node | state machine, refines `DependencyGraph` |
| `TopologicalOrder` | `topological_order` on every graph `GraphSearch` reaches | function and its property |
| `Catalog` | every state-changing catalog call, with one action per point at which it throws | state machine |
| `MCCatalog` | requests and accounts for TLC | instance |
| `Persistence` | `save` and `load` on top of `Catalog`: restarts, and images refused half way | state machine, extends `Catalog` |
| `MCPersistence` | a view for TLC | instance |
| `Transaction` | staged publication among the catalog's other calls | state machine, extends `Catalog` |
| `MCTransaction` | requests, deliveries, views and symmetry for TLC | instance |
| `Compat` | `check_reuse` gate by gate, `evaluate_compatibility` dimension by dimension | state machine |
| `MCCompat` | the questions TLC asks | instance |
| `BuildOnce` | what `get_or_build` promises | abstract specification |
| `SingleFlight` | `get_or_build` and `BuildSubscribe`, one action per critical section | state machine, refines `BuildOnce` |
| `Coordinator` | coordinator, handler threads, workers, catalog file | state machine |
| `MCCoordinator` | symmetry and a view for TLC | instance |
| `Exchange` | what `WorkerClient::request` promises | abstract specification |
| `Wire` | one connection, byte by byte | state machine, refines `Exchange` |
| `CommandLine` | invocations of the tool over one state file | state machine |
| `MCCommandLine` | symmetry for TLC | instance |
| `GraphOps_proofs` | lemmas about graph values, cited by the next two | proofs |
| `GraphSearch_proofs` | theorems about `DependencyGraph`, `GraphSearch` and `TopologicalOrder` | proofs |
| `Catalog_proofs` | theorems about `Catalog`, `Persistence` and `Transaction` | proofs |
| `Compat_proofs`, `SingleFlight_proofs`, `Coordinator_proofs`, `Wire_proofs`, `CommandLine_proofs` | theorems about the module of that name | proofs |

`Catalog` extends `Lifecycle` and `GraphOps`; `DependencyGraph` extends
`GraphOps`, `GraphSearch` extends `DependencyGraph`. `Coordinator` has its own
small view of the catalog (absent, published, withdrawn), because what it asks
about is the order of critical sections, not what one of them does; the latter
is `Catalog`'s. In the same way `Coordinator` takes a connection to behave as
`Exchange` says, which `Wire` is shown to, and `Catalog` takes reuse to be
what `Compat` computes for a requirement that sets nothing
(`HandsOutTheFit`). `CommandLine` asks only which changes a catalog holds.

### How state and actions correspond to the code

*Graph.* `nodes`, `out`, `in` are `nodes_`, `out_` (targets only: generation,
digest and kind of a `DependencyRef` are never read back when an edge is
accepted) and `in_`. A refused `add_edge` throws before it changes anything and
is no step. `GraphSearch` keeps `creates_cycle`'s stack as a set: which id is on
top depends on the order in which edges were declared, so any may be.

*Catalog.* One variable per data member, `store` being `content_store_` split
into keys (`backed`) and reference counts (`refs`), `index` being the index maps
as `<<index, key, artifact>>` triples. An action is a whole call under the lock.
Because the code rolls nothing back, a call that throws after its first
assignment is an action of its own, one per throw point, that keeps exactly the
assignments made before: `PublishWithoutNode`, `PublishRefusedAt(i)`,
`PublishOverflowing`, `ValidateRefused`, `PromoteRefused`, `SupersedeRefused`,
`QuarantineRefused`, `InvalidateStoppedAt(i)`, `RetireRefused`,
`RetireShortOfPhysicalBytes`, `RetireShortOfLogical`. `Visits` is the order in
which `invalidate` and `invalidate_dependents` recurse (by id, depth first);
it matters because the recursion ends at the first illegal transition.
Reference counts wrap at `RefModulus`. A request carries the validation state its
descriptor came with, which a failed publication's record keeps; a report is its state
and whether all its checks are ok. Fields that no transition depends on
(kind, producer, model, adapter, runtime, toolchain, architecture, provenance,
placement, timestamps, closure digest) are left out; the indexes keyed by them
never change once filed and are one index here.

*Persistence.* `Reload` is the process saving, ending and loading: records,
store, next generation, authority and supersessions stay, graph, indexes and
accounts are built again from them, causes and quarantine records are gone.
`ReloadRefused(a, i)` is `load` throwing at the i-th dependency of `a`, or at
its node (`i = 0`), after it cleared the catalog: records and edges up to there,
and nothing else, are left, under the authority the process was constructed with
(`AsConstructed`: epoch 1 in a coordinator, none in a tool). `Rebuilt` is the graph at that moment. A restart is
always on the image of the moment, since what `load` makes of an image does not
depend on what happened after it was saved. `intact` says that no image has
been refused yet; the content of a refused image is lost, so what is said of the
store afterwards would be void.

*Staged publication.* Each of the six calls is an action, its refusals actions of
their own (`ReserveRefused`, `VerifyRefused`, `VerifyWithoutNode`,
`CommitRefused`, `AbortRefused`), with exactly the assignments made before the
exception. The code does not remember which call came last: `stage` is where the
*client* is in the order README.md:84 gives, which is a requirement on callers
and written down as such. A client keeps the envelope it began with, gives up
when a step is refused and may give up at any time. Between its calls come other
transactions and `Catalog`'s `Publishes`, `Invalidate`, `Retire`, `SetAuthority` and
`RollEpoch`. Other callers do not *name* an artifact that is being staged (it is
in no index, and its id is derived from the descriptor); an invalidation reaches
it along the edges all the same. A descriptor may name a digest before anything is
produced for it (`digest` of a plan): `reserve` stores it and takes no reference.
Lifecycle calls that change only the record
they name (validate, promote, supersede, quarantine) are left out here.

*Compatibility.* The state is where `check_reuse` is (`phase`, `at`) and what it
has built so far (`failures`, `failed`, `outcome`, `reusable`). One step is one gate
or one dimension in the code's order. Optional fields of descriptor and
requirement are partial functions; `Offered` and `Has` say what the descriptor
shows for a dimension, including the three dimensions that are not a field of
that name: specialization is compared with the shape, the dependency generation
with the largest one a direct dependency requires, the protocol version with a
constant. `CatalogInputs` is what `Catalog::reuse` tells `check_reuse` about copies,
provenance and authority.

*Wire.* A byte is `<<n, i>>`, the i-th of the frame of the n-th call. Each `send` takes
and each `recv` gives any number of bytes there is room for or that are there.
`ClientSends`/`ClientReceives` and `ServerSends`/`ServerReceives` are one turn of
`send_exact`'s and `recv_exact`'s loops; `Wanted` is what `recv_frame` asks for next.
`ServerRefusesFrame` is `recv_frame` returning false at an oversized header or a
frame that does not decode, after which the handler closes the connection, whereas
a payload that is no request is answered and the loop goes on. `Reset` may come at any time, and bytes handed over just then are lost
(`ClientSends` when not `connected`). `Exchange` says the same without bytes: `done` is
the sequence of the calls carried out, in the order they were made and each at most
once, "answered" means a call is in it, "unsent" and "rejected" mean it is not and never
will be, "unknown" means nothing. The refinement maps the sequence to itself, so that a
call carried out twice is no step of `Exchange` (the mutant `ServerProcessesAgain`).

*Command line.* An invocation is a process: `Begin` loads the state file (what
`load_file` throws is swallowed, line 70) and runs `ensure_authority`; then one
command (`Change`, `RefuseHalfway`, `ReadOrRefuse`, `Recover`, or `Open` for `save`), then `Open` and `Write`
of the state file at exit. `RefuseHalfway` is `validate` of an artifact past its
validation: the catalog throws with the verdict stored, the tool prints the exception
and saves. `Abort` is an exception nobody catches: the process
ends without its exit handlers. `SaveFails` and `Killed` cut a save short. A change
is named by its invocation and the boot id it was made under. `owed` are the
changes users were told of; the flags `overlapped`, `mangled` and `blind` record
which of the conditions of the properties no longer holds.

*Single flight.* A flight is a `BuildSubscribe`; identities are reused once
nothing holds them, as `shared_ptr` frees them. The wait's predicate is
evaluated under the flight's lock (`Sleep`), `notify_all` happens outside it
(`Notify`), and threads may wake spuriously.

*Coordinator.* `handler[c]` is a thread inside `handle_client`/`process`, at one
of the points where another thread may run: after the request arrived, between
`fence` and the mutation, between the lock that reads the epoch and the one that
reads the boot id, between opening and writing the file. `Crash` and `Restart`
are the process dying and `coordinator_main` starting again with the state
file. The state file is taken to be the one `save` requests name. A worker
that exits leaves its request with the handler; a later worker carries the
envelope on (`--epoch` and `--boot`, given together or not at all). `Publishes` and
`Withdraws` are what the mutations do to the small catalog: a PUBLISH of an artifact
that is there throws, a withdrawal may take dependents along and stop half way.
`published` are the publications of the running process in their order, `resumed` what
it started from, and `past` every pair of authority and catalog a coordinator was in.

## 3. Runs

| Run | Instance | Distinct states | What it shows |
|---|---|---|---|
| `graph` | 5 ids, limit of 4 nodes | 148 thousand | acyclic; the search is exact in every order, ends, and implements `DependencyGraph`; `topological_order` is one |
| `indexes` | 2 artifacts, 2 epochs, a boot id and the unset one, reports that pass, fail and fail a check, envelope generations, publications that fail and a limit of 2 nodes | 168 thousand | indexes never misfile, types and guarded counters hold, nothing withdrawn returns |
| `recovery` | 4 ids, 3 of them ever published, requests refused at every throw point, limit of 3 nodes, restarts | 42 thousand | graph sound even after a refused restart; reference counts exact, published dependencies in the graph through restarts; only failed publications make `load` refuse a dependency |
| `chain` | chain of 3 with shared content | 32 thousand | supersession, causes, accounts, reach of an invalidation |
| `single_flight` | 3 threads, 1 artifact, 4 flights | 5.6 thousand | one producer at a time, one answer, no call hangs, failures can be retried, implements `BuildOnce` |
| `coordinator` | 2 workers, 2 connections, 1 artifact, 3 boot ids | 1.2 million | mutations only under authorities this process held; late and repeated requests publish nothing twice; a restart resumes one moment |
| `transaction` | 2 clients, 2 staged artifacts and a published one, shared content, a digest known beforehand, deliveries as planned and longer, limit of 2 nodes, 1 roll | 427 thousand | reservations and reference counts exact however each transaction ends, aborts leave no record half way, index lookups find nothing before its commit |
| `compat` | all 13 lifecycles by 7 validation states, all pairs of 23 fields at two values, pairs of dependencies | 97 thousand | worst outcome, complete reasons, only fit artifacts |
| `wire` | 3 calls of 4 kinds, frames of 4 bytes, room for 3 | 38 thousand | alignment, answers belong to their calls, callers told the truth, no call hangs, implements `Exchange` |
| `command_line` | 4 invocations, 2 files | 368 thousand | what survives serial, overlapping and interrupted invocations |
| `unpublished`, `resurrection` | the requests of `recovery` without restarts, those of `transaction` as planned | | the disagreements of section 6 |

### Bounds, and why they are enough

* Graph: a cycle that is not an edge or a self loop needs three nodes, a node
  reached by two ways four; five ids with a limit of four also reach the limit.
* `chain`: three artifacts are the least for a dependent that is not direct, and
  `c1` stands behind two of them so that a reference is really shared.
  `recovery` has requests that depend on each other, on themselves, twice on the
  same id, on two ids of which one depends on the other, on an id that is never published, with declared sizes too small, too large and
  missing, and generations unset and at the limit. Its node limit of three is below
  the four ids, so that both kinds of "full" happen: there is no room for the
  artifact's own node, or none for a dependency's.
* `indexes` varies what the others fix (authority, reports, generations) on two
  artifacts: index entries of one artifact never depend on another.
* `MaxEpoch`, `MaxGeneration`, `RefModulus`, `EnvelopeGenerations` bound
  counters. `MaxGeneration = 3` stands for 2^64 - 1, so the overflow is reached.
  `RefModulus = 8` is never reached: an instance's artifacts hold at most four
  references. Counters that would be a 64-bit int in the code and cannot pass
  the number of calls are unbounded integers.
* `single_flight`: an owner, a waiter that sleeps and a late-comer are three
  threads; each can hold one flight and the map another, hence four.
* `coordinator`: two handlers give every pairing of critical sections, three
  boot ids allow two rolls, a roll and a restart, or two restarts. What is said of
  several artifacts (an invalidation takes dependents along) is left to the proofs.
* `transaction`: an interference needs one client and one other caller; leaks and
  double releases show with two transactions over the same content. The
  producer may deliver more than planned, so that the guards of the
  accounts are reached; two nodes of room make `verify_dependencies` run out of it.
* `compat`: outcomes interact in pairs (the second either overrides the first or
  does not), so two failing fields and any state of the artifact are enough;
  more than two failures come with the lifecycle, validation and dependency
  dimensions. `Compat_proofs` has the rest for any question.
* `wire`: a frame longer than the stream has room for makes both partial sends and
  waits for room necessary; a header shorter than the frame makes both reads of
  `recv_frame` partial; the third call comes after a failed and a refused one.
* `command_line`: two invocations that overlap, one that found what they left,
  and one to overwrite it are four. `CommandLine_proofs` has the rest.

`IgnoringIndexes` (a VIEW) drops `index` from the state in `chain`: no action's
guard and no property of that run reads it, so states that differ only there
have the same behaviours otherwise. `WhatIsRead` does the same in `recovery`
for the indexes, the histories and the counters without a guard. `Alike` (SYMMETRY)
permutes workers and connections; nothing tells either apart, no `CHOOSE` is
made over them, and the run has no liveness property. `UpToOtherMoments` keeps of
`coordinator`'s past what a restart may still load: moments that are neither in the
file nor in a handler's hands can be resumed only by being taken again, when they
are the present. `WhatStepsRead` leaves the
accounts no guard reads, the supersessions, the quarantine records, the reserved
bytes of ended transactions, and the index entries and causes of what is no longer
staged out of `transaction`'s states: an artifact that has a record nobody claims is
not claimed again, and no step reads an index. `AnyClient` and the symmetry of
`command_line` permute clients and invocations, under the same conditions.

Deadlock is checked in every run but two: `wire` and `command_line` end when the
calls and invocations they are bounded to have been made, and say
`CHECK_DEADLOCK FALSE`. That no call of `wire` waits for ever is `EveryCallEnds`.

### Fairness

* `GraphSearch`: weak fairness of `Proceed`, the body of a loop that runs on its
  own thread. Nobody has to make another call.
* `SingleFlight`: weak fairness of each thread's `Proceed`: threads are
  scheduled, mutexes are handed on, and producers return. `get_or_build` has no
  timeout, so a producer that hangs hangs its waiters; that is an assumption
  here, not a result. No fairness on callers arriving or on spurious wake-ups.
* `Wire`: weak fairness of what the caller does inside `request` and of what the
  handler does inside `handle_client`, blocking `send` and `recv` included: each is
  a thread that runs, and the network moves what it has accepted or reports that
  it cannot. There is no timeout in the code, so a peer that stays connected and
  silent would block an end for ever; both ends being this program is assumed.
  No fairness on calls, resets or the shutdown.
* `Catalog`, `Transaction`, `Coordinator` and `CommandLine` make no liveness claim: nothing in
  the code retries, and no document promises that a request is granted.

## 4. Properties worth knowing

* `IndexesAgree`: after any call, finished or thrown, an artifact is filed under
  exactly its current state or not at all. "Not at all" is real: a refused
  transition throws between `remove_from_indexes` and `add_to_indexes`.
* `ReferencesExact`: the reference count of a digest is the number of unretired
  records with that digest, failed publications included. The run registers
  only artifacts without content: `register_artifact` takes no reference, and a
  registration that carries a digest breaks the equality when it is retired.
* `ReferencesSurvive`, `DependenciesSurvive`: the same, and that everything a
  published record depends on is in the graph, when restarts come in between.
  They matter after a restart because `retire` and `invalidate` go by what
  `load` has rebuilt.
* `SoundRecordsLoad`: `load` adds edges in the order of ids, `publish` in the
  order of calls, and the cycle test must accept in one order what it accepted
  in the other. It speaks of catalogs all of whose records are live, invalidated,
  superseded or only declared. It excludes failed publications (which do spoil an image, see
  section 6), hence what was retired or quarantined, as a failed publication can be
  too, and the node limit: `add_node` refuses a node it already has when
  the graph is full, so that the image of a catalog exactly at the limit may not
  load. Registrations are taken without dependencies; `register_artifact` checks
  none, and a self-dependent one spoils the image too.
* `InvalidatesOnlyDependents`, `InvalidationComplete`: a call reaches nothing
  but dependents even if it throws, and all of them if it returns.
* `AccountsExact` is about publications that go through with true sizes; the
  failing ones charge backing and never give it back.
* `OrderIsTopological`: Kahn's loop goes by the lengths of the reverse lists and
  along the forward ones; it takes mirrored, acyclic graphs, which is what the
  mutators keep, for it not to throw.
* `ReservationsExact` holds as long as what is produced has the size that was
  reserved: `produce` overwrites `reserved_bytes` and does not adjust the temporary
  bytes `reserve` took, so that a commit of longer content throws half way and
  shorter content leaves temporary bytes behind.
* `StagedReferencesExact` counts the records that had something produced for them, and
  those published directly: a reservation that only names a digest holds no
  reference. It is void once an abort has given back one that was never taken
  (`overdrawn` of `Transaction`; section 6), and not before.
* `StagedStaysHidden`: lookups by index find nothing that is not committed, except
  what an invalidation along its edges has put there. `find` and `reuse` go by id and
  read the records themselves (`catalog.cpp:131-135, 476`): they do see what is staged.
* `OutcomeIsWorst` holds at every step of the comparison, not only at its end, and
  so does not depend on the order of the dimensions.
* `HandsOutTheFit` ties `Catalog::reuse` to what `Catalog` takes it to be. It is
  about direct dependencies: that none further away is withdrawn is not what
  the code ensures (section 6).
* `AnswersAreOurs` holds because every failure of a call comes with the connection:
  a caller that gave up after a timeout would read the old answer next (the
  mutant `ClientTimesOut`).
* `ImplementsExchange`: what a caller is told is true. A send that fails has not handed
  over the last byte, and the handler does nothing before it has it, so that a
  call told "unsent" or "rejected" may safely be made again. And it does it once: a
  handler that cannot send its answer gives up the connection, it does not go back
  to the request.
* `ChangesAreKept`, `SettledChangesStay`: see section 2; the first is void once
  invocations overlap, the second survives that. `OneAuthority` survives everything.
* `ImplementsBuildOnce`: `get_or_build` keeps a promise stated without threads,
  locks or flights: one build, one result, and a caller is told of a failure
  only if a build failed during its own call. It holds when exceptions have a
  message: an empty `what()` is taken for success (`catalog.cpp:25, 40`), the
  outcome `"blank"` of `SingleFlight`, which the run leaves out.
* `AuthorityWasHeld`: epoch and boot id of an answer are read under two locks,
  yet a pair read on either side of a roll is never accepted, because a roll
  changes both halves and a boot id is never drawn twice. It says "held", not
  "current": see section 6.
* `PublishedOnce`: a request outlives the worker that sent it and the next worker sends
  it again over a connection of its own; two handlers may both have passed the fence
  with it. Only the look at `artifacts_` under the lock that also inserts keeps the
  second from publishing.
* `ResumesOneMoment`: saves overlap, each taking its image, emptying the file and writing
  in steps of their own, and a kill cuts them short. What a restart loads is
  nevertheless one moment's authority with the same moment's catalog, since both are
  copied under one lock and a mixture of two images fails its checksum; the moment
  need not be the last one saved.

## 5. Proofs

Every theorem is checked to the last leaf. Assumptions are those the modules
name: ids are a finite set of naturals, requests and envelopes are drawn from
the sets the constants give, connections are finitely many, bounds are natural.

* `GraphOps_proofs`, `AddEdgesAcyclic`: reachability is defined as a least
  closed set, so that no induction is needed; a set closed under the old edges
  that avoids the new edges' source stays closed.
* `GraphSearch_proofs`, the graph: `GraphInv` (types, node bound, acyclic, edges
  join nodes, `in` mirrors `out`) is inductive as it stands.
* `GraphSearch_proofs`, the search: `SearchInv` says that what is visited is
  closed except for what is still on the stack, that everything visited or
  stacked was reached, and that the goal was not visited; with an empty stack
  the visited set is closed and hence is all that is reachable. From it follow
  exactness and the refinement: each step of the loop is a stutter, `Insert` an
  `EdgeAdded`.
* `GraphSearch_proofs`, the order (`OrderStaysTopological`): `Order` is a
  recursive function, of which one must first know that it exists. `RoundsExist`
  has that without an induction rule: the least number of rounds for which there
  were no such function cannot be zero and cannot have a predecessor. The same
  argument (`RoundsLoopInv`) carries `LoopInv` through the rounds: what is
  placed has its dependents placed before it, the counters hold the number of
  those that are not, and ready is who has none of them. An acyclic finite set
  of nodes has one without incoming edges (`SourceExists`, by a smallest set
  again), so that the loop, once it has nothing ready, has placed everything.
* `Catalog_proofs`, the catalog by itself: the type invariant is inductive, but
  only with the counters' guards in it: `retire` subtracts after checking,
  `dedup_bytes` only grows. It is kept in two halves, `RecordsOK` and the
  accounts, as only the latter do not survive a restart unchanged. `GraphSound`
  needs the case of a publication refused at its i-th dependency: the edges
  before it all leave the new node, so the cycle test on the original graph is
  as good as the one the code makes after each insertion. `IndexesAgree` goes
  through one lemma, `Refiles`: any step that removes the old entries of a set
  of artifacts and adds the new ones of some of them keeps the indexes honest.
  `WithdrawnForGood` rests on which target states operations ask for: the table
  alone would let QUARANTINED go back to VALIDATING. `HistoryInv` (supersessions
  and causes) and the reference counts are inductive; the latter under two
  hypotheses: `CountsFit`, fewer artifacts than a count can tell apart, which 64
  bits leave no doubt about, and `BareRegistrations`, registered artifacts have
  no content, which is how the one caller of `register_artifact` uses it
  (`af_cli`'s `register`). Section 4 says what happens without the second.
* `Catalog_proofs`, invalidation: `VisitOrder` is a recursive function over sets
  of artifacts. That it exists on every finite graph, and lists exactly what can
  be reached through artifacts that may be invalidated, is shown by taking a
  smallest set for which it were otherwise. `InvalidationIsRelevant` and
  `InvalidationIsComplete` follow.
* `Catalog_proofs`, restarts: `DependencyInv` (what a published record depends
  on is in the graph, and an unregistered artifact has no edges out) holds again
  after a reload that goes through (a refused one has lost records, see
  `intact`). `RestartsKeepGraphSound` is about both kinds. It cuts the graph
  below the id the reload has come to: what is accepted goes in one id at a
  time, and each addition is tested against the graph that is there
  (`BoundedIds`, `AcceptedAcyclic`). `SoundCatalogsLoad` needs `LoadInv`: the
  graph that the sound records declare (not the one that stands in memory) is
  acyclic, so that no test made while loading, which sees a part of it, can
  fail. Its hypothesis `LooseRegistrations` is the same caller again:
  registrations have no dependencies.
* `Catalog_proofs`, staged publication: `ClaimInv` says that a claimed record is
  one client's, is there and not retired; `HiddenInv` adds what the indexes may
  hold. They give `StagingLeavesNothing`, `StagingStaysHidden` and the sound
  graph when clients and other callers take turns. `StagingCountsReferences` is
  about tables: `Counted` says that the counts are those of a table of carriers,
  and each operation's lemma says how the table changes with the counts. An
  abort before produce takes from a count that its record is not in, so the
  theorem speaks up to the first abort that does so to a stored digest; it has `CountsFit` as its one hypothesis.
* `Catalog_proofs`, sums: `Total` is a fold the provers cannot look into. It is
  characterised by how it changes with one member, again by a smallest set for
  which it did not. On it rest `ReservationsStayExact` (with `ReservedInv`: a
  delivery as planned overwrites the reserved bytes by the same number) and
  `AccountsStayExact` (with `AccountInv`). The latter is a theorem about callers
  who declare true sizes (`TrueSizes`), publish instead of registering, and
  whose publications do not fail at the graph, each of which is necessary
  (sections 4 and 6), with counts that do not wrap.
* `Coordinator_proofs`: `CoordinatorInv` adds to the types that an authority
  past the fence is in `held`, that a closed or dead coordinator has no request
  under way, that epochs never run ahead of the boot ids drawn, and that a boot
  id is left for each roll under way. `AuthorityWasHeld` follows. `HistoryInv`
  ties the catalog to what was done: whatever the coordinator started with or
  has published since is in it, if only withdrawn, so that a handler whose
  publication is accepted, however long ago it passed the fence, publishes what
  nobody published (`PublishesOnce`). And it ties images to moments: one that a
  handler is saving or that the file holds is what the coordinator had at one
  time, and no moment has a boot id that is not drawn
  (`RestartsResumeMoments`).
* `Compat_proofs`: the invariant says of every moment that the failed dimensions
  are those before `at` that fail, and the same of the gates; that the outcome
  is the one of a failed dimension and at least as severe as all of them; and
  that no dimension fails with severity zero. `ExactVerdict` follows at the end
  of the walk, `OnlyTheFit` from it by looking at single gates. For
  `CompleteReasons`, `ListInv` says of each list that it holds the names at the
  failing positions passed so far, in their order; appending the next one keeps
  that, since it stands behind them all.
* `SingleFlight_proofs`: `FlightInv` (types, who holds which flight, one
  artifact per flight, an unclaimed flight is still in the map, at most one
  owner of a flight, and it owns what the map has) is inductive and gives
  `OneProducer`. `OutcomeInv` adds what the refinement asks about results: a
  settled flight has its owner's outcome, only a failed flight leaves the map
  while somebody holds it, and what is published came from the flight in the
  map. `GetOrBuildImplementsBuildOnce` has one hypothesis,
  `FailuresHaveMessages`: no producer throws an exception with an empty
  `what()`; with one the code breaks its promise (`catalog.cpp:25, 40`).
* `Wire_proofs`: `WireInv` follows the bytes. What one end has got and what is
  under way to it are, in this order, the beginning of one frame (`ToClient`,
  `ToServer`); while the connection holds, a call is being sent, asked, being
  answered or answered, and both ends agree which (`InStep`); what was carried
  out is a request whose caller was told nothing else (`Fair`).
  `FramesStayAligned`, `CallersReadTheirAnswers` and `WireImplementsExchange`
  follow, for every length of frames and headers, every room in the streams and
  every number of calls.
* `CommandLine_proofs`: `ChangesAreKept` needs to know, while one invocation
  runs alone, where the owed changes are: in the file until it is opened for
  writing, in the process from then on. `SettledChangesStay` needs that every
  catalog of an unblinded run holds what was settled when the runs began.
  `OneAuthority` is inductive once it is stated of catalogs in processes as
  well.

The type invariants of `Coordinator`, `Compat` and `CommandLine`,
`GraphWellFormed` of `DependencyGraph`, `DependenciesInGraph` and
`ReferencesExact` of `Catalog` and `VerdictIsExact` of `Compat` are proved and
checked by no run of their own; the inductive invariants contain them,
`GraphSound`, `DependenciesSurvive` and `ReferencesSurvive` check the catalog's
on the states with restarts, and `HandsOutTheFit` follows from the verdict's
exactness.

Every safety property of the passing runs is a theorem. Model-checked only:
liveness (`EveryCallEnds` of the graph and of the wire, `EveryCallReturns`,
`FailureIsForgotten`, `EveryRequestAnswered`), which is out of the prover's
reach, as is `ENABLED`. Where induction over data was needed (the order, the
visits, the sums), the library's induction theorems could not be used, and an
argument by a least number or a smallest set takes their place.

What a theorem takes as a hypothesis, the run of its property keeps to as well:
registrations in `recovery` are bare and without dependencies, `chain` has none,
declares true sizes and has room for every node, `RefModulus` is above the
number of artifacts, and `single_flight` leaves `"blank"` out.

## 6. Where the code disagrees with what is said of it

Two disagreements are runs whose property quotes the promise and whose
counterexample TLC finds.

| Run | Said | Done |
|---|---|---|
| `unpublished` | `README.md:85-86`: a failure before the commit never becomes authoritative | a failed publication's record stays; `validate_artifact` stores its report before the transition is refused, and `reuse` accepts a BUILDING record that is VALID |
| `resurrection` | `README.md:94-97`: illegal transitions fail deterministically | `PublishTransaction::commit` sets PUBLISHED without asking the table: an artifact invalidated along its edges after its dependencies were verified is published by the commit |

Others were seen while modelling and have no run:

* Freshness. `compat.cpp:98` calls dependency freshness transitive; it asks direct
  dependencies only, and `retire` does not propagate. `README.md:79` says stale
  dependency generations are rejected; no code compares them. Specialization
  is compared with the shape. `require_reusable` lets STALE, DECLARED and
  BUILDING pass.
* Authority. `authority.hpp:17-19` rejects mutations under an envelope no longer current;
  `fence` (`catalog.cpp:63-70`) takes and releases a lock of its own before the mutation
  takes the catalog's (`catalog.cpp:223`), and a roll by another handler fits in between.
  `authority.hpp:12` has the epoch increase monotonically; a restart takes it back
  to one or to that of the image last saved.
* Reuse. `reuse.hpp:2-3` has no lookup bypass reuse eligibility; `get_or_build` answers from
  any flight that ever succeeded. `explain` calls reusable only what is VALID and
  live, while `publish` leaves an artifact at INTEGRITY_OK, which `reuse` accepts.
* Recovery. `README.md:112-115` has recovery restore everything; a failed publication's
  record carries dependencies that `add_edge` refuses, `load` throws there after
  clearing the catalog, and the coordinator goes on with the rest missing
  (`af_coordinator.cpp:21-24`). A reload counts retired artifacts in the accounts again.
* Publication. `README.md:87` has accounting roll back exactly; a failed `publish` charges
  backing and never gives it back, and `commit` charges backing for content that is
  shared. `README.md:88-90` lists what `promote` requires; it asks for a legal transition
  only. `reserve` keeps the digest its descriptor came with (`catalog.cpp:287-296`) and
  takes no reference; an abort before produce (`catalog.cpp:356-358`) gives one back
  all the same, and may erase content that a published artifact still has, where
  `README.md:85-87` has prior valid state remain. An abort leaves the edges its verification added, so that a retry is
  refused as a duplicate edge. Retiring a staged artifact by its id and then
  aborting the transaction gives its reference back twice; the model has other
  callers name no staged artifact.
* Lifecycle. `invalidate` stops with an exception at the first dependent that cannot be
  invalidated (a superseded one will do) and leaves live dependents behind it. A
  PUBLISHED artifact can never be validated, since PUBLISHED to VALID is no
  transition, and the attempt drops it from the indexes. A registered artifact
  can never be published. `register` then `retire` takes `logical_artifacts` below zero. A
  retirement whose declared size is not the stored one leaves a store entry
  without references. A supersession may name the artifact itself or close a
  cycle. STALE and EVICTED are reached by no operation.
* Wire. A request received after the shutdown is still processed. The type of an
  answer is not looked at, nor does it say which request it answers. Content
  that makes a payload too long has `encode_frame` throw out of `request`.
* Command line. A state file that cannot be loaded is passed over and overwritten at
  exit; commands that only read save too, and overlapping invocations lose
  each other's updates although `af_cli.cpp:67` calls the tool stateful.

## 7. Not modelled, and why

* The byte encoding of an image, of a descriptor and of a message, and images
  `save` did not write: the checks of checksum, magic, schema, lengths and field
  order are input validation on pure functions. In `Coordinator` an image is
  restored whole or not at all; in `Wire` a frame decodes if it is whole and not damaged.
* The next generation of an artifact is read before `publish` takes the lock
  (`catalog.cpp:230`), and `reserve` reads and writes it without one
  (`catalog.cpp:288-289`): two overlapping calls may get the same number. The
  models draw it within the call; no property here rests on different artifacts
  having different generations. Listed as a hazard.
* An invocation of the tool that loads half an image: `load` refuses a dependency
  or an artifact too many after it has filled part of the catalog. No command
  of the tool makes dependencies, and the limit is 2^20 artifacts; `CommandLine`
  starts from nothing when an image cannot be loaded. `Persistence` has the
  refused load with what it leaves behind.
* Connecting, listening and accepting: one call each, without state beyond the socket.
* `closure` and `dependency_digest`: a sort and a hash over what `GraphSearch` computes.
* Data races on a record that `find` returned a pointer to, and detached
  handler threads at shutdown: undefined behaviour on contents the models keep
  abstract; listed as hazards with that note.
* `explain`, placement, digests, CUDA proof, benchmarks, examples:
  formatting, pure functions and drivers. Placement metadata is read by
  nothing but `Catalog::reuse`'s question whether one copy is intact, which `Compat` has.

## 8. What could be added

1. `AccountsExact` for catalogs in which publications fail: what is charged and never
   given back could be counted, so that the accounts are the catalog plus that.
2. That saving what was loaded changes nothing, and `IndexesAgree` with restarts and with
   staged publications, which `Spec` alone is proved to have.
3. The `Coordinator`'s small catalog as a refinement of `Catalog`.
4. The race between QUERY's copy and a concurrent mutation, with records of two
   fields that are written one after the other.
