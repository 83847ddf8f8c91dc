----------------------------- MODULE Coordinator -----------------------------
(***************************************************************************)
(* The coordinator process and its workers (distributed.cpp,               *)
(* af_coordinator.cpp, af_worker.cpp): one handler thread per connection,  *)
(* each request taken through the critical sections of the catalog one at  *)
(* a time, so that anything may happen between the authority check and     *)
(* the mutation it admits, and between the two reads an answer is made of. *)
(* The coordinator may be killed at any moment and started again on the    *)
(* image last saved; a worker may vanish with its request under way.       *)
(*                                                                         *)
(* What a mutation does to the catalog is module Catalog's; here an        *)
(* artifact is absent (never published to its end), published or withdrawn *)
(* (superseded, invalidated or retired), and INVALIDATE, SUPERSEDE and     *)
(* RETIRE are one request, WITHDRAW.  VALIDATE passes the same fence and   *)
(* then changes nothing here: no transition leads from PUBLISHED to VALID  *)
(* or FAILED, so that it goes the way of a WITHDRAW that is rejected.  A   *)
(* boot id is drawn at random and taken to be new.                         *)
(***************************************************************************)
EXTENDS Naturals, FiniteSets, Sequences

CONSTANTS
  Workers, Connections, Artifacts,
  NoOne,      \* no connection
  MaxBoots    \* bound on the boot ids drawn, and so on rolls and restarts

ASSUME MaxBootsAssumption == MaxBoots \in Nat \ {0}
ASSUME ConnectionsAssumption == IsFiniteSet(Connections) /\ NoOne \notin Connections

Authorities == [epoch : 0..MaxBoots, boot : 0..MaxBoots]
Unset == [epoch |-> 0, boot |-> 0]

Catalogs == [Artifacts -> {"absent", "published", "withdrawn"}]
EmptyCatalog == [a \in Artifacts |-> "absent"]

Images == [authority : Authorities, catalog : Catalogs]
NoImage == [authority |-> Unset, catalog |-> EmptyCatalog]

(* The catalog file: not there, opened and not yet written to the end, made *)
(* of two images, or one image.                                            *)
Files == [holds : {"nothing", "no bytes", "debris", "image"}, image : Images]
File(what) == [holds |-> what, image |-> NoImage]

Mutations == {"PUBLISH", "WITHDRAW"}

Requests ==
  [type : {"HELLO", "ROLL", "SAVE"}, artifact : {NoOne}, authority : {Unset}]
    \cup [type : Mutations, artifact : Artifacts, authority : Authorities]

NoRequest == [type |-> "NONE", artifact |-> NoOne, authority |-> Unset]

(* A connection's handler: where it is, the request in its hands, the      *)
(* epoch and boot id of its answer, and the image it is about to write.    *)
Closed == [at |-> "closed", request |-> NoRequest, answer |-> Unset, image |-> NoImage]

Places == {"closed", "receiving", "arrived", "fenced", "readEpoch", "readBoot",
           "opening", "writing", "answered"}

Handlers == [at : Places, request : Requests \cup {NoRequest}, answer : Authorities, image : Images]

VARIABLES
  up,         \* the coordinator process runs
  authority,  \* epoch_ and boot_
  catalog,    \* what stands for artifacts_
  drawn,      \* how many boot ids have been drawn
  handler,    \* handle_client, for each connection
  file,       \* the catalog file
  link,       \* the connection each worker has open
  envelope,   \* the authority each worker acts under
  held,       \* the authorities the running coordinator has had
  resumed,    \* the catalog it started with
  published,  \* the publications it has carried out since, in order
  past        \* the authorities and catalogs of all coordinators at all times

mutable == <<authority, catalog>>
records == <<held, resumed, published, past>>
coordinator == <<up, mutable, drawn, records>>
workers == <<link, envelope>>

vars == <<coordinator, handler, file, workers>>

Moment == [authority |-> authority, catalog |-> catalog]

Init ==
  /\ up = TRUE
  /\ authority = [epoch |-> 1, boot |-> 1]
  /\ catalog = EmptyCatalog
  /\ drawn = 1
  /\ handler = [c \in Connections |-> Closed]
  /\ file = File("nothing")
  /\ link = [w \in Workers |-> NoOne]
  /\ envelope = [w \in Workers |-> Unset]
  /\ held = {authority}
  /\ resumed = EmptyCatalog
  /\ published = << >>
  /\ past = {Moment}

-----------------------------------------------------------------------------
(* Workers. *)

Connect(w, c) ==
  /\ up /\ link[w] = NoOne /\ handler[c].at = "closed"
  /\ link' = [link EXCEPT ![w] = c]
  /\ handler' = [handler EXCEPT ![c].at = "receiving"]
  /\ UNCHANGED <<coordinator, file, envelope>>

RollsUnderWay == Cardinality({c \in Connections : handler[c].request.type = "ROLL"})

(* WorkerClient::request sends one request and waits for its answer.       *)
(* Boot ids are left for the rolls that are under way.                     *)
Send(w, r) ==
  /\ link[w] # NoOne /\ handler[link[w]].at = "receiving"
  /\ r.type = "ROLL" => drawn + RollsUnderWay < MaxBoots
  /\ r.type \in Mutations => r.authority = envelope[w] /\ r.authority # Unset
  /\ handler' = [handler EXCEPT ![link[w]].at = "arrived", ![link[w]].request = r]
  /\ UNCHANGED <<coordinator, file, workers>>

(* A worker acts under what it has been told now or under what it was      *)
(* started with (--epoch and --boot, given together or not at all).        *)
TakeAnswer(w) ==
  LET answer == handler[link[w]].answer
  IN  /\ link[w] # NoOne /\ handler[link[w]].at = "answered"
      /\ \E e \in {envelope[w]} \cup (IF answer = Unset THEN {} ELSE {answer}) :
           envelope' = [envelope EXCEPT ![w] = e]
      /\ handler' = [handler EXCEPT ![link[w]] = [Closed EXCEPT !.at = "receiving"]]
      /\ UNCHANGED <<coordinator, file, link>>

(* A worker exits or is killed; a later one carries its envelope on. *)
Vanish(w) ==
  /\ link[w] # NoOne
  /\ link' = [link EXCEPT ![w] = NoOne]
  /\ UNCHANGED <<coordinator, handler, file, envelope>>

-----------------------------------------------------------------------------
(* handle_client and process. *)

Handles(c, place) == handler[c].at = place

GoesTo(c, place) == handler' = [handler EXCEPT ![c].at = place]

(* The handler is done with the request and has sent its answer. *)
Answers(c, answer) ==
  handler' = [handler EXCEPT ![c] = [Closed EXCEPT !.at = "answered", !.answer = answer]]

(* It has done what was asked and goes on to say under which authority. *)
Reports(c) == handler' = [handler EXCEPT ![c] = [Closed EXCEPT !.at = "readEpoch"]]

(* A slip: the epoch is enough. *)
EpochCurrent(e) == e.epoch = authority.epoch

Current(e) == e = authority

(* Catalog::fence, under a lock of its own. *)
Fence(c) ==
  /\ Handles(c, "arrived") /\ handler[c].request.type \in Mutations
  /\ IF Current(handler[c].request.authority) THEN GoesTo(c, "fenced") ELSE Answers(c, Unset)
  /\ UNCHANGED <<coordinator, file, workers>>

(* A slip: whether the artifact is there is not asked again under the lock. *)
PublishesAnything(c) ==
  LET a == handler[c].request.artifact
  IN  /\ handler[c].request.type = "PUBLISH"
      /\ catalog' = [catalog EXCEPT ![a] = "published"]
      /\ published' = Append(published, a)
      /\ Reports(c)

Publishes(c) ==
  LET a == handler[c].request.artifact
  IN  /\ handler[c].request.type = "PUBLISH"
      /\ catalog[a] = "absent"
      /\ catalog' = [catalog EXCEPT ![a] = "published"]
      /\ published' = Append(published, a)
      /\ Reports(c)

(* An invalidation takes dependents along, those of an artifact that is    *)
(* withdrawn already included, and may stop half way.                      *)
Withdraws(c) ==
  LET a == handler[c].request.artifact
  IN  /\ handler[c].request.type = "WITHDRAW"
      /\ catalog[a] # "absent"
      /\ \E gone \in SUBSET {b \in Artifacts : catalog[b] = "published"} \ {{}} :
           /\ catalog[a] = "published" => a \in gone
           /\ catalog' = [b \in Artifacts |-> IF b \in gone THEN "withdrawn" ELSE catalog[b]]
      /\ Answers(c, Unset)
      /\ UNCHANGED published

(* The rest of the call, under the catalog's lock. *)
Apply(c) ==
  /\ Handles(c, "fenced")
  /\ Publishes(c) \/ Withdraws(c)
  /\ UNCHANGED <<up, authority, drawn, held, resumed, file, workers>>
  /\ past' = past \cup {Moment'}

(* The call throws, or has nothing to do: the artifact is there already or *)
(* is not there, a dependency or a transition is refused, or a withdrawn   *)
(* one is invalidated once more, or retired.                               *)
Reject(c) ==
  /\ Handles(c, "fenced")
  /\ Answers(c, Unset)
  /\ UNCHANGED <<coordinator, file, workers>>

Hello(c) ==
  /\ Handles(c, "arrived") /\ handler[c].request.type = "HELLO"
  /\ Reports(c)
  /\ UNCHANGED <<coordinator, file, workers>>

(* roll_epoch: asks for no authority. *)
Roll(c) ==
  /\ Handles(c, "arrived") /\ handler[c].request.type = "ROLL"
  /\ drawn' = drawn + 1
  /\ authority' = [epoch |-> authority.epoch + 1, boot |-> drawn']
  /\ held' = held \cup {authority'}
  /\ Reports(c)
  /\ UNCHANGED <<up, catalog, resumed, published, file, workers>>
  /\ past' = past \cup {Moment'}

(* cat_.epoch() and cat_.boot(): two locks, two moments. *)
ReadEpoch(c) ==
  /\ Handles(c, "readEpoch")
  /\ handler' = [handler EXCEPT ![c].at = "readBoot", ![c].answer.epoch = authority.epoch]
  /\ UNCHANGED <<coordinator, file, workers>>

ReadBoot(c) ==
  /\ Handles(c, "readBoot")
  /\ Answers(c, [handler[c].answer EXCEPT !.boot = authority.boot])
  /\ UNCHANGED <<coordinator, file, workers>>

(* save_file: the image is taken under the lock, the file opened and       *)
(* emptied, and the image written, with nothing to keep other saves away.  *)
TakeImage(c) ==
  /\ Handles(c, "arrived") /\ handler[c].request.type = "SAVE"
  /\ handler' = [handler EXCEPT ![c] = [Closed EXCEPT !.at = "opening", !.image = Moment]]
  /\ UNCHANGED <<coordinator, file, workers>>

(* A slip: the image is stamped with the authority of a later moment. *)
OpenFileStamping(c) ==
  /\ Handles(c, "opening")
  /\ file' = File("no bytes")
  /\ handler' = [handler EXCEPT ![c].at = "writing", ![c].image.authority = authority]
  /\ UNCHANGED <<coordinator, workers>>

OpenFile(c) ==
  /\ Handles(c, "opening")
  /\ file' = File("no bytes")
  /\ GoesTo(c, "writing")
  /\ UNCHANGED <<coordinator, workers>>

(* What the file holds once an image is written over its beginning: images *)
(* of different catalogs differ in length, and the longer one's tail stays. *)
Overwritten(image) ==
  LET written == [holds |-> "image", image |-> image]
      fits == \/ file.holds = "no bytes"
              \/ file.holds = "image" /\ file.image.catalog = image.catalog
  IN  IF fits THEN {written} ELSE {written, File("debris")}

WriteFile(c) ==
  /\ Handles(c, "writing")
  /\ file' \in Overwritten(handler[c].image)
  /\ Answers(c, Unset)
  /\ UNCHANGED <<coordinator, workers>>

Linked(c) == \E w \in Workers : link[w] = c

(* With nobody at the other end the handler's next send or receive fails. *)
HangUp(c) ==
  /\ handler[c].at \in {"receiving", "answered"} /\ ~Linked(c)
  /\ handler' = [handler EXCEPT ![c] = Closed]
  /\ UNCHANGED <<coordinator, file, workers>>

-----------------------------------------------------------------------------
(* The coordinator process. *)

Crash ==
  /\ up /\ drawn < MaxBoots
  /\ up' = FALSE
  /\ handler' = [c \in Connections |-> Closed]
  /\ link' = [w \in Workers |-> NoOne]
  /\ UNCHANGED <<mutable, drawn, records, file, envelope>>

(* The constructor draws a boot id for epoch 1; then the image is loaded,  *)
(* if there is a file and its checksum is right.                           *)
Restart ==
  LET image == IF file.holds = "image" THEN file.image
               ELSE [authority |-> [epoch |-> 1, boot |-> drawn'], catalog |-> EmptyCatalog]
  IN  /\ ~up
      /\ up' = TRUE
      /\ drawn' = drawn + 1
      /\ authority' = image.authority
      /\ catalog' = image.catalog
      /\ held' = {authority'}
      /\ resumed' = catalog'
      /\ published' = << >>
      /\ past' = past \cup {Moment'}
      /\ UNCHANGED <<handler, file, workers>>

-----------------------------------------------------------------------------
Handle(c) ==
  \/ Fence(c) \/ Apply(c) \/ Reject(c) \/ Hello(c) \/ Roll(c)
  \/ ReadEpoch(c) \/ ReadBoot(c)
  \/ TakeImage(c) \/ OpenFile(c) \/ WriteFile(c)
  \/ HangUp(c)

Work(w) ==
  \/ \E c \in Connections : Connect(w, c)
  \/ \E r \in Requests : Send(w, r)
  \/ TakeAnswer(w)
  \/ Vanish(w)

Next ==
  \/ \E w \in Workers : Work(w)
  \/ \E c \in Connections : Handle(c)
  \/ Crash
  \/ Restart

Spec == Init /\ [][Next]_vars

-----------------------------------------------------------------------------
ProcessTypes ==
  /\ up \in BOOLEAN
  /\ authority \in Authorities
  /\ catalog \in Catalogs
  /\ drawn \in 1..MaxBoots
  /\ handler \in [Connections -> Handlers]
  /\ file \in Files
  /\ link \in [Workers -> Connections \cup {NoOne}]
  /\ envelope \in [Workers -> Authorities]
  /\ held \subseteq Authorities
  /\ \A w \in Workers : link[w] # NoOne => handler[link[w]].at # "closed"

TypeOK ==
  /\ ProcessTypes
  /\ resumed \in Catalogs
  /\ published \in Seq(Artifacts)
  /\ past \subseteq Images

(* Nothing is done in anybody's name but the coordinator's own: a mutation *)
(* is only ever applied under an authority this very process has held,     *)
(* never under one of an earlier process it did not restore, nor under an  *)
(* epoch and a boot id that were read on either side of a roll.            *)
AuthorityWasHeld ==
  [][\A c \in Connections :
       Apply(c) => handler[c].request.authority \in held]_vars

(* Late, repeated and abandoned requests do no harm: although a request    *)
(* outlives the worker that sent it, and the next worker makes it again    *)
(* over a connection of its own, a coordinator publishes an artifact once, *)
(* and none that it found published or withdrawn when it started.          *)
PublishedOnce ==
  \A i \in 1..Len(published) :
    /\ resumed[published[i]] = "absent"
    /\ \A j \in 1..(i - 1) : published[j] # published[i]

(* A restart resumes a state that a coordinator was in: authority and      *)
(* catalog of one moment, whatever saves overlapped and wherever a kill    *)
(* cut them short, or else nothing, under a boot id nobody has seen.       *)
ResumesOneMoment ==
  [][Restart =>
       \/ Moment' \in past
       \/ /\ catalog' = EmptyCatalog
          /\ \A m \in past : m.authority.boot # authority'.boot]_vars
=============================================================================
