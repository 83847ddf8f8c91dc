------------------------- MODULE Coordinator_proofs -------------------------
(***************************************************************************)
(* Proofs about the coordinator, for every number of workers, connections  *)
(* and artifacts and every bound on rolls and restarts.                    *)
(***************************************************************************)
EXTENDS Coordinator, FiniteSetTheorems, SequenceTheorems, TLAPS

(* What holds of the handlers' hands: boot ids are left for the rolls      *)
(* under way, nothing survives a crash, and an authority that passed the   *)
(* fence has been this process's own.                                      *)
HandlersInv ==
  /\ handler \in [Connections -> Handlers]
  /\ drawn + RollsUnderWay <= MaxBoots
  /\ \A c \in Connections :
       /\ handler[c].at # "closed" => up
       /\ handler[c].at = "fenced" =>
            /\ handler[c].request.authority \in held
            /\ handler[c].request.type \in Mutations
       /\ handler[c].image.authority.epoch <= drawn
  /\ \A w \in Workers : link[w] # NoOne => handler[link[w]].at # "closed"

(* Epochs are never ahead of the boot ids drawn. *)
CoordinatorInv ==
  /\ ProcessTypes
  /\ HandlersInv
  /\ authority \in held
  /\ authority.epoch <= drawn
  /\ file.image.authority.epoch <= drawn
  /\ ~up => drawn < MaxBoots /\ \A c \in Connections : handler[c] = Closed

LEMMA RecordTypes ==
  /\ Unset \in Authorities
  /\ EmptyCatalog \in Catalogs
  /\ NoImage \in Images
  /\ Closed \in Handlers
  /\ \A what \in {"nothing", "no bytes", "debris", "image"} : File(what) \in Files
<1>1. Unset \in Authorities
  BY MaxBootsAssumption DEF Unset, Authorities
<1>2. EmptyCatalog \in Catalogs
  BY DEF EmptyCatalog, Catalogs
<1>3. NoImage \in Images
  BY <1>1, <1>2 DEF NoImage, Images
<1>4. Closed \in Handlers
  BY <1>1, <1>3 DEF Closed, Handlers, Places
<1>5. QED
  BY <1>1, <1>2, <1>3, <1>4 DEF File, Files

LEMMA RollsFinite ==
  /\ IsFiniteSet({c \in Connections : handler[c].request.type = "ROLL"})
  /\ RollsUnderWay \in Nat
BY ConnectionsAssumption, FS_Subset, FS_CardinalityType DEF RollsUnderWay

LEMMA InitCoordinatorInv == Init => CoordinatorInv
<1> SUFFICES ASSUME Init PROVE CoordinatorInv
  OBVIOUS
<1>1. authority \in Authorities /\ authority.epoch = 1
  BY MaxBootsAssumption DEF Init, Authorities
<1>2. \A c \in Connections : handler[c] = Closed
  BY DEF Init
<1>3. RollsUnderWay = 0
  <2>1. {c \in Connections : handler[c].request.type = "ROLL"} = {}
    BY <1>2 DEF Closed, NoRequest
  <2>2. QED
    BY <2>1, FS_EmptySet DEF RollsUnderWay
<1>4. HandlersInv
  <2>1. handler \in [Connections -> Handlers]
    BY RecordTypes DEF Init
  <2>2. \A c \in Connections : handler[c].at = "closed" /\ handler[c].image.authority.epoch = 0
    BY <1>2 DEF Closed, NoImage, Unset
  <2>3. QED
    BY <1>3, <2>1, <2>2, MaxBootsAssumption DEF Init, HandlersInv
<1>5. file \in Files /\ file.image.authority.epoch = 0
  BY RecordTypes DEF Init, File, NoImage, Unset
<1>6. ProcessTypes
  <2>1. up \in BOOLEAN /\ drawn \in 1..MaxBoots /\ held \subseteq Authorities
    BY <1>1, MaxBootsAssumption DEF Init
  <2>2. /\ catalog \in Catalogs
        /\ link \in [Workers -> Connections \cup {NoOne}]
        /\ envelope \in [Workers -> Authorities]
        /\ \A w \in Workers : link[w] = NoOne
    BY RecordTypes DEF Init
  <2>3. QED
    BY <1>1, <1>4, <1>5, <2>1, <2>2 DEF HandlersInv, ProcessTypes
<1>7. QED
  BY <1>1, <1>4, <1>5, <1>6 DEF Init, CoordinatorInv

(* A handler moves on with h in its hands. *)
LEMMA HandlerMoves ==
  ASSUME CoordinatorInv, NEW c \in Connections, NEW h \in Handlers, up,
         handler' = [handler EXCEPT ![c] = h],
         UNCHANGED <<up, drawn, held, link>>,
         h.request.type = "ROLL" => handler[c].request.type = "ROLL",
         h.at = "fenced" => /\ h.request.authority \in held
                            /\ h.request.type \in Mutations,
         h.image.authority.epoch <= drawn,
         h.at = "closed" => ~Linked(c)
  PROVE  HandlersInv'
<1>1. handler \in [Connections -> Handlers] /\ link \in [Workers -> Connections \cup {NoOne}]
  BY DEF CoordinatorInv, ProcessTypes
<1>2. handler' \in [Connections -> Handlers]
  BY <1>1
<1>3. drawn' + RollsUnderWay' <= MaxBoots
  <2>1. {x \in Connections : handler'[x].request.type = "ROLL"}
          \subseteq {x \in Connections : handler[x].request.type = "ROLL"}
    BY <1>1
  <2>2. RollsUnderWay' <= RollsUnderWay /\ RollsUnderWay' \in Nat
    BY <2>1, RollsFinite, FS_Subset, FS_CardinalityType DEF RollsUnderWay
  <2>3. drawn \in Nat /\ drawn' = drawn /\ drawn + RollsUnderWay <= MaxBoots
    BY MaxBootsAssumption DEF CoordinatorInv, HandlersInv, ProcessTypes
  <2>4. RollsUnderWay \in Nat
    BY RollsFinite
  <2>5. QED
    BY <2>2, <2>3, <2>4, MaxBootsAssumption DEF RollsUnderWay
<1>4. \A x \in Connections :
        /\ (handler[x].at # "closed" => up)'
        /\ handler'[x].at = "fenced" =>
             /\ handler'[x].request.authority \in held'
             /\ handler'[x].request.type \in Mutations
        /\ handler'[x].image.authority.epoch <= drawn'
  BY <1>1 DEF CoordinatorInv, HandlersInv
<1>5. \A w \in Workers : link'[w] # NoOne => handler'[link'[w]].at # "closed"
  BY <1>1, ConnectionsAssumption DEF CoordinatorInv, HandlersInv, Linked
<1>6. QED
  BY <1>2, <1>3, <1>4, <1>5 DEF HandlersInv

(* Steps that leave the coordinator's own state alone, but for the catalog. *)
LEMMA RestUnmoved ==
  ASSUME CoordinatorInv, HandlersInv', up,
         UNCHANGED <<up, authority, drawn, held>>,
         catalog' \in Catalogs,
         file' \in Files, file'.image.authority.epoch <= drawn,
         link' \in [Workers -> Connections \cup {NoOne}],
         envelope' \in [Workers -> Authorities]
  PROVE  CoordinatorInv'
BY DEF CoordinatorInv, ProcessTypes, HandlersInv

(* What a handler can hold next, out of what it holds. *)
LEMMA HandlerTypes ==
  ASSUME CoordinatorInv, NEW c \in Connections
  PROVE  /\ handler[c] \in Handlers
         /\ \A place \in Places : [handler[c] EXCEPT !.at = place] \in Handlers
         /\ \A place \in Places : [Closed EXCEPT !.at = place] \in Handlers
         /\ \A place \in Places, answer \in Authorities :
              [Closed EXCEPT !.at = place, !.answer = answer] \in Handlers
         /\ Closed.request.type = "NONE" /\ Closed.image.authority.epoch = 0
         /\ drawn \in Nat /\ 0 <= drawn
<1>1. handler[c] \in Handlers /\ drawn \in Nat /\ 0 <= drawn
  BY MaxBootsAssumption DEF CoordinatorInv, ProcessTypes
<1>2. Closed.request.type = "NONE" /\ Closed.image.authority.epoch = 0
  BY DEF Closed, NoRequest, NoImage, Unset
<1>3. QED
  BY <1>1, <1>2, RecordTypes DEF Handlers

LEMMA AnswersInv ==
  ASSUME CoordinatorInv, NEW c \in Connections, NEW answer \in Authorities, up,
         Answers(c, answer), UNCHANGED <<up, drawn, held, link>>
  PROVE  HandlersInv'
<1> DEFINE h == [Closed EXCEPT !.at = "answered", !.answer = answer]
<1>1. h \in Handlers /\ h.at = "answered" /\ h.request.type = "NONE"
        /\ h.image.authority.epoch <= drawn
  BY HandlerTypes DEF Places, Closed
<1>2. handler' = [handler EXCEPT ![c] = h]
  BY DEF Answers
<1> HIDE DEF h
<1>3. QED
  BY <1>1, <1>2, HandlerMoves

LEMMA ReportsInv ==
  ASSUME CoordinatorInv, NEW c \in Connections, up,
         Reports(c), UNCHANGED <<up, drawn, held, link>>
  PROVE  HandlersInv'
<1> DEFINE h == [Closed EXCEPT !.at = "readEpoch"]
<1>1. h \in Handlers /\ h.at = "readEpoch" /\ h.request.type = "NONE"
        /\ h.image.authority.epoch <= drawn
  BY HandlerTypes DEF Places, Closed
<1>2. handler' = [handler EXCEPT ![c] = h]
  BY DEF Reports
<1> HIDE DEF h
<1>3. QED
  BY <1>1, <1>2, HandlerMoves

(* A handler that is somewhere is one of a running coordinator. *)
LEMMA AtWork ==
  ASSUME CoordinatorInv, NEW c \in Connections, NEW place, place # "closed", Handles(c, place)
  PROVE  up /\ handler[c].at = place
BY DEF CoordinatorInv, HandlersInv, Handles

LEMMA FenceInv ==
  ASSUME CoordinatorInv, NEW c \in Connections, Fence(c)
  PROVE  CoordinatorInv'
<1>1. up
  BY AtWork DEF Fence
<1>2. HandlersInv'
  <2>1. CASE Current(handler[c].request.authority)
    <3> DEFINE h == [handler[c] EXCEPT !.at = "fenced"]
    <3>0. handler[c] \in Handlers
      BY HandlerTypes
    <3>1. /\ h \in Handlers /\ h.at = "fenced"
          /\ h.request = handler[c].request /\ h.image = handler[c].image
      BY <3>0 DEF Places, Handlers
    <3>2. handler' = [handler EXCEPT ![c] = h]
      BY <2>1 DEF Fence, GoesTo
    <3>3. h.request.authority \in held /\ h.request.type \in Mutations
      BY <2>1, <3>1 DEF Fence, Current, CoordinatorInv
    <3>4. h.image.authority.epoch <= drawn
      BY <3>1 DEF CoordinatorInv, HandlersInv
    <3>5. UNCHANGED <<up, drawn, held, link>>
      BY DEF Fence, coordinator, mutable, records, workers
    <3> HIDE DEF h
    <3>6. QED
      BY <1>1, <3>1, <3>2, <3>3, <3>4, <3>5, HandlerMoves
  <2>2. CASE ~Current(handler[c].request.authority)
    BY <1>1, <2>2, RecordTypes, AnswersInv DEF Fence, coordinator, mutable, records, workers
  <2>3. QED
    BY <2>1, <2>2
<1>3. QED
  BY <1>1, <1>2, RestUnmoved DEF Fence, coordinator, mutable, records, workers, CoordinatorInv, ProcessTypes

LEMMA ApplyInv ==
  ASSUME CoordinatorInv, NEW c \in Connections, Apply(c)
  PROVE  CoordinatorInv'
<1>1. up
  BY AtWork DEF Apply
<1>2. UNCHANGED <<up, authority, drawn, held, file, link, envelope>>
  BY DEF Apply, workers
<1>3. HandlersInv'
  BY <1>1, <1>2, RecordTypes, AnswersInv, ReportsInv DEF Apply, Publishes, Withdraws
<1>4. catalog' \in Catalogs
  <2>1. catalog \in Catalogs
    BY DEF CoordinatorInv, ProcessTypes
  <2>2. CASE Publishes(c)
    BY <2>1, <2>2 DEF Publishes, Catalogs
  <2>3. CASE Withdraws(c)
    BY <2>1, <2>3 DEF Withdraws, Catalogs
  <2>4. QED
    BY <2>2, <2>3 DEF Apply
<1>5. QED
  BY <1>1, <1>2, <1>3, <1>4, RestUnmoved DEF CoordinatorInv, ProcessTypes

LEMMA RejectInv ==
  ASSUME CoordinatorInv, NEW c \in Connections, Reject(c)
  PROVE  CoordinatorInv'
<1>1. up
  BY AtWork DEF Reject
<1>2. UNCHANGED <<up, authority, catalog, drawn, held, file, link, envelope>>
  BY DEF Reject, coordinator, mutable, records, workers
<1>3. HandlersInv'
  BY <1>1, <1>2, RecordTypes, AnswersInv DEF Reject
<1>4. QED
  BY <1>1, <1>2, <1>3, RestUnmoved DEF CoordinatorInv, ProcessTypes

LEMMA HelloInv ==
  ASSUME CoordinatorInv, NEW c \in Connections, Hello(c)
  PROVE  CoordinatorInv'
<1>1. up
  BY AtWork DEF Hello
<1>2. UNCHANGED <<up, authority, catalog, drawn, held, file, link, envelope>>
  BY DEF Hello, coordinator, mutable, records, workers
<1>3. HandlersInv'
  BY <1>1, <1>2, ReportsInv DEF Hello
<1>4. QED
  BY <1>1, <1>2, <1>3, RestUnmoved DEF CoordinatorInv, ProcessTypes

LEMMA ReadEpochInv ==
  ASSUME CoordinatorInv, NEW c \in Connections, ReadEpoch(c)
  PROVE  CoordinatorInv'
<1> DEFINE h == [handler[c] EXCEPT !.at = "readBoot", !.answer.epoch = authority.epoch]
<1>1. up
  BY AtWork DEF ReadEpoch
<1>2. UNCHANGED <<up, authority, catalog, drawn, held, file, link, envelope>>
  BY DEF ReadEpoch, coordinator, mutable, records, workers
<1>3. handler[c] \in Handlers /\ authority \in Authorities
  BY HandlerTypes DEF CoordinatorInv, ProcessTypes
<1>4. /\ h \in Handlers /\ h.at = "readBoot"
      /\ h.request = handler[c].request /\ h.image = handler[c].image
  <2>1. [handler[c].answer EXCEPT !.epoch = authority.epoch] \in Authorities
    BY <1>3 DEF Handlers, Authorities
  <2>2. h = [handler[c] EXCEPT !.at = "readBoot",
                               !.answer = [handler[c].answer EXCEPT !.epoch = authority.epoch]]
    BY <1>3 DEF Handlers
  <2>3. QED
    BY <1>3, <2>1, <2>2 DEF Handlers, Places
<1>5. h.image.authority.epoch <= drawn
  BY <1>4 DEF CoordinatorInv, HandlersInv
<1>6. handler' = [handler EXCEPT ![c] = h]
  BY DEF ReadEpoch
<1> HIDE DEF h
<1>7. HandlersInv'
  BY <1>1, <1>2, <1>4, <1>5, <1>6, HandlerMoves
<1>8. QED
  BY <1>1, <1>2, <1>7, RestUnmoved DEF CoordinatorInv, ProcessTypes

LEMMA ReadBootInv ==
  ASSUME CoordinatorInv, NEW c \in Connections, ReadBoot(c)
  PROVE  CoordinatorInv'
<1>1. up
  BY AtWork DEF ReadBoot
<1>2. UNCHANGED <<up, authority, catalog, drawn, held, file, link, envelope>>
  BY DEF ReadBoot, coordinator, mutable, records, workers
<1>3. [handler[c].answer EXCEPT !.boot = authority.boot] \in Authorities
  <2>1. handler[c] \in Handlers /\ authority \in Authorities
    BY HandlerTypes DEF CoordinatorInv, ProcessTypes
  <2>2. QED
    BY <2>1 DEF Handlers, Authorities
<1>4. HandlersInv'
  BY <1>1, <1>2, <1>3, AnswersInv DEF ReadBoot
<1>5. QED
  BY <1>1, <1>2, <1>4, RestUnmoved DEF CoordinatorInv, ProcessTypes

LEMMA TakeImageInv ==
  ASSUME CoordinatorInv, NEW c \in Connections, TakeImage(c)
  PROVE  CoordinatorInv'
<1> DEFINE image == [authority |-> authority, catalog |-> catalog]
           h == [Closed EXCEPT !.at = "opening", !.image = image]
<1>1. up
  BY AtWork DEF TakeImage
<1>2. UNCHANGED <<up, authority, catalog, drawn, held, file, link, envelope>>
  BY DEF TakeImage, coordinator, mutable, records, workers
<1>3. image \in Images
  BY DEF CoordinatorInv, ProcessTypes, Images
<1>4. h \in Handlers /\ h.at = "opening" /\ h.image = image /\ h.request.type = "NONE"
  <2>1. Closed \in Handlers /\ Closed.request.type = "NONE"
    BY RecordTypes, HandlerTypes
  <2> HIDE DEF image
  <2>2. h \in Handlers /\ h.at = "opening" /\ h.image = image /\ h.request = Closed.request
    BY <1>3, <2>1 DEF Handlers, Places
  <2>3. QED
    BY <2>1, <2>2
<1>5. h.image.authority.epoch <= drawn
  BY <1>4 DEF CoordinatorInv
<1>6. handler' = [handler EXCEPT ![c] = h]
  BY DEF TakeImage, Moment
<1> HIDE DEF h
<1>7. HandlersInv'
  BY <1>1, <1>2, <1>4, <1>5, <1>6, HandlerMoves
<1>8. QED
  BY <1>1, <1>2, <1>7, RestUnmoved DEF CoordinatorInv, ProcessTypes

LEMMA OpenFileInv ==
  ASSUME CoordinatorInv, NEW c \in Connections, OpenFile(c)
  PROVE  CoordinatorInv'
<1> DEFINE h == [handler[c] EXCEPT !.at = "writing"]
<1>1. up
  BY AtWork DEF OpenFile
<1>2. UNCHANGED <<up, authority, catalog, drawn, held, link, envelope>>
  BY DEF OpenFile, coordinator, mutable, records, workers
<1>3. handler[c] \in Handlers
  BY HandlerTypes
<1>4. /\ h \in Handlers /\ h.at = "writing"
      /\ h.request = handler[c].request /\ h.image = handler[c].image
  BY <1>3 DEF Handlers, Places
<1>5. h.image.authority.epoch <= drawn
  BY <1>4 DEF CoordinatorInv, HandlersInv
<1>6. handler' = [handler EXCEPT ![c] = h]
  BY DEF OpenFile, GoesTo
<1> HIDE DEF h
<1>7. HandlersInv'
  BY <1>1, <1>2, <1>4, <1>5, <1>6, HandlerMoves
<1>8. file' \in Files /\ file'.image.authority.epoch = 0
  BY RecordTypes DEF OpenFile, File, NoImage, Unset
<1>9. 0 <= drawn
  BY HandlerTypes
<1>10. QED
  BY <1>1, <1>2, <1>7, <1>8, <1>9, RestUnmoved DEF CoordinatorInv, ProcessTypes

LEMMA WriteFileInv ==
  ASSUME CoordinatorInv, NEW c \in Connections, WriteFile(c)
  PROVE  CoordinatorInv'
<1>1. up
  BY AtWork DEF WriteFile
<1>2. UNCHANGED <<up, authority, catalog, drawn, held, link, envelope>>
  BY DEF WriteFile, coordinator, mutable, records, workers
<1>3. HandlersInv'
  BY <1>1, <1>2, RecordTypes, AnswersInv DEF WriteFile
<1>4. file' \in Files /\ file'.image.authority.epoch <= drawn
  <2>1. handler[c].image \in Images /\ handler[c].image.authority.epoch <= drawn
    BY HandlerTypes DEF CoordinatorInv, HandlersInv, Handlers
  <2>2. file' = [holds |-> "image", image |-> handler[c].image] \/ file' = File("debris")
    BY DEF WriteFile, Overwritten
  <2>3. File("debris") \in Files /\ File("debris").image.authority.epoch <= drawn
    BY RecordTypes, HandlerTypes DEF File, NoImage, Unset
  <2>4. CASE file' = [holds |-> "image", image |-> handler[c].image]
    BY <2>1, <2>4 DEF Files
  <2>5. CASE file' = File("debris")
    BY <2>3, <2>5 DEF CoordinatorInv, ProcessTypes
  <2>6. QED
    BY <2>2, <2>4, <2>5
<1>5. QED
  BY <1>1, <1>2, <1>3, <1>4, RestUnmoved DEF CoordinatorInv, ProcessTypes

LEMMA HangUpInv ==
  ASSUME CoordinatorInv, NEW c \in Connections, HangUp(c)
  PROVE  CoordinatorInv'
<1>1. up /\ ~Linked(c) /\ handler' = [handler EXCEPT ![c] = Closed]
  BY AtWork DEF HangUp, Handles
<1>2. UNCHANGED <<up, authority, catalog, drawn, held, file, link, envelope>>
  BY DEF HangUp, coordinator, mutable, records, workers
<1>3. /\ Closed \in Handlers /\ Closed.request.type = "NONE"
      /\ Closed.at = "closed" /\ Closed.image.authority.epoch <= drawn
  BY RecordTypes, HandlerTypes DEF Closed
<1>4. HandlersInv'
  BY <1>1, <1>2, <1>3, HandlerMoves
<1>5. QED
  BY <1>1, <1>2, <1>4, RestUnmoved DEF CoordinatorInv, ProcessTypes

(* A roll uses the boot id that was kept for it. *)
LEMMA RollInv ==
  ASSUME CoordinatorInv, NEW c \in Connections, Roll(c)
  PROVE  CoordinatorInv'
<1> DEFINE h == [Closed EXCEPT !.at = "readEpoch"]
           rolls == {x \in Connections : handler[x].request.type = "ROLL"}
<1>1. up
  BY AtWork DEF Roll
<1>2. /\ drawn' = drawn + 1
      /\ authority' = [epoch |-> authority.epoch + 1, boot |-> drawn']
      /\ held' = held \cup {authority'}
      /\ handler' = [handler EXCEPT ![c] = h]
      /\ UNCHANGED <<up, catalog, file, link, envelope>>
  BY DEF Roll, Reports, workers
<1>3. h \in Handlers /\ h.at = "readEpoch" /\ h.request.type = "NONE" /\ h.image.authority.epoch = 0
  BY HandlerTypes DEF Places, Closed
<1>4. c \in rolls
  BY DEF Roll
<1>5. handler \in [Connections -> Handlers]
  BY DEF CoordinatorInv, ProcessTypes
<1> HIDE DEF h
<1>6. /\ Cardinality(rolls) \in Nat /\ Cardinality(rolls \ {c}) \in Nat
      /\ Cardinality(rolls \ {c}) = Cardinality(rolls) - 1
  BY <1>4, RollsFinite, FS_RemoveElement, FS_CardinalityType
<1>7. {x \in Connections : handler'[x].request.type = "ROLL"} = rolls \ {c}
  BY <1>2, <1>3, <1>5
<1>8. /\ drawn \in Nat /\ 1 <= drawn
      /\ drawn + Cardinality(rolls) <= MaxBoots
  BY MaxBootsAssumption DEF CoordinatorInv, HandlersInv, ProcessTypes, RollsUnderWay
<1>9. drawn + 1 <= MaxBoots /\ drawn' + Cardinality(rolls \ {c}) <= MaxBoots
  BY <1>2, <1>6, <1>8, MaxBootsAssumption
<1>10. /\ drawn' \in 1..MaxBoots
       /\ authority' \in Authorities /\ authority'.epoch <= drawn'
  BY <1>2, <1>8, <1>9, MaxBootsAssumption DEF CoordinatorInv, ProcessTypes, Authorities
<1>11. HandlersInv'
  <2>1. handler' \in [Connections -> Handlers]
    BY <1>2, <1>3, <1>5
  <2>2. drawn' + RollsUnderWay' <= MaxBoots
    BY <1>7, <1>9 DEF RollsUnderWay
  <2>3. \A x \in Connections : handler[x] \in Handlers /\ handler[x].image.authority.epoch <= drawn
    BY <1>5 DEF CoordinatorInv, HandlersInv
  <2>4. \A x \in Connections : handler'[x].image.authority.epoch <= drawn'
    BY <1>2, <1>3, <1>5, <1>8, <2>3, MaxBootsAssumption DEF Handlers, Images, Authorities
  <2>5. \A x \in Connections :
          /\ (handler[x].at # "closed" => up)'
          /\ handler'[x].at = "fenced" =>
               /\ handler'[x].request.authority \in held'
               /\ handler'[x].request.type \in Mutations
    BY <1>1, <1>2, <1>3, <1>5 DEF CoordinatorInv, HandlersInv
  <2>6. \A w \in Workers : link'[w] # NoOne => handler'[link'[w]].at # "closed"
    BY <1>2, <1>3, <1>5 DEF CoordinatorInv, HandlersInv, ProcessTypes
  <2>7. QED
    BY <2>1, <2>2, <2>4, <2>5, <2>6 DEF HandlersInv
<1>12. file'.image.authority.epoch <= drawn'
  <2>1. file \in Files /\ file.image.authority.epoch <= drawn
    BY DEF CoordinatorInv, ProcessTypes
  <2>3. file.image.authority \in Authorities
    BY <2>1 DEF Files, Images
  <2>4. file.image.authority.epoch \in Nat
    BY <2>3, MaxBootsAssumption DEF Authorities
  <2>2. QED
    BY <1>2, <1>8, <2>1, <2>4
<1>13. held' \subseteq Authorities
  BY <1>2, <1>10 DEF CoordinatorInv, ProcessTypes
<1>14. ProcessTypes'
  BY <1>2, <1>10, <1>11, <1>13 DEF CoordinatorInv, HandlersInv, ProcessTypes
<1>15. QED
  BY <1>1, <1>2, <1>10, <1>11, <1>12, <1>14 DEF CoordinatorInv

LEMMA ConnectInv ==
  ASSUME CoordinatorInv, NEW w \in Workers, NEW c \in Connections, Connect(w, c)
  PROVE  CoordinatorInv'
<1> DEFINE h == [handler[c] EXCEPT !.at = "receiving"]
<1>1. /\ up
      /\ handler' = [handler EXCEPT ![c] = h]
      /\ link' = [link EXCEPT ![w] = c]
      /\ UNCHANGED <<up, authority, catalog, drawn, held, file, envelope>>
  BY DEF Connect, coordinator, mutable, records
<1>2. /\ handler \in [Connections -> Handlers]
      /\ link \in [Workers -> Connections \cup {NoOne}]
  BY DEF CoordinatorInv, ProcessTypes
<1>3. /\ h \in Handlers /\ h.at = "receiving"
      /\ h.request = handler[c].request /\ h.image = handler[c].image
  BY <1>2 DEF Handlers, Places
<1> HIDE DEF h
<1>4. HandlersInv'
  <2>1. handler' \in [Connections -> Handlers]
    BY <1>1, <1>2, <1>3
  <2>2. drawn' + RollsUnderWay' <= MaxBoots
    <3>1. {x \in Connections : handler'[x].request.type = "ROLL"}
            = {x \in Connections : handler[x].request.type = "ROLL"}
      BY <1>1, <1>2, <1>3
    <3>2. QED
      BY <1>1, <3>1 DEF CoordinatorInv, HandlersInv, RollsUnderWay
  <2>3. \A x \in Connections :
          /\ (handler[x].at # "closed" => up)'
          /\ handler'[x].at = "fenced" =>
               /\ handler'[x].request.authority \in held'
               /\ handler'[x].request.type \in Mutations
          /\ handler'[x].image.authority.epoch <= drawn'
    BY <1>1, <1>2, <1>3 DEF CoordinatorInv, HandlersInv
  <2>4. \A v \in Workers : link'[v] # NoOne => handler'[link'[v]].at # "closed"
    BY <1>1, <1>2, <1>3 DEF CoordinatorInv, HandlersInv
  <2>5. QED
    BY <2>1, <2>2, <2>3, <2>4 DEF HandlersInv
<1>5. link' \in [Workers -> Connections \cup {NoOne}]
  BY <1>1, <1>2
<1>6. QED
  BY <1>1, <1>4, <1>5, RestUnmoved DEF CoordinatorInv, ProcessTypes

(* Only a request to roll takes one more boot id. *)
LEMMA SendInv ==
  ASSUME CoordinatorInv, NEW w \in Workers, NEW r \in Requests, Send(w, r)
  PROVE  CoordinatorInv'
<1> DEFINE c == link[w]
           h == [handler[c] EXCEPT !.at = "arrived", !.request = r]
           rolls == {x \in Connections : handler[x].request.type = "ROLL"}
           rolls2 == {x \in Connections : handler'[x].request.type = "ROLL"}
<1>1. /\ c # NoOne
      /\ handler' = [handler EXCEPT ![c] = h]
      /\ UNCHANGED <<up, authority, catalog, drawn, held, file, link, envelope>>
      /\ r.type = "ROLL" => drawn + RollsUnderWay < MaxBoots
  BY DEF Send, coordinator, mutable, records, workers
<1>2. c \in Connections /\ handler \in [Connections -> Handlers] /\ handler[c].at = "receiving"
  BY <1>1 DEF CoordinatorInv, ProcessTypes, Send
<1>3. up
  BY <1>2 DEF CoordinatorInv, HandlersInv
<1>4. h \in Handlers /\ h.at = "arrived" /\ h.request = r /\ h.image = handler[c].image
  BY <1>2 DEF Handlers, Places
<1> HIDE DEF h, c
<1>5. drawn' + Cardinality(rolls2) <= MaxBoots
  <2>1. rolls2 \subseteq rolls \cup {c} /\ (r.type # "ROLL" => rolls2 \subseteq rolls)
    BY <1>1, <1>2, <1>4
  <2>2. IsFiniteSet(rolls) /\ IsFiniteSet(rolls \cup {c}) /\ Cardinality(rolls) \in Nat
    BY RollsFinite, FS_AddElement, FS_CardinalityType
  <2>3. /\ Cardinality(rolls2) \in Nat
        /\ Cardinality(rolls2) <= Cardinality(rolls \cup {c})
        /\ r.type # "ROLL" => Cardinality(rolls2) <= Cardinality(rolls)
    BY <2>1, <2>2, FS_Subset, FS_CardinalityType
  <2>4. Cardinality(rolls \cup {c}) \in Nat /\ Cardinality(rolls \cup {c}) <= Cardinality(rolls) + 1
    BY <2>2, FS_AddElement, FS_CardinalityType
  <2>5. /\ drawn \in Nat /\ drawn + Cardinality(rolls) <= MaxBoots
        /\ r.type = "ROLL" => drawn + Cardinality(rolls) < MaxBoots
    BY <1>1, MaxBootsAssumption DEF CoordinatorInv, HandlersInv, ProcessTypes, RollsUnderWay
  <2>6. QED
    BY <1>1, <2>2, <2>3, <2>4, <2>5, MaxBootsAssumption
<1>6. HandlersInv'
  <2>1. handler' \in [Connections -> Handlers]
    BY <1>1, <1>2, <1>4
  <2>2. drawn' + RollsUnderWay' <= MaxBoots
    BY <1>5 DEF RollsUnderWay
  <2>3. \A x \in Connections :
          /\ (handler[x].at # "closed" => up)'
          /\ handler'[x].at = "fenced" =>
               /\ handler'[x].request.authority \in held'
               /\ handler'[x].request.type \in Mutations
          /\ handler'[x].image.authority.epoch <= drawn'
    BY <1>1, <1>2, <1>3, <1>4 DEF CoordinatorInv, HandlersInv
  <2>4. \A v \in Workers : link'[v] # NoOne => handler'[link'[v]].at # "closed"
    BY <1>1, <1>2, <1>4 DEF CoordinatorInv, HandlersInv, ProcessTypes
  <2>5. QED
    BY <2>1, <2>2, <2>3, <2>4 DEF HandlersInv
<1>7. QED
  BY <1>3, <1>1, <1>6, RestUnmoved DEF CoordinatorInv, ProcessTypes

LEMMA TakeAnswerInv ==
  ASSUME CoordinatorInv, NEW w \in Workers, TakeAnswer(w)
  PROVE  CoordinatorInv'
<1> DEFINE c == link[w]
           h == [Closed EXCEPT !.at = "receiving"]
<1>1. /\ c # NoOne
      /\ handler' = [handler EXCEPT ![c] = h]
      /\ UNCHANGED <<up, authority, catalog, drawn, held, file, link>>
  BY DEF TakeAnswer, coordinator, mutable, records
<1>2. c \in Connections /\ handler[c] \in Handlers /\ handler[c].at = "answered"
  BY <1>1, HandlerTypes DEF CoordinatorInv, ProcessTypes, TakeAnswer
<1>3. up
  BY <1>2 DEF CoordinatorInv, HandlersInv
<1>4. h \in Handlers /\ h.at = "receiving" /\ h.request.type = "NONE"
        /\ h.image.authority.epoch <= drawn
  BY <1>2, HandlerTypes DEF Places, Closed
<1>5. envelope' \in [Workers -> Authorities]
  <2>1. envelope \in [Workers -> Authorities] /\ handler[c].answer \in Authorities
    BY <1>2 DEF CoordinatorInv, ProcessTypes, Handlers
  <2>2. QED
    BY <2>1 DEF TakeAnswer
<1> HIDE DEF h, c
<1>6. HandlersInv'
  BY <1>1, <1>2, <1>3, <1>4, HandlerMoves
<1>7. QED
  BY <1>3, <1>1, <1>5, <1>6, RestUnmoved DEF CoordinatorInv, ProcessTypes

LEMMA VanishInv ==
  ASSUME CoordinatorInv, NEW w \in Workers, Vanish(w)
  PROVE  CoordinatorInv'
<1>1. /\ link' = [link EXCEPT ![w] = NoOne]
      /\ UNCHANGED <<up, authority, catalog, drawn, held, handler, file, envelope>>
  BY DEF Vanish, coordinator, mutable, records
<1>2. up /\ link' \in [Workers -> Connections \cup {NoOne}]
  BY <1>1 DEF Vanish, CoordinatorInv, HandlersInv, ProcessTypes
<1>3. \A v \in Workers : link'[v] # NoOne => handler'[link'[v]].at # "closed"
  BY <1>1 DEF CoordinatorInv, ProcessTypes
<1>4. HandlersInv'
  BY <1>1, <1>3 DEF CoordinatorInv, HandlersInv, RollsUnderWay
<1>5. QED
  BY <1>1, <1>2, <1>4, RestUnmoved DEF CoordinatorInv, ProcessTypes
LEMMA CrashInv ==
  ASSUME CoordinatorInv, Crash
  PROVE  CoordinatorInv'
<1>1. /\ ~up' /\ drawn < MaxBoots
      /\ handler' = [c \in Connections |-> Closed]
      /\ link' = [w \in Workers |-> NoOne]
      /\ UNCHANGED <<authority, catalog, drawn, held, file, envelope>>
  BY DEF Crash, mutable, records
<1>2. \A c \in Connections : handler'[c] = Closed
  BY <1>1
<1>3. Closed \in Handlers /\ Closed.at = "closed" /\ Closed.image.authority.epoch <= drawn
        /\ Closed.request.type = "NONE"
  <2>1. drawn \in Nat
    BY MaxBootsAssumption DEF CoordinatorInv, ProcessTypes
  <2>2. Closed.image.authority.epoch = 0
    BY DEF Closed, NoImage, Unset
  <2>3. Closed.at = "closed" /\ Closed.request.type = "NONE"
    BY DEF Closed, NoRequest
  <2>4. Closed.image.authority.epoch <= drawn
    BY <2>1, <2>2
  <2>5. QED
    BY <2>3, <2>4, RecordTypes
<1>4. drawn' + RollsUnderWay' <= MaxBoots
  <2>1. {c \in Connections : handler'[c].request.type = "ROLL"} = {}
    BY <1>2, <1>3
  <2>2. Cardinality({c \in Connections : handler'[c].request.type = "ROLL"}) = 0
    BY <2>1, FS_EmptySet
  <2>3. drawn' = drawn /\ drawn \in 1..MaxBoots
    BY <1>1 DEF CoordinatorInv, ProcessTypes
  <2>4. QED
    BY <2>2, <2>3, MaxBootsAssumption DEF RollsUnderWay
<1>5. HandlersInv'
  <2>1. handler' \in [Connections -> Handlers]
    BY <1>1, <1>3
  <2>2. \A w \in Workers : link'[w] = NoOne
    BY <1>1
  <2>3. QED
    BY <1>1, <1>2, <1>3, <1>4, <2>1, <2>2 DEF HandlersInv
<1>6. link' \in [Workers -> Connections \cup {NoOne}] /\ up' \in BOOLEAN
  BY <1>1 DEF Crash
<1>7. QED
  BY <1>1, <1>2, <1>5, <1>6 DEF CoordinatorInv, HandlersInv, ProcessTypes

(* The new coordinator has held the one authority it starts with. *)
LEMMA RestartInv ==
  ASSUME CoordinatorInv, Restart
  PROVE  CoordinatorInv'
<1>1. /\ up' /\ ~up /\ drawn' = drawn + 1
      /\ held' = {authority'}
      /\ UNCHANGED <<handler, file, link, envelope>>
  BY DEF Restart, workers
<1>2. drawn' \in 1..MaxBoots /\ drawn \in Nat
  BY <1>1, MaxBootsAssumption DEF CoordinatorInv, ProcessTypes
<1>3. authority' \in Authorities /\ authority'.epoch <= drawn' /\ catalog' \in Catalogs
  <2>1. CASE file.holds = "image"
    <3>1. authority' = file.image.authority /\ catalog' = file.image.catalog
      BY <2>1 DEF Restart
    <3>2. file \in Files /\ file.image.authority.epoch <= drawn
      BY DEF CoordinatorInv, ProcessTypes
    <3>3. file.image.authority \in Authorities /\ file.image.catalog \in Catalogs
      BY <3>2 DEF Files, Images
    <3>4. file.image.authority.epoch \in Nat
      BY <3>3, MaxBootsAssumption DEF Authorities
    <3>5. QED
      BY <1>1, <1>2, <3>1, <3>2, <3>3, <3>4
  <2>2. CASE file.holds # "image"
    <3>1. authority' = [epoch |-> 1, boot |-> drawn'] /\ catalog' = EmptyCatalog
      BY <2>2 DEF Restart
    <3>2. authority' \in Authorities
      BY <1>2, <3>1, MaxBootsAssumption DEF Authorities
    <3>3. authority'.epoch = 1
      BY <3>1
    <3>4. catalog' \in Catalogs
      BY <3>1, RecordTypes
    <3>5. QED
      BY <1>2, <3>2, <3>3, <3>4
  <2>3. QED
    BY <2>1, <2>2
<1>4. /\ \A c \in Connections : handler'[c] = Closed
      /\ handler' \in [Connections -> Handlers]
  BY <1>1 DEF CoordinatorInv, ProcessTypes
<1>5. Closed.at = "closed" /\ Closed.image.authority.epoch <= drawn' /\ Closed.request.type = "NONE"
  BY <1>2 DEF Closed, NoImage, NoRequest, Unset
<1>6. drawn' + RollsUnderWay' <= MaxBoots
  <2>1. {c \in Connections : handler'[c].request.type = "ROLL"} = {}
    BY <1>4, <1>5
  <2>2. Cardinality({c \in Connections : handler'[c].request.type = "ROLL"}) = 0
    BY <2>1, FS_EmptySet
  <2>3. drawn \in Nat /\ drawn + 1 <= MaxBoots
    BY <1>1, MaxBootsAssumption DEF CoordinatorInv, ProcessTypes
  <2>4. QED
    BY <1>1, <2>2, <2>3, MaxBootsAssumption DEF RollsUnderWay
<1>7. HandlersInv'
  BY <1>1, <1>4, <1>5, <1>6 DEF CoordinatorInv, HandlersInv
<1>8. file'.image.authority.epoch <= drawn'
  <2>1. file \in Files /\ file.image.authority.epoch <= drawn
    BY DEF CoordinatorInv, ProcessTypes
  <2>2. file.image.authority \in Authorities
    BY <2>1 DEF Files, Images
  <2>3. file.image.authority.epoch \in Nat
    BY <2>2, MaxBootsAssumption DEF Authorities
  <2>4. QED
    BY <1>1, <1>2, <2>1, <2>3
<1>9. ProcessTypes'
  BY <1>1, <1>2, <1>3, <1>7 DEF CoordinatorInv, HandlersInv, ProcessTypes
<1>10. QED
  BY <1>1, <1>3, <1>7, <1>8, <1>9 DEF CoordinatorInv

LEMMA HandleInv ==
  ASSUME CoordinatorInv, NEW c \in Connections, Handle(c)
  PROVE  CoordinatorInv'
BY FenceInv, ApplyInv, RejectInv, HelloInv, RollInv, ReadEpochInv, ReadBootInv,
   TakeImageInv, OpenFileInv, WriteFileInv, HangUpInv
   DEF Handle

LEMMA WorkInv ==
  ASSUME CoordinatorInv, NEW w \in Workers, Work(w)
  PROVE  CoordinatorInv'
BY ConnectInv, SendInv, TakeAnswerInv, VanishInv DEF Work

LEMMA NextInv == CoordinatorInv /\ [Next]_vars => CoordinatorInv'
<1> SUFFICES ASSUME CoordinatorInv, [Next]_vars PROVE CoordinatorInv'
  OBVIOUS
<1>1. CASE Next
  BY <1>1, HandleInv, WorkInv, CrashInv, RestartInv DEF Next
<1>2. CASE UNCHANGED vars
  <2>1. UNCHANGED <<up, authority, catalog, drawn, handler, file, link, envelope, held>>
    BY <1>2 DEF vars, coordinator, mutable, records, workers
  <2>2. ProcessTypes' /\ HandlersInv'
    BY <2>1 DEF CoordinatorInv, ProcessTypes, HandlersInv, RollsUnderWay
  <2>3. QED
    BY <2>1, <2>2 DEF CoordinatorInv
<1>3. QED
  BY <1>1, <1>2

LEMMA CoordinatorInvHolds == Spec => []CoordinatorInv
BY InitCoordinatorInv, NextInv, PTL DEF Spec

-----------------------------------------------------------------------------
(* What the histories say. *)

(* What was found or published is there still, if only withdrawn. *)
PublicationsInv ==
  /\ resumed \in Catalogs /\ published \in Seq(Artifacts)
  /\ \A a \in Artifacts : resumed[a] # "absent" => catalog[a] # "absent"
  /\ \A i \in 1..Len(published) : catalog[published[i]] # "absent"
  /\ PublishedOnce

(* Images under way and on file are of one moment, and boot ids not drawn  *)
(* have not been seen.                                                     *)
MomentsInv ==
  /\ past \subseteq Images /\ Moment \in past
  /\ \A m \in past : m.authority.boot <= drawn
  /\ \A c \in Connections : handler[c].at \in {"opening", "writing"} => handler[c].image \in past
  /\ file.holds = "image" => file.image \in past

HistoryInv == PublicationsInv /\ MomentsInv

LEMMA InitHistoryInv == Init => HistoryInv
<1> SUFFICES ASSUME Init PROVE HistoryInv
  OBVIOUS
<1>1. PublicationsInv
  <2>1. /\ resumed \in Catalogs /\ published \in Seq(Artifacts)
        /\ Len(published) = 0 /\ resumed = catalog
    BY RecordTypes, EmptySeq DEF Init
  <2>2. \A i \in 1..Len(published) : FALSE
    BY <2>1
  <2>3. QED
    BY <2>1, <2>2 DEF PublicationsInv, PublishedOnce
<1>2. MomentsInv
  <2>1. Moment \in Images /\ Moment.authority.boot = 1
    <3>1. authority \in Authorities /\ catalog \in Catalogs
      <4>1. 1 \in 0..MaxBoots
        BY MaxBootsAssumption
      <4>2. authority = [epoch |-> 1, boot |-> 1] /\ catalog = EmptyCatalog
        BY DEF Init
      <4>3. QED
        BY <4>1, <4>2, RecordTypes DEF Authorities
    <3>2. authority.boot = 1
      BY DEF Init
    <3>3. QED
      BY <3>1, <3>2 DEF Moment, Images
  <2>2. \A c \in Connections : handler[c].at = "closed"
    BY DEF Init, Closed
  <2>3. file.holds = "nothing"
    BY DEF Init, File
  <2>4. QED
    BY <2>1, <2>2, <2>3 DEF Init, MomentsInv
<1>3. QED
  BY <1>1, <1>2 DEF HistoryInv

(* Steps that neither change the catalog nor start a coordinator. *)
LEMMA NothingPublished ==
  ASSUME PublicationsInv, UNCHANGED <<catalog, resumed, published>>
  PROVE  PublicationsInv'
BY DEF PublicationsInv, PublishedOnce

(* One more publication, of an artifact that was not there. *)
LEMMA OnePublished ==
  ASSUME CoordinatorInv, PublicationsInv, NEW c \in Connections,
         handler[c].request.type \in Mutations, Publishes(c), resumed' = resumed
  PROVE  PublicationsInv'
<1> DEFINE a == handler[c].request.artifact
<1>1. a \in Artifacts
  BY HandlerTypes DEF Handlers, Requests, NoRequest, Mutations
<1>2. /\ catalog \in Catalogs /\ catalog[a] = "absent"
      /\ catalog' = [catalog EXCEPT ![a] = "published"]
      /\ published' = Append(published, a)
  BY DEF Publishes, CoordinatorInv, ProcessTypes
<1> HIDE DEF a
<1>3. \A b \in Artifacts : catalog[b] # "absent" => catalog'[b] # "absent"
  BY <1>1, <1>2 DEF Catalogs
<1>4. catalog'[a] # "absent"
  BY <1>1, <1>2 DEF Catalogs
<1>5. /\ published \in Seq(Artifacts) /\ Len(published) \in Nat
      /\ published' \in Seq(Artifacts) /\ Len(published') = Len(published) + 1
      /\ \A i \in 1..Len(published) : published'[i] = published[i] /\ published[i] \in Artifacts
      /\ published'[Len(published) + 1] = a
  BY <1>1, <1>2, AppendProperties, LenProperties, ElementOfSeq DEF PublicationsInv
<1>6. \A i \in 1..Len(published') : i \in 1..Len(published) \/ i = Len(published) + 1
  BY <1>5
<1>7. \A i \in 1..Len(published') : catalog'[published'[i]] # "absent"
  BY <1>3, <1>4, <1>5, <1>6 DEF PublicationsInv
<1>8. resumed[a] = "absent" /\ \A j \in 1..Len(published) : published[j] # a
  BY <1>1, <1>2 DEF PublicationsInv
<1>9. ASSUME NEW i \in 1..Len(published')
      PROVE  /\ resumed'[published'[i]] = "absent"
             /\ \A j \in 1..(i - 1) : published'[j] # published'[i]
  <2>1. CASE i \in 1..Len(published)
    <3>1. \A j \in 1..(i - 1) : j \in 1..Len(published)
      BY <1>5, <2>1
    <3>2. QED
      BY <1>5, <2>1, <3>1 DEF PublicationsInv, PublishedOnce
  <2>2. CASE i = Len(published) + 1
    <3>1. 1..(i - 1) = 1..Len(published)
      BY <1>5, <2>2
    <3>2. QED
      BY <1>5, <1>8, <2>2, <3>1
  <2>3. QED
    BY <1>6, <2>1, <2>2
<1>10. QED
  BY <1>3, <1>5, <1>7, <1>9 DEF PublicationsInv, PublishedOnce

(* Withdrawing makes nothing absent. *)
LEMMA OthersWithdrawn ==
  ASSUME CoordinatorInv, PublicationsInv, NEW c \in Connections, Withdraws(c), resumed' = resumed
  PROVE  PublicationsInv'
<1>1. \A b \in Artifacts : catalog[b] # "absent" => catalog'[b] # "absent"
  BY DEF Withdraws
<1>2. published' = published /\ \A i \in 1..Len(published) : published[i] \in Artifacts
  BY ElementOfSeq, LenProperties DEF Withdraws, PublicationsInv
<1>3. QED
  BY <1>1, <1>2 DEF PublicationsInv, PublishedOnce

(* A new coordinator has published nothing yet. *)
LEMMA NothingPublishedYet ==
  ASSUME CoordinatorInv', Restart
  PROVE  PublicationsInv'
<1>1. resumed' = catalog' /\ published' = << >> /\ catalog' \in Catalogs
  BY DEF Restart, CoordinatorInv, ProcessTypes
<1>2. QED
  BY <1>1, EmptySeq DEF PublicationsInv, PublishedOnce

(* Steps after which images are where they were, and the coordinator in a  *)
(* state that is on record.                                                *)
LEMMA MomentsKept ==
  ASSUME CoordinatorInv, CoordinatorInv', MomentsInv,
         past' = past \cup {Moment'},
         authority'.boot <= drawn', drawn <= drawn', drawn' \in Nat,
         \A c \in Connections :
           handler'[c].at \in {"opening", "writing"} => handler'[c].image \in past',
         file'.holds = "image" => file'.image \in past'
  PROVE  MomentsInv'
<1>1. Moment' \in Images /\ Moment'.authority = authority'
  BY DEF CoordinatorInv, ProcessTypes, Moment, Images
<1>2. \A m \in past : m.authority.boot \in Nat /\ drawn \in Nat
  BY MaxBootsAssumption DEF MomentsInv, CoordinatorInv, ProcessTypes, Images, Authorities
<1>3. \A m \in past' : m.authority.boot <= drawn'
  BY <1>1, <1>2 DEF MomentsInv
<1>4. past' \subseteq Images /\ Moment' \in past'
  BY <1>1 DEF MomentsInv
<1>5. QED
  BY <1>3, <1>4 DEF MomentsInv

(* No handler moves but that of c. *)
OnlyMoves(c) == \A x \in Connections : x # c => handler'[x] = handler[x]

(* Of the handlers only one moves, and it takes no image along but one on  *)
(* record.                                                                 *)
LEMMA OneHandlerMoves ==
  ASSUME CoordinatorInv, CoordinatorInv', MomentsInv, NEW c \in Connections, OnlyMoves(c),
         handler'[c].at \in {"opening", "writing"} => handler'[c].image \in past,
         file'.holds = "image" => file'.image \in past,
         UNCHANGED <<authority, catalog, drawn, past>>
  PROVE  MomentsInv'
<1>2. \A x \in Connections :
        handler'[x].at \in {"opening", "writing"} => handler'[x].image \in past
  BY DEF MomentsInv, OnlyMoves
<1>3. Moment' = Moment
  BY DEF Moment
<1>4. QED
  BY <1>2, <1>3 DEF MomentsInv

LEMMA BootDrawn ==
  ASSUME CoordinatorInv, MomentsInv
  PROVE  authority.boot <= drawn /\ drawn \in Nat /\ authority.boot \in Nat
BY MaxBootsAssumption DEF CoordinatorInv, ProcessTypes, MomentsInv, Moment, Authorities

LEMMA ApplyHistory ==
  ASSUME CoordinatorInv, CoordinatorInv', HistoryInv, NEW c \in Connections, Apply(c)
  PROVE  HistoryInv'
<1>1. /\ handler[c].at = "fenced"
      /\ UNCHANGED <<authority, drawn, resumed, file>>
      /\ past' = past \cup {Moment'}
  BY DEF Apply, Handles
<1>2. handler[c].request.type \in Mutations
  BY <1>1 DEF CoordinatorInv, HandlersInv
<1>3. PublicationsInv'
  BY <1>1, <1>2, OnePublished, OthersWithdrawn DEF Apply, HistoryInv
<1>4. \A x \in Connections :
        handler'[x].at \in {"opening", "writing"} => handler'[x].image \in past'
  <2>1. handler \in [Connections -> Handlers]
    BY DEF CoordinatorInv, ProcessTypes
  <2>2. Reports(c) \/ Answers(c, Unset)
    BY DEF Apply, Publishes, Withdraws
  <2>3. OnlyMoves(c) /\ handler'[c].at \in {"readEpoch", "answered"}
    BY <2>1, <2>2 DEF Reports, Answers, Closed, OnlyMoves
  <2>4. QED
    BY <1>1, <2>3 DEF HistoryInv, MomentsInv, OnlyMoves
<1>5. MomentsInv'
  BY <1>1, <1>4, BootDrawn, MomentsKept DEF HistoryInv, MomentsInv
<1>6. QED
  BY <1>3, <1>5 DEF HistoryInv

LEMMA RollHistory ==
  ASSUME CoordinatorInv, CoordinatorInv', HistoryInv, NEW c \in Connections, Roll(c)
  PROVE  HistoryInv'
<1>1. /\ drawn' = drawn + 1 /\ authority'.boot = drawn'
      /\ past' = past \cup {Moment'}
      /\ UNCHANGED <<catalog, resumed, published, file>>
      /\ Reports(c)
  BY DEF Roll
<1>2. \A x \in Connections :
        handler'[x].at \in {"opening", "writing"} => handler'[x].image \in past'
  <2>1. handler \in [Connections -> Handlers]
    BY DEF CoordinatorInv, ProcessTypes
  <2>2. OnlyMoves(c) /\ handler'[c].at = "readEpoch"
    BY <1>1, <2>1 DEF Reports, Closed, OnlyMoves
  <2>3. QED
    BY <1>1, <2>2 DEF HistoryInv, MomentsInv, OnlyMoves
<1>3. MomentsInv'
  BY <1>1, <1>2, BootDrawn, MomentsKept DEF HistoryInv, MomentsInv
<1>4. QED
  BY <1>1, <1>3, NothingPublished DEF HistoryInv

LEMMA RestartHistory ==
  ASSUME CoordinatorInv, CoordinatorInv', HistoryInv, Restart
  PROVE  HistoryInv'
<1>1. /\ drawn' = drawn + 1
      /\ past' = past \cup {Moment'}
      /\ UNCHANGED <<handler, file>>
  BY DEF Restart
<1>2. authority'.boot <= drawn'
  <2>1. CASE file.holds = "image"
    <3>1. authority' = file.image.authority /\ file.image \in past
      BY <2>1 DEF Restart, HistoryInv, MomentsInv
    <3>2. file.image.authority.boot <= drawn /\ file.image.authority.boot \in Nat
      BY <3>1, MaxBootsAssumption DEF HistoryInv, MomentsInv, Images, Authorities
    <3>3. QED
      BY <1>1, <3>1, <3>2, BootDrawn DEF HistoryInv
  <2>2. CASE file.holds # "image"
    <3>1. authority'.boot = drawn'
      BY <2>2 DEF Restart
    <3>2. QED
      BY <1>1, <3>1, BootDrawn DEF HistoryInv
  <2>3. QED
    BY <2>1, <2>2
<1>3. MomentsInv'
  BY <1>1, <1>2, BootDrawn, MomentsKept DEF HistoryInv, MomentsInv
<1>4. QED
  BY <1>3, NothingPublishedYet DEF HistoryInv

(* Taking, opening for and writing an image. *)
LEMMA SaveHistory ==
  ASSUME CoordinatorInv, CoordinatorInv', HistoryInv, NEW c \in Connections,
         TakeImage(c) \/ OpenFile(c) \/ WriteFile(c)
  PROVE  HistoryInv'
<1>1. UNCHANGED <<authority, catalog, drawn, resumed, published, past>>
  BY DEF TakeImage, OpenFile, WriteFile, coordinator, mutable, records
<1>0. handler \in [Connections -> Handlers] /\ handler[c] \in Handlers
  BY HandlerTypes DEF CoordinatorInv, ProcessTypes
<1>2. MomentsInv'
  <2>1. CASE TakeImage(c)
    <3>1. OnlyMoves(c) /\ handler'[c].image = Moment
      BY <1>0, <2>1 DEF TakeImage, Closed, OnlyMoves
    <3>2. file' = file /\ Moment \in past
      BY <2>1 DEF TakeImage, HistoryInv, MomentsInv
    <3>3. QED
      BY <1>1, <3>1, <3>2, OneHandlerMoves DEF HistoryInv, MomentsInv
  <2>2. CASE OpenFile(c)
    <3>2. OnlyMoves(c) /\ handler'[c].image = handler[c].image
      BY <1>0, <2>2 DEF OpenFile, GoesTo, Handlers, OnlyMoves
    <3>3. handler[c].image \in past /\ file'.holds = "no bytes"
      BY <2>2 DEF OpenFile, Handles, File, HistoryInv, MomentsInv
    <3>4. QED
      BY <1>1, <3>2, <3>3, OneHandlerMoves DEF HistoryInv
  <2>3. CASE WriteFile(c)
    <3>1. OnlyMoves(c) /\ handler'[c].at = "answered"
      BY <1>0, <2>3 DEF WriteFile, Answers, Closed, OnlyMoves
    <3>2. handler[c].image \in past
      BY <2>3 DEF WriteFile, Handles, HistoryInv, MomentsInv
    <3>3. file'.holds = "image" => file'.image \in past
      <4>1. \A f \in Overwritten(handler[c].image) :
              f = [holds |-> "image", image |-> handler[c].image] \/ f = File("debris")
        BY DEF Overwritten
      <4>2. file' = [holds |-> "image", image |-> handler[c].image] \/ file' = File("debris")
        BY <2>3, <4>1 DEF WriteFile
      <4>3. QED
        BY <3>2, <4>2 DEF File
    <3>4. QED
      BY <1>1, <3>1, <3>3, OneHandlerMoves DEF HistoryInv
  <2>4. QED
    BY <2>1, <2>2, <2>3
<1>3. QED
  BY <1>1, <1>2, NothingPublished DEF HistoryInv

(* The other steps of handlers and workers touch neither histories nor file. *)
LEMMA ElsewhereHistory ==
  ASSUME CoordinatorInv, CoordinatorInv', HistoryInv, NEW c \in Connections, OnlyMoves(c),
         handler'[c].at \notin {"opening", "writing"},
         UNCHANGED <<authority, catalog, drawn, records, file>>
  PROVE  HistoryInv'
<1>1. UNCHANGED <<resumed, published, past>>
  BY DEF records
<1>2. QED
  BY <1>1, NothingPublished, OneHandlerMoves DEF HistoryInv, MomentsInv

LEMMA HandleHistory ==
  ASSUME CoordinatorInv, CoordinatorInv', HistoryInv, NEW c \in Connections, Handle(c)
  PROVE  HistoryInv'
<1>0. handler \in [Connections -> Handlers] /\ handler[c] \in Handlers
  BY HandlerTypes DEF CoordinatorInv, ProcessTypes
<1> USE DEF coordinator, mutable, records
<1>1. CASE Fence(c)
  <2>1. OnlyMoves(c) /\ handler'[c].at \in {"fenced", "answered"}
    BY <1>0, <1>1 DEF Fence, GoesTo, Answers, Closed, Handlers, OnlyMoves
  <2>2. QED
    BY <1>1, <2>1, ElsewhereHistory DEF Fence
<1>2. CASE Reject(c) \/ ReadBoot(c)
  <2>1. OnlyMoves(c) /\ handler'[c].at = "answered"
    BY <1>0, <1>2 DEF Reject, ReadBoot, Answers, Closed, OnlyMoves
  <2>2. QED
    BY <1>2, <2>1, ElsewhereHistory DEF Reject, ReadBoot
<1>3. CASE Hello(c)
  <2>1. OnlyMoves(c) /\ handler'[c].at = "readEpoch"
    BY <1>0, <1>3 DEF Hello, Reports, Closed, OnlyMoves
  <2>2. QED
    BY <1>3, <2>1, ElsewhereHistory DEF Hello
<1>4. CASE ReadEpoch(c)
  <2>1. OnlyMoves(c) /\ handler'[c].at = "readBoot"
    BY <1>0, <1>4 DEF ReadEpoch, Handlers, OnlyMoves
  <2>2. QED
    BY <1>4, <2>1, ElsewhereHistory DEF ReadEpoch
<1>5. CASE HangUp(c)
  <2>1. OnlyMoves(c) /\ handler'[c].at = "closed"
    BY <1>0, <1>5 DEF HangUp, Closed, OnlyMoves
  <2>2. QED
    BY <1>5, <2>1, ElsewhereHistory DEF HangUp
<1>6. QED
  BY <1>1, <1>2, <1>3, <1>4, <1>5, ApplyHistory, RollHistory, SaveHistory DEF Handle

LEMMA WorkHistory ==
  ASSUME CoordinatorInv, CoordinatorInv', HistoryInv, NEW w \in Workers, Work(w)
  PROVE  HistoryInv'
<1>0. /\ handler \in [Connections -> Handlers]
      /\ link[w] # NoOne => link[w] \in Connections
  BY DEF CoordinatorInv, ProcessTypes
<1> USE DEF coordinator, mutable, records, workers
<1>1. ASSUME NEW c \in Connections, Connect(w, c) PROVE HistoryInv'
  <2>1. OnlyMoves(c) /\ handler'[c].at = "receiving"
    BY <1>0, <1>1 DEF Connect, Handlers, OnlyMoves
  <2>2. QED
    BY <1>1, <2>1, ElsewhereHistory DEF Connect
<1>2. ASSUME NEW r \in Requests, Send(w, r) PROVE HistoryInv'
  <2>1. OnlyMoves(link[w]) /\ handler'[link[w]].at = "arrived"
    BY <1>0, <1>2 DEF Send, Handlers, OnlyMoves
  <2>2. QED
    BY <1>0, <1>2, <2>1, ElsewhereHistory DEF Send
<1>3. CASE TakeAnswer(w)
  <2>1. OnlyMoves(link[w]) /\ handler'[link[w]].at = "receiving"
    BY <1>0, <1>3 DEF TakeAnswer, Closed, OnlyMoves
  <2>2. QED
    BY <1>0, <1>3, <2>1, ElsewhereHistory DEF TakeAnswer
<1>4. CASE Vanish(w)
  <2>1. UNCHANGED <<handler, file, authority, catalog, drawn, resumed, published, past>>
    BY <1>4 DEF Vanish
  <2>2. QED
    BY <2>1, NothingPublished DEF HistoryInv, MomentsInv, Moment
<1>5. QED
  BY <1>1, <1>2, <1>3, <1>4 DEF Work

LEMMA NextHistory == CoordinatorInv /\ CoordinatorInv' /\ HistoryInv /\ [Next]_vars => HistoryInv'
<1> SUFFICES ASSUME CoordinatorInv, CoordinatorInv', HistoryInv, [Next]_vars PROVE HistoryInv'
  OBVIOUS
<1>1. CASE Crash
  <2>1. /\ UNCHANGED <<file, authority, catalog, drawn, resumed, published, past>>
        /\ \A c \in Connections : handler'[c].at = "closed"
    BY <1>1 DEF Crash, mutable, records, Closed
  <2>2. QED
    BY <2>1, NothingPublished DEF HistoryInv, MomentsInv, Moment
<1>2. CASE UNCHANGED vars
  <2>1. UNCHANGED <<handler, file, authority, catalog, drawn, resumed, published, past>>
    BY <1>2 DEF vars, coordinator, mutable, records
  <2>2. QED
    BY <2>1, NothingPublished DEF HistoryInv, MomentsInv, Moment
<1>3. QED
  BY <1>1, <1>2, HandleHistory, WorkHistory, RestartHistory DEF Next

LEMMA HistoryInvHolds == Spec => []HistoryInv
BY InitHistoryInv, NextHistory, CoordinatorInvHolds, PTL DEF Spec

(* The coordinator's state, its handlers', its file and its workers' stay  *)
(* of their types, and the boot ids drawn within their bound, through      *)
(* every interleaving, crash and restart.                                  *)
THEOREM CoordinatorTypeCorrect == Spec => []TypeOK
<1>1. CoordinatorInv /\ HistoryInv => TypeOK
  BY DEF CoordinatorInv, HistoryInv, PublicationsInv, MomentsInv, TypeOK
<1>2. QED
  BY <1>1, CoordinatorInvHolds, HistoryInvHolds, PTL

(* However a roll, a restart or a late request falls between the fence and *)
(* the mutation it admits, the mutation's authority is one that this very  *)
(* coordinator has held: never a predecessor's, and never an epoch and a   *)
(* boot id that were read on either side of a roll.                        *)
THEOREM AuthoritiesWereHeld == Spec => AuthorityWasHeld
<1>1. CoordinatorInv =>
        [\A c \in Connections : Apply(c) => handler[c].request.authority \in held]_vars
  BY DEF CoordinatorInv, HandlersInv, Apply, Handles
<1>2. QED
  BY <1>1, CoordinatorInvHolds, PTL DEF AuthorityWasHeld

(* However many handlers have passed the fence with a request to publish   *)
(* the same artifact, one of them publishes it, once, and none does when   *)
(* the coordinator started with it: not when it was withdrawn meanwhile,   *)
(* and not when the worker that asked is long gone and another asks again. *)
THEOREM PublishesOnce == Spec => []PublishedOnce
<1>1. HistoryInv => PublishedOnce
  BY DEF HistoryInv, PublicationsInv
<1>2. QED
  BY <1>1, HistoryInvHolds, PTL

(* Whatever saves overlapped on the file and wherever they were cut short, *)
(* a coordinator starts again in a state one was in, with the authority    *)
(* and the catalog of the same moment, or afresh under a new boot id.      *)
THEOREM RestartsResumeMoments == Spec => ResumesOneMoment
<1> DEFINE Resumes == Restart =>
             \/ Moment' \in past
             \/ /\ catalog' = EmptyCatalog
                /\ \A m \in past : m.authority.boot # authority'.boot
<1>1. ASSUME CoordinatorInv, HistoryInv, Restart
      PROVE  \/ Moment' \in past
             \/ /\ catalog' = EmptyCatalog
                /\ \A m \in past : m.authority.boot # authority'.boot
  <2>1. CASE file.holds = "image"
    <3>1. authority' = file.image.authority /\ catalog' = file.image.catalog
      BY <1>1, <2>1 DEF Restart
    <3>2. file.image \in past /\ file.image \in Images
      BY <1>1, <2>1 DEF HistoryInv, MomentsInv
    <3>3. Moment' = file.image
      BY <3>1, <3>2 DEF Moment, Images
    <3>4. QED
      BY <3>2, <3>3
  <2>2. CASE file.holds # "image"
    <3>1. catalog' = EmptyCatalog /\ authority'.boot = drawn + 1
      BY <1>1, <2>2 DEF Restart
    <3>2. \A m \in past : m.authority.boot \in Nat /\ m.authority.boot <= drawn
      BY <1>1, MaxBootsAssumption DEF HistoryInv, MomentsInv, Images, Authorities
    <3>3. drawn \in Nat
      BY <1>1, BootDrawn DEF HistoryInv
    <3>4. QED
      BY <3>1, <3>2, <3>3
  <2>3. QED
    BY <2>1, <2>2
<1>2. CoordinatorInv /\ HistoryInv => [Resumes]_vars
  BY <1>1
<1>3. QED
  BY <1>2, CoordinatorInvHolds, HistoryInvHolds, PTL DEF ResumesOneMoment
=============================================================================
