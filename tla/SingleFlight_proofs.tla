-------------------------- MODULE SingleFlight_proofs --------------------------
(***************************************************************************)
(* Proofs about get_or_build for any number of threads, artifacts and      *)
(* flights: one producer at a time, and the promise of BuildOnce.  Both    *)
(* rest on where a flight is while somebody holds it: in the map until its *)
(* owner takes it out, and the owner takes out only what has failed.       *)
(***************************************************************************)
EXTENDS SingleFlight, TLAPS

Steps == {"idle", "claim", "build", "settle", "notify", "erase", "wait", "asleep"}

(* The owner of a flight, from claim_owner to the end of its own part. *)
Owning == {"build", "settle", "notify", "erase"}

Records == [claimed : BOOLEAN, done : BOOLEAN, failed : BOOLEAN, result : Threads \cup {Zero}]

FlightTypes ==
  /\ flights \in [Keys -> Flights \cup {None}]
  /\ flight \in [Flights -> Records]
  /\ pc \in [Threads -> Steps]
  /\ key \in [Threads -> Keys \cup {None}]
  /\ sub \in [Threads -> Flights \cup {None}]
  /\ outcome \in [Threads -> Outcomes \cup {None}]
  /\ published \in [Keys -> Threads \cup {None}]

(* A thread has a flight and an artifact exactly while it is in a call. *)
Holding ==
  \A t \in Threads :
    IF pc[t] = "idle" THEN key[t] = None /\ sub[t] = None ELSE key[t] \in Keys /\ sub[t] \in Flights

OneArtifactEach == \A k, l \in Keys : flights[k] = flights[l] /\ flights[k] # None => k = l

(* What nobody has claimed yet is still in the map. *)
UnclaimedInMap ==
  \A t \in Threads : pc[t] # "idle" /\ ~flight[sub[t]].claimed => flights[key[t]] = sub[t]

OwnersInMap ==
  \A t \in Threads : pc[t] \in Owning => flight[sub[t]].claimed /\ flights[key[t]] = sub[t]

OneOwner ==
  \A t, u \in Threads : pc[t] \in Owning /\ pc[u] \in Owning /\ sub[t] = sub[u] => t = u

FlightInv ==
  /\ FlightTypes /\ Holding /\ OneArtifactEach /\ UnclaimedInMap /\ OwnersInMap /\ OneOwner

(* The rest is about outcomes, when every failure has a message. *)

(* The owner has settled its flight when it goes on to tell the others. *)
OwnersProgress ==
  \A t \in Threads :
    /\ pc[t] \in {"build", "settle"} => ~flight[sub[t]].done
    /\ pc[t] = "settle" =>
         outcome[t] \in Outcomes /\ (outcome[t] = "committed" => published[key[t]] = t)
    /\ pc[t] = "notify" =>
         /\ flight[sub[t]].done
         /\ outcome[t] \in Outcomes /\ (outcome[t] = "committed" <=> ~flight[sub[t]].failed)
    /\ pc[t] = "erase" => flight[sub[t]].failed

FlightsInOrder ==
  \A f \in Flights : (flight[f].failed => flight[f].done) /\ (flight[f].done => flight[f].claimed)

(* Only a failed flight leaves the map while somebody holds it. *)
LeftMapFailed ==
  \A t \in Threads : pc[t] # "idle" /\ flights[key[t]] # sub[t] => flight[sub[t]].failed

(* What is published came from the flight that is in the map. *)
PublishedByFlight ==
  \A k \in Keys : published[k] # None =>
    /\ flights[k] # None
    /\ flight[flights[k]].claimed /\ ~flight[flights[k]].failed
    /\ ~flight[flights[k]].done =>
         \E t \in Threads : pc[t] = "settle" /\ key[t] = k /\ outcome[t] = "committed" /\ published[k] = t

SuccessPublished ==
  \A k \in Keys : flights[k] # None /\ flight[flights[k]].done /\ ~flight[flights[k]].failed =>
    published[k] # None /\ published[k] = flight[flights[k]].result

OutcomeInv ==
  /\ OwnersProgress /\ FlightsInOrder /\ LeftMapFailed /\ PublishedByFlight /\ SuccessPublished

-----------------------------------------------------------------------------
LEMMA FreshTypes == Fresh \in Records /\ ~Fresh.claimed /\ ~Fresh.done /\ ~Fresh.failed
BY DEF Fresh, Records

LEMMA InitFlightInv == Init => FlightInv
<1> SUFFICES ASSUME Init PROVE FlightInv
  OBVIOUS
<1>1. FlightTypes
  BY FreshTypes DEF Init, FlightTypes, Steps
<1>2. \A t \in Threads : pc[t] = "idle" /\ key[t] = None /\ sub[t] = None
  BY DEF Init
<1>3. \A k \in Keys : flights[k] = None
  BY DEF Init
<1>4. QED
  BY <1>1, <1>2, <1>3
  DEF FlightInv, Holding, OneArtifactEach, UnclaimedInMap, OwnersInMap, OneOwner, Owning

(* Steps that open, claim and give up nothing. *)
LEMMA NothingClaimed ==
  ASSUME FlightInv, FlightTypes', UNCHANGED <<flights, key, sub>>,
         \A f \in Flights : flight'[f].claimed = flight[f].claimed,
         \A t \in Threads : /\ pc'[t] = "idle" <=> pc[t] = "idle"
                            /\ pc'[t] \in Owning => pc[t] \in Owning
  PROVE  FlightInv'
<1>1. Holding'
  BY DEF FlightInv, Holding
<1>2. OneArtifactEach'
  BY DEF FlightInv, OneArtifactEach
<1>3. UnclaimedInMap'
  BY DEF FlightInv, Holding, UnclaimedInMap
<1>4. OwnersInMap'
  BY DEF FlightInv, Holding, OwnersInMap, Owning
<1>5. OneOwner'
  BY DEF FlightInv, OneOwner
<1>6. QED
  BY <1>1, <1>2, <1>3, <1>4, <1>5 DEF FlightInv

LEMMA JoinInv ==
  ASSUME FlightInv, NEW t \in Threads, NEW k \in Keys, Join(t, k)
  PROVE  FlightInv'
<1>1. /\ pc' = [pc EXCEPT ![t] = "claim"] /\ pc[t] = "idle"
      /\ key' = [key EXCEPT ![t] = k]
      /\ sub' = [sub EXCEPT ![t] = flights[k]]
      /\ flights[k] \in Flights
      /\ UNCHANGED <<flights, flight, outcome, published>>
  BY DEF Join, GoesTo, FlightInv, FlightTypes
<1>2. FlightTypes'
  BY <1>1 DEF FlightInv, FlightTypes, Steps
<1>3. /\ pc'[t] = "claim" /\ key'[t] = k /\ sub'[t] = flights[k]
      /\ \A u \in Threads \ {t} : pc'[u] = pc[u] /\ key'[u] = key[u] /\ sub'[u] = sub[u]
  BY <1>1 DEF FlightInv, FlightTypes
<1>4. Holding'
  BY <1>1, <1>3 DEF FlightInv, Holding
<1>5. OneArtifactEach'
  BY <1>1 DEF FlightInv, OneArtifactEach
<1>6. UnclaimedInMap'
  BY <1>1, <1>3 DEF FlightInv, UnclaimedInMap
<1>7. OwnersInMap'
  BY <1>1, <1>3 DEF FlightInv, OwnersInMap, Owning
<1>8. OneOwner'
  BY <1>3 DEF FlightInv, OneOwner, Owning
<1>9. QED
  BY <1>2, <1>4, <1>5, <1>6, <1>7, <1>8 DEF FlightInv

(* A free flight is in nobody's hands and not in the map. *)
LEMMA FreeFlight ==
  ASSUME FlightInv, NEW t \in Threads, NEW k \in Keys, NEW f \in Flights, Open(t, k, f)
  PROVE  /\ f # None
         /\ \A l \in Keys : flights[l] # f
         /\ \A u \in Threads : sub[u] # f
<1>1. f \in Free
  BY DEF Open
<1>2. QED
  BY <1>1, NamesAssumption DEF Free

LEMMA OpenInv ==
  ASSUME FlightInv, NEW t \in Threads, NEW k \in Keys, NEW f \in Flights, Open(t, k, f)
  PROVE  FlightInv'
<1>0. f # None /\ (\A l \in Keys : flights[l] # f) /\ (\A u \in Threads : sub[u] # f)
  BY FreeFlight
<1>1. /\ pc' = [pc EXCEPT ![t] = "claim"] /\ pc[t] = "idle"
      /\ key' = [key EXCEPT ![t] = k]
      /\ sub' = [sub EXCEPT ![t] = f]
      /\ flights[k] = None
      /\ flights' = [flights EXCEPT ![k] = f]
      /\ flight' = [flight EXCEPT ![f] = Fresh]
      /\ UNCHANGED <<outcome, published>>
  BY DEF Open, GoesTo
<1>2. FlightTypes'
  BY <1>1, FreshTypes DEF FlightInv, FlightTypes, Steps
<1>3. /\ pc'[t] = "claim" /\ key'[t] = k /\ sub'[t] = f
      /\ \A u \in Threads \ {t} : pc'[u] = pc[u] /\ key'[u] = key[u] /\ sub'[u] = sub[u]
      /\ flights'[k] = f /\ \A l \in Keys \ {k} : flights'[l] = flights[l]
      /\ \A g \in Flights \ {f} : flight'[g] = flight[g]
  BY <1>1 DEF FlightInv, FlightTypes
<1>4. Holding'
  BY <1>1, <1>3 DEF FlightInv, Holding
<1>5. OneArtifactEach'
  BY <1>0, <1>3 DEF FlightInv, OneArtifactEach
<1>6. UnclaimedInMap'
  <2> SUFFICES ASSUME NEW u \in Threads, pc'[u] # "idle", ~flight'[sub'[u]].claimed
               PROVE  flights'[key'[u]] = sub'[u]
    BY DEF UnclaimedInMap
  <2>1. CASE u = t
    BY <1>3, <2>1
  <2>2. CASE u # t
    <3>1. pc[u] # "idle" /\ sub[u] \in Flights \ {f} /\ key[u] \in Keys
      BY <1>0, <1>3, <2>2 DEF FlightInv, Holding
    <3>2. flights[key[u]] = sub[u]
      BY <1>3, <2>2, <3>1 DEF FlightInv, UnclaimedInMap
    <3>3. key[u] # k
      BY <1>1, <3>1, <3>2, NamesAssumption
    <3>4. QED
      BY <1>3, <2>2, <3>1, <3>2, <3>3
  <2>3. QED
    BY <2>1, <2>2
<1>7. OwnersInMap'
  <2> SUFFICES ASSUME NEW u \in Threads, pc'[u] \in Owning
               PROVE  flight'[sub'[u]].claimed /\ flights'[key'[u]] = sub'[u]
    BY DEF OwnersInMap
  <2>1. u # t
    BY <1>3 DEF Owning
  <2>2. pc[u] \in Owning /\ sub[u] \in Flights \ {f} /\ key[u] \in Keys
    BY <1>0, <1>3, <2>1 DEF FlightInv, Holding, Owning
  <2>3. flight[sub[u]].claimed /\ flights[key[u]] = sub[u]
    BY <2>2 DEF FlightInv, OwnersInMap
  <2>4. key[u] # k
    BY <1>1, <2>2, <2>3, NamesAssumption
  <2>5. QED
    BY <1>3, <2>1, <2>2, <2>3, <2>4
<1>8. OneOwner'
  BY <1>3 DEF FlightInv, OneOwner, Owning
<1>9. QED
  BY <1>2, <1>4, <1>5, <1>6, <1>7, <1>8 DEF FlightInv

LEMMA ClaimInv ==
  ASSUME FlightInv, NEW t \in Threads, Claim(t)
  PROVE  FlightInv'
<1> DEFINE step == IF ~flight[sub[t]].claimed THEN "build" ELSE "wait"
<1>1. /\ pc' = [pc EXCEPT ![t] = step] /\ pc[t] = "claim"
      /\ flight' = [flight EXCEPT ![sub[t]].claimed = TRUE]
      /\ UNCHANGED <<flights, key, sub, outcome, published>>
  BY DEF Claim, GoesTo, Claimable
<1>2. step \in {"build", "wait"} /\ (step = "build" => ~flight[sub[t]].claimed)
  OBVIOUS
<1>3. sub[t] \in Flights /\ key[t] \in Keys
  BY <1>1 DEF FlightInv, Holding
<1> HIDE DEF step
<1>4. FlightTypes'
  BY <1>1, <1>2, <1>3 DEF FlightInv, FlightTypes, Steps, Records
<1>5. /\ pc'[t] = step /\ \A u \in Threads \ {t} : pc'[u] = pc[u]
      /\ flight'[sub[t]].claimed
      /\ \A f \in Flights \ {sub[t]} : flight'[f] = flight[f]
  BY <1>1, <1>3 DEF FlightInv, FlightTypes, Records
<1>6. Holding'
  BY <1>1, <1>2, <1>3, <1>5 DEF FlightInv, Holding
<1>7. OneArtifactEach'
  BY <1>1 DEF FlightInv, OneArtifactEach
<1>8. UnclaimedInMap'
  <2> SUFFICES ASSUME NEW u \in Threads, pc'[u] # "idle", ~flight'[sub[u]].claimed
               PROVE  flights[key[u]] = sub[u]
    BY <1>1 DEF UnclaimedInMap
  <2>1. sub[u] # sub[t] /\ u # t
    BY <1>5
  <2>2. pc[u] # "idle"
    BY <1>5, <2>1
  <2>3. ~flight[sub[u]].claimed
    BY <1>5, <2>1, <2>2 DEF FlightInv, Holding
  <2>4. QED
    BY <2>2, <2>3 DEF FlightInv, UnclaimedInMap
<1>9. OwnersInMap'
  <2> SUFFICES ASSUME NEW u \in Threads, pc'[u] \in Owning
               PROVE  flight'[sub[u]].claimed /\ flights[key[u]] = sub[u]
    BY <1>1 DEF OwnersInMap
  <2>1. CASE u = t
    <3>1. step = "build"
      BY <1>2, <1>5, <2>1 DEF Owning
    <3>2. flights[key[t]] = sub[t]
      BY <1>1, <1>2, <3>1 DEF FlightInv, UnclaimedInMap
    <3>3. QED
      BY <1>5, <2>1, <3>2
  <2>2. CASE u # t
    <3>1. pc[u] \in Owning /\ sub[u] \in Flights
      BY <1>5, <2>2 DEF FlightInv, Holding, Owning
    <3>2. flight[sub[u]].claimed /\ flights[key[u]] = sub[u]
      BY <3>1 DEF FlightInv, OwnersInMap
    <3>3. QED
      BY <1>5, <3>1, <3>2
  <2>3. QED
    BY <2>1, <2>2
<1>10. OneOwner'
  <2> SUFFICES ASSUME NEW u \in Threads, NEW v \in Threads, pc'[u] \in Owning, pc'[v] \in Owning,
                      sub[u] = sub[v], u # v
               PROVE  FALSE
    BY <1>1 DEF OneOwner
  <2>1. CASE u # t /\ v # t
    BY <1>5, <2>1 DEF FlightInv, OneOwner
  <2>2. CASE u = t
    <3>1. ~flight[sub[t]].claimed
      BY <1>2, <1>5, <2>2 DEF Owning
    <3>2. pc[v] \in Owning
      BY <1>5, <2>2
    <3>3. QED
      BY <2>2, <3>1, <3>2 DEF FlightInv, OwnersInMap
  <2>3. CASE v = t
    <3>1. ~flight[sub[t]].claimed
      BY <1>2, <1>5, <2>3 DEF Owning
    <3>2. pc[u] \in Owning
      BY <1>5, <2>3
    <3>3. QED
      BY <2>3, <3>1, <3>2 DEF FlightInv, OwnersInMap
  <2>4. QED
    BY <2>1, <2>2, <2>3
<1>11. QED
  BY <1>4, <1>6, <1>7, <1>8, <1>9, <1>10 DEF FlightInv

LEMMA ProduceInv ==
  ASSUME FlightInv, NEW t \in Threads, NEW o \in Outcomes, Produce(t, o)
  PROVE  FlightInv'
<1>1. /\ pc' = [pc EXCEPT ![t] = "settle"] /\ pc[t] = "build"
      /\ outcome' = [outcome EXCEPT ![t] = o]
      /\ published' = IF o = "committed" THEN [published EXCEPT ![key[t]] = t] ELSE published
      /\ UNCHANGED <<flights, flight, key, sub>>
  BY DEF Produce, GoesTo
<1>2. FlightTypes'
  BY <1>1 DEF FlightInv, FlightTypes, Steps
<1>3. \A u \in Threads : /\ pc'[u] = "idle" <=> pc[u] = "idle"
                         /\ pc'[u] \in Owning => pc[u] \in Owning
  BY <1>1 DEF FlightInv, FlightTypes, Owning
<1>4. QED
  BY <1>1, <1>2, <1>3, NothingClaimed

(* What Settle leaves of the flights. *)
LEMMA Settled ==
  ASSUME FlightInv, NEW t \in Threads, Settle(t)
  PROVE  /\ sub[t] \in Flights
         /\ flight' \in [Flights -> Records]
         /\ \A f \in Flights : flight'[f].claimed = flight[f].claimed
         /\ \A f \in Flights \ {sub[t]} : flight'[f] = flight[f]
         /\ flight'[sub[t]].done
         /\ ~flight[sub[t]].done => /\ flight'[sub[t]].failed = (outcome[t] = "failed")
                                    /\ flight'[sub[t]].result = ResultOf(t)
<1>1. sub[t] \in Flights
  BY DEF Settle, FlightInv, Holding
<1>2. flight[sub[t]] \in Records /\ ResultOf(t) \in Threads \cup {Zero}
  BY <1>1 DEF FlightInv, FlightTypes, ResultOf
<1> DEFINE r == IF flight[sub[t]].done THEN flight[sub[t]]
                ELSE [flight[sub[t]] EXCEPT !.done = TRUE,
                                            !.failed = (outcome[t] = "failed"),
                                            !.result = ResultOf(t)]
<1>3. /\ r \in Records /\ r.claimed = flight[sub[t]].claimed /\ r.done
      /\ ~flight[sub[t]].done => /\ r.failed = (outcome[t] = "failed")
                                 /\ r.result = ResultOf(t)
  BY <1>2 DEF Records
<1>4. flight' = [flight EXCEPT ![sub[t]] = r]
  BY DEF Settle
<1> HIDE DEF r
<1>5. QED
  BY <1>1, <1>3, <1>4 DEF FlightInv, FlightTypes

LEMMA SettleInv ==
  ASSUME FlightInv, NEW t \in Threads, Settle(t)
  PROVE  FlightInv'
<1>1. /\ pc' = [pc EXCEPT ![t] = "notify"] /\ pc[t] = "settle"
      /\ UNCHANGED <<flights, key, sub, outcome, published>>
  BY DEF Settle, GoesTo
<1>2. FlightTypes'
  BY <1>1, Settled DEF FlightInv, FlightTypes, Steps
<1>3. \A u \in Threads : /\ pc'[u] = "idle" <=> pc[u] = "idle"
                         /\ pc'[u] \in Owning => pc[u] \in Owning
  BY <1>1 DEF FlightInv, FlightTypes, Owning
<1>4. QED
  BY <1>1, <1>2, <1>3, Settled, NothingClaimed

(* Where Notify leaves the threads. *)
LEMMA Notified ==
  ASSUME FlightInv, NEW t \in Threads, Notify(t)
  PROVE  /\ pc' \in [Threads -> Steps]
         /\ pc'[t] = IF outcome[t] # "committed" THEN "erase" ELSE "wait"
         /\ \A u \in Threads \ {t} :
              pc'[u] = pc[u] \/ (pc[u] = "asleep" /\ pc'[u] = "wait")
<1>1. pc' = [u \in Threads |->
              CASE u = t              -> IF Forgets(t) THEN "erase" ELSE "wait"
                [] u \in Woken(sub[t]) -> "wait"
                [] OTHER              -> pc[u]]
  BY DEF Notify
<1>2. pc'[t] = IF outcome[t] # "committed" THEN "erase" ELSE "wait"
  <2>1. t \notin Woken(sub[t])
    BY DEF Notify, Woken, Sleepers
  <2>2. pc'[t] = IF Forgets(t) THEN "erase" ELSE "wait"
    BY <1>1, <2>1
  <2>3. QED
    BY <2>2 DEF Forgets
<1>3. \A u \in Threads \ {t} : pc'[u] = pc[u] \/ (pc[u] = "asleep" /\ pc'[u] = "wait")
  <2> SUFFICES ASSUME NEW u \in Threads \ {t}
               PROVE  pc'[u] = pc[u] \/ (pc[u] = "asleep" /\ pc'[u] = "wait")
    OBVIOUS
  <2>1. CASE u \in Woken(sub[t])
    BY <1>1, <2>1 DEF Woken, Sleepers
  <2>2. CASE u \notin Woken(sub[t])
    BY <1>1, <2>2
  <2>3. QED
    BY <2>1, <2>2
<1>4. \A u \in Threads : pc'[u] \in Steps
  BY <1>2, <1>3 DEF FlightInv, FlightTypes, Steps
<1>5. pc' \in [Threads -> Steps]
  BY <1>1, <1>4
<1>6. QED
  BY <1>2, <1>3, <1>5

LEMMA NotifyInv ==
  ASSUME FlightInv, NEW t \in Threads, Notify(t)
  PROVE  FlightInv'
<1>1. /\ outcome' = [outcome EXCEPT ![t] = None] /\ pc[t] = "notify"
      /\ UNCHANGED <<flights, flight, key, sub, published>>
  BY DEF Notify
<1>2. FlightTypes'
  BY <1>1, Notified DEF FlightInv, FlightTypes
<1>3. \A u \in Threads : /\ pc'[u] = "idle" <=> pc[u] = "idle"
                         /\ pc'[u] \in Owning => pc[u] \in Owning
  BY <1>1, Notified DEF Owning
<1>4. QED
  BY <1>1, <1>2, <1>3, NothingClaimed

LEMMA WaitInv ==
  ASSUME FlightInv, NEW t \in Threads, Sleep(t) \/ WakeSpuriously(t)
  PROVE  FlightInv'
<1>1. /\ \/ pc[t] = "wait" /\ pc' = [pc EXCEPT ![t] = "asleep"]
         \/ pc[t] = "asleep" /\ pc' = [pc EXCEPT ![t] = "wait"]
      /\ UNCHANGED <<flights, flight, key, sub, outcome, published>>
  BY DEF Sleep, WakeSpuriously, GoesTo
<1>2. FlightTypes'
  BY <1>1 DEF FlightInv, FlightTypes, Steps
<1>3. \A u \in Threads : /\ pc'[u] = "idle" <=> pc[u] = "idle"
                         /\ pc'[u] \in Owning => pc[u] \in Owning
  BY <1>1 DEF FlightInv, FlightTypes, Owning
<1>4. QED
  BY <1>1, <1>2, <1>3, NothingClaimed

(* The owner finds its own flight when it comes to erase it: nobody has    *)
(* opened another one meanwhile.                                           *)
LEMMA EraseInv ==
  ASSUME FlightInv, NEW t \in Threads, Erase(t)
  PROVE  FlightInv'
<1>1. /\ pc[t] = "erase" /\ pc' = [pc EXCEPT ![t] = "wait"]
      /\ UNCHANGED <<flight, key, sub, outcome, published>>
  BY DEF Erase, GoesTo
<1>2. /\ flights[key[t]] = sub[t] /\ flight[sub[t]].claimed
      /\ sub[t] \in Flights /\ key[t] \in Keys
  BY <1>1 DEF FlightInv, OwnersInMap, Owning, Holding
<1>3. flights' = [flights EXCEPT ![key[t]] = None]
  BY <1>2 DEF Erase
<1>4. FlightTypes'
  BY <1>1, <1>3 DEF FlightInv, FlightTypes, Steps
<1>5. /\ pc'[t] = "wait" /\ \A u \in Threads \ {t} : pc'[u] = pc[u]
      /\ \A l \in Keys : flights'[l] = IF l = key[t] THEN None ELSE flights[l]
  BY <1>1, <1>3 DEF FlightInv, FlightTypes
<1>6. Holding'
  BY <1>1, <1>2, <1>5 DEF FlightInv, Holding
<1>7. OneArtifactEach'
  BY <1>5 DEF FlightInv, OneArtifactEach
<1>8. UnclaimedInMap'
  <2> SUFFICES ASSUME NEW u \in Threads, pc'[u] # "idle", ~flight[sub[u]].claimed
               PROVE  flights'[key[u]] = sub[u]
    BY <1>1 DEF UnclaimedInMap
  <2>1. u # t /\ sub[u] # sub[t]
    BY <1>2
  <2>2. pc[u] # "idle" /\ key[u] \in Keys /\ flights[key[u]] = sub[u]
    BY <1>5, <2>1 DEF FlightInv, UnclaimedInMap, Holding
  <2>3. key[u] # key[t]
    BY <1>2, <2>1, <2>2
  <2>4. QED
    BY <1>5, <2>2, <2>3
<1>9. OwnersInMap'
  <2> SUFFICES ASSUME NEW u \in Threads, pc'[u] \in Owning
               PROVE  flight[sub[u]].claimed /\ flights'[key[u]] = sub[u]
    BY <1>1 DEF OwnersInMap
  <2>1. u # t
    BY <1>5 DEF Owning
  <2>2. pc[u] \in Owning /\ key[u] \in Keys /\ flight[sub[u]].claimed /\ flights[key[u]] = sub[u]
    BY <1>5, <2>1 DEF FlightInv, OwnersInMap, Holding, Owning
  <2>3. sub[u] # sub[t]
    BY <1>1, <2>1, <2>2 DEF FlightInv, OneOwner, Owning
  <2>4. key[u] # key[t]
    BY <1>2, <2>2, <2>3
  <2>5. QED
    BY <1>5, <2>2, <2>4
<1>10. OneOwner'
  BY <1>1, <1>5 DEF FlightInv, OneOwner, Owning
<1>11. QED
  BY <1>4, <1>6, <1>7, <1>8, <1>9, <1>10 DEF FlightInv

LEMMA ReturnInv ==
  ASSUME FlightInv, NEW t \in Threads, Return(t)
  PROVE  FlightInv'
<1>1. /\ pc[t] = "wait" /\ pc' = [pc EXCEPT ![t] = "idle"]
      /\ key' = [key EXCEPT ![t] = None]
      /\ sub' = [sub EXCEPT ![t] = None]
      /\ flight' = IF LastHolder(t) THEN [flight EXCEPT ![sub[t]] = Fresh] ELSE flight
      /\ UNCHANGED <<flights, outcome, published>>
  BY DEF Return, GoesTo
<1>2. FlightTypes'
  BY <1>1, FreshTypes DEF FlightInv, FlightTypes, Steps
<1>3. /\ pc'[t] = "idle" /\ key'[t] = None /\ sub'[t] = None
      /\ \A u \in Threads \ {t} : pc'[u] = pc[u] /\ key'[u] = key[u] /\ sub'[u] = sub[u]
  BY <1>1 DEF FlightInv, FlightTypes
<1>4. \A u \in Threads \ {t} : pc[u] # "idle" => flight'[sub[u]] = flight[sub[u]]
  BY <1>1 DEF FlightInv, FlightTypes, Holding, LastHolder
<1>5. Holding'
  BY <1>3 DEF FlightInv, Holding
<1>6. OneArtifactEach'
  BY <1>1 DEF FlightInv, OneArtifactEach
<1>7. UnclaimedInMap'
  BY <1>1, <1>3, <1>4 DEF FlightInv, UnclaimedInMap
<1>8. OwnersInMap'
  BY <1>1, <1>3, <1>4 DEF FlightInv, OwnersInMap, Owning
<1>9. OneOwner'
  BY <1>3 DEF FlightInv, OneOwner, Owning
<1>10. QED
  BY <1>2, <1>5, <1>6, <1>7, <1>8, <1>9 DEF FlightInv

LEMMA NextFlightInv == FlightInv /\ [Next]_vars => FlightInv'
<1> SUFFICES ASSUME FlightInv, [Next]_vars PROVE FlightInv'
  OBVIOUS
<1>1. CASE UNCHANGED vars
  BY <1>1
  DEF vars, FlightInv, FlightTypes, Holding, OneArtifactEach, UnclaimedInMap, OwnersInMap, OneOwner
<1>2. CASE Next
  <2> PICK t \in Threads : Enter(t) \/ Proceed(t) \/ WakeSpuriously(t)
    BY <1>2 DEF Next
  <2>1. CASE Enter(t)
    BY <2>1, JoinInv, OpenInv DEF Enter
  <2>2. CASE Proceed(t)
    BY <2>2, ClaimInv, ProduceInv, SettleInv, NotifyInv, EraseInv, WaitInv, ReturnInv DEF Proceed
  <2>3. CASE WakeSpuriously(t)
    BY <2>3, WaitInv
  <2>4. QED
    BY <2>1, <2>2, <2>3
<1>3. QED
  BY <1>1, <1>2

LEMMA FlightInvariant == Spec => []FlightInv
<1>1. Init => FlightInv
  BY InitFlightInv
<1>2. FlightInv /\ [Next]_vars => FlightInv'
  BY NextFlightInv
<1>3. QED
  BY <1>1, <1>2, PTL DEF Spec

(* At no time do two producers of one artifact run, however many threads   *)
(* ask, wake up spuriously, fail and retry: both owners' flights are in    *)
(* the map under their artifact, so they are one flight, and a flight has  *)
(* one owner.                                                              *)
THEOREM OneProducer == Spec => []ExclusiveBuild
<1>1. FlightInv => ExclusiveBuild
  <2> SUFFICES ASSUME FlightInv, NEW t \in Threads, NEW u \in Threads,
                      pc[t] = "build", pc[u] \in Owning, key[t] = key[u]
               PROVE  t = u
    BY DEF ExclusiveBuild, Owning
  <2>1. flights[key[t]] = sub[t] /\ flights[key[u]] = sub[u]
    BY DEF FlightInv, OwnersInMap, Owning
  <2>2. QED
    BY <2>1 DEF FlightInv, OneOwner, Owning
<1>2. QED
  BY <1>1, FlightInvariant, PTL

-----------------------------------------------------------------------------
(* Every failure has a message. *)
FailuresHaveMessages == "blank" \notin Outcomes

LEMMA InitOutcomeInv == Init => OutcomeInv
<1> SUFFICES ASSUME Init PROVE OutcomeInv
  OBVIOUS
<1>1. /\ \A t \in Threads : pc[t] = "idle"
      /\ \A k \in Keys : flights[k] = None /\ published[k] = None
      /\ \A f \in Flights : ~flight[f].failed /\ ~flight[f].done
  BY FreshTypes DEF Init
<1>2. QED
  BY <1>1
  DEF OutcomeInv, OwnersProgress, FlightsInOrder, LeftMapFailed, PublishedByFlight, SuccessPublished

(* Two owners of one artifact are one. *)
LEMMA OneOwnerPerArtifact ==
  ASSUME FlightInv, NEW t \in Threads, NEW u \in Threads,
         pc[t] \in Owning, pc[u] \in Owning, key[t] = key[u] \/ sub[t] = sub[u]
  PROVE  t = u
<1>1. flights[key[t]] = sub[t] /\ flights[key[u]] = sub[u]
  BY DEF FlightInv, OwnersInMap
<1>2. QED
  BY <1>1 DEF FlightInv, OneOwner

LEMMA OwnersFacts ==
  ASSUME FlightInv, NEW t \in Threads, pc[t] \in Owning
  PROVE  /\ key[t] \in Keys /\ sub[t] \in Flights /\ sub[t] # None /\ flights[key[t]] = sub[t]
         /\ flight[sub[t]].claimed
         /\ \A k \in Keys : flights[k] = sub[t] => k = key[t]
<1>1. key[t] \in Keys /\ sub[t] \in Flights /\ flights[key[t]] = sub[t] /\ flight[sub[t]].claimed
  BY DEF FlightInv, OwnersInMap, Holding, Owning
<1>2. sub[t] # None
  BY <1>1, NamesAssumption
<1>3. QED
  BY <1>1, <1>2 DEF FlightInv, OneArtifactEach

(* Nothing is published while the producer runs or after it has failed. *)
LEMMA UnpublishedUntilDone ==
  ASSUME FlightInv, OutcomeInv, NEW t \in Threads,
         \/ pc[t] = "build"
         \/ pc[t] = "settle" /\ outcome[t] # "committed"
         \/ pc[t] = "erase"
  PROVE  published[key[t]] = None
<1> SUFFICES ASSUME published[key[t]] # None PROVE FALSE
  OBVIOUS
<1>1. /\ key[t] \in Keys /\ flights[key[t]] = sub[t]
  BY OwnersFacts DEF Owning
<1>2. ~flight[sub[t]].failed
  BY <1>1 DEF OutcomeInv, PublishedByFlight
<1>3. pc[t] # "erase"
  BY <1>2 DEF OutcomeInv, OwnersProgress
<1>4. ~flight[sub[t]].done
  BY <1>3 DEF OutcomeInv, OwnersProgress
<1>5. PICK u \in Threads : pc[u] = "settle" /\ key[u] = key[t] /\ outcome[u] = "committed"
  BY <1>1, <1>4 DEF OutcomeInv, PublishedByFlight
<1>6. u = t
  BY <1>3, <1>5, OneOwnerPerArtifact DEF Owning
<1>7. QED
  BY <1>3, <1>5, <1>6

(* Steps that leave the flights and the results alone. *)
LEMMA OutcomesUnmoved ==
  ASSUME FlightInv, OutcomeInv, UNCHANGED <<flights, flight, published>>, OwnersProgress',
         LeftMapFailed',
         \A t \in Threads : pc[t] = "settle" =>
           pc'[t] = "settle" /\ key'[t] = key[t] /\ outcome'[t] = outcome[t]
  PROVE  OutcomeInv'
<1>1. FlightsInOrder'
  BY DEF OutcomeInv, FlightsInOrder
<1>2. PublishedByFlight'
  BY DEF OutcomeInv, PublishedByFlight
<1>3. SuccessPublished'
  BY DEF OutcomeInv, SuccessPublished
<1>4. QED
  BY <1>1, <1>2, <1>3 DEF OutcomeInv

LEMMA JoinOutcome ==
  ASSUME FlightInv, OutcomeInv, NEW t \in Threads, NEW k \in Keys, Join(t, k)
  PROVE  OutcomeInv'
<1>1. /\ pc[t] = "idle" /\ pc'[t] = "claim" /\ key'[t] = k /\ sub'[t] = flights[k]
      /\ \A u \in Threads \ {t} : pc'[u] = pc[u] /\ key'[u] = key[u] /\ sub'[u] = sub[u]
      /\ UNCHANGED <<flights, flight, outcome, published>>
  BY DEF Join, GoesTo, FlightInv, FlightTypes
<1>2. OwnersProgress'
  BY <1>1 DEF OutcomeInv, OwnersProgress
<1>3. LeftMapFailed'
  BY <1>1 DEF OutcomeInv, LeftMapFailed
<1>4. QED
  BY <1>1, <1>2, <1>3, OutcomesUnmoved

LEMMA OpenOutcome ==
  ASSUME FlightInv, OutcomeInv, NEW t \in Threads, NEW k \in Keys, NEW f \in Flights, Open(t, k, f)
  PROVE  OutcomeInv'
<1>0. f # None /\ (\A l \in Keys : flights[l] # f) /\ (\A u \in Threads : sub[u] # f)
  BY FreeFlight
<1>1. /\ pc[t] = "idle" /\ pc'[t] = "claim" /\ key'[t] = k /\ sub'[t] = f
      /\ \A u \in Threads \ {t} : pc'[u] = pc[u] /\ key'[u] = key[u] /\ sub'[u] = sub[u]
      /\ flights[k] = None
      /\ flights'[k] = f /\ \A l \in Keys \ {k} : flights'[l] = flights[l]
      /\ flight'[f] = Fresh /\ \A g \in Flights \ {f} : flight'[g] = flight[g]
      /\ UNCHANGED <<outcome, published>>
  BY DEF Open, GoesTo, FlightInv, FlightTypes
<1>2. \A u \in Threads \ {t} : pc[u] # "idle" => flight'[sub[u]] = flight[sub[u]] /\ key[u] \in Keys
  BY <1>0, <1>1 DEF FlightInv, Holding
<1>3. OwnersProgress'
  BY <1>1, <1>2 DEF OutcomeInv, OwnersProgress
<1>4. FlightsInOrder'
  BY <1>1, FreshTypes DEF OutcomeInv, FlightsInOrder
<1>5. LeftMapFailed'
  <2> SUFFICES ASSUME NEW u \in Threads, pc'[u] # "idle", flights'[key'[u]] # sub'[u]
               PROVE  flight'[sub'[u]].failed
    BY DEF LeftMapFailed
  <2>1. u # t
    BY <1>1
  <2>2. pc[u] # "idle" /\ key[u] \in Keys
    BY <1>1, <1>2, <2>1
  <2>3. sub[u] # None
    BY <2>2, NamesAssumption DEF FlightInv, Holding
  <2>4. flights[key[u]] # sub[u]
    BY <1>1, <2>1, <2>2, <2>3
  <2>5. QED
    BY <1>1, <1>2, <2>1, <2>2, <2>4 DEF OutcomeInv, LeftMapFailed
<1>6. published[k] = None
  BY <1>1 DEF OutcomeInv, PublishedByFlight
<1>7. \A l \in Keys \ {k} : flights[l] # None => flight'[flights[l]] = flight[flights[l]]
  BY <1>0, <1>1 DEF FlightInv, FlightTypes
<1>8. PublishedByFlight'
  <2> SUFFICES ASSUME NEW l \in Keys, published'[l] # None
               PROVE  /\ flights'[l] # None
                      /\ flight'[flights'[l]].claimed /\ ~flight'[flights'[l]].failed
                      /\ ~flight'[flights'[l]].done =>
                           \E u \in Threads : /\ pc'[u] = "settle" /\ key'[u] = l
                                              /\ outcome'[u] = "committed" /\ published'[l] = u
    BY DEF PublishedByFlight
  <2>1. l # k
    BY <1>1, <1>6
  <2>2. flights[l] # None /\ flights'[l] = flights[l] /\ flight'[flights[l]] = flight[flights[l]]
    BY <1>1, <1>7, <2>1 DEF OutcomeInv, PublishedByFlight
  <2>3. flight[flights[l]].claimed /\ ~flight[flights[l]].failed
    BY <1>1 DEF OutcomeInv, PublishedByFlight
  <2>4. ASSUME ~flight[flights[l]].done
        PROVE  \E u \in Threads : /\ pc'[u] = "settle" /\ key'[u] = l
                                  /\ outcome'[u] = "committed" /\ published'[l] = u
    <3>1. PICK u \in Threads : /\ pc[u] = "settle" /\ key[u] = l
                               /\ outcome[u] = "committed" /\ published[l] = u
      BY <1>1, <2>4 DEF OutcomeInv, PublishedByFlight
    <3>2. u # t
      BY <1>1, <3>1
    <3>3. QED
      BY <1>1, <3>1, <3>2
  <2>5. QED
    BY <2>2, <2>3, <2>4
<1>9. SuccessPublished'
  <2> SUFFICES ASSUME NEW l \in Keys, flights'[l] # None,
                      flight'[flights'[l]].done, ~flight'[flights'[l]].failed
               PROVE  published'[l] # None /\ published'[l] = flight'[flights'[l]].result
    BY DEF SuccessPublished
  <2>1. l # k
    BY <1>1, FreshTypes
  <2>2. QED
    BY <1>1, <1>7, <2>1 DEF OutcomeInv, SuccessPublished
<1>10. QED
  BY <1>3, <1>4, <1>5, <1>8, <1>9 DEF OutcomeInv

LEMMA ClaimOutcome ==
  ASSUME FlightInv, OutcomeInv, NEW t \in Threads, Claim(t)
  PROVE  OutcomeInv'
<1>1. /\ pc[t] = "claim"
      /\ pc'[t] = IF ~flight[sub[t]].claimed THEN "build" ELSE "wait"
      /\ \A u \in Threads \ {t} : pc'[u] = pc[u]
      /\ flight' = [flight EXCEPT ![sub[t]].claimed = TRUE]
      /\ UNCHANGED <<flights, key, sub, outcome, published>>
  BY DEF Claim, GoesTo, Claimable, FlightInv, FlightTypes
<1>2. sub[t] \in Flights /\ flight \in [Flights -> Records]
  BY <1>1 DEF FlightInv, FlightTypes, Holding
<1>3. \A f \in Flights :
        /\ flight'[f].done = flight[f].done
        /\ flight'[f].failed = flight[f].failed
        /\ flight'[f].result = flight[f].result
        /\ flight[f].claimed => flight'[f].claimed
  BY <1>1, <1>2 DEF Records
<1>4. OwnersProgress'
  <2>1. \A u \in Threads : pc[u] # "idle" => sub[u] \in Flights
    BY DEF FlightInv, Holding
  <2>2. pc'[t] = "build" => ~flight[sub[t]].done
    BY <1>1, <1>2 DEF OutcomeInv, FlightsInOrder
  <2>3. QED
    BY <1>1, <1>3, <2>1, <2>2 DEF OutcomeInv, OwnersProgress
<1>5. FlightsInOrder'
  BY <1>3 DEF OutcomeInv, FlightsInOrder
<1>6. LeftMapFailed'
  BY <1>1, <1>2, <1>3 DEF OutcomeInv, LeftMapFailed, FlightInv, Holding
<1>7. \A k \in Keys : flights[k] # None => flights[k] \in Flights
  BY DEF FlightInv, FlightTypes
<1>8. \A u \in Threads : pc[u] = "settle" <=> pc'[u] = "settle"
  BY <1>1
<1>9. PublishedByFlight'
  BY <1>1, <1>3, <1>7, <1>8 DEF OutcomeInv, PublishedByFlight
<1>10. SuccessPublished'
  BY <1>1, <1>3, <1>7 DEF OutcomeInv, SuccessPublished
<1>11. QED
  BY <1>4, <1>5, <1>6, <1>9, <1>10 DEF OutcomeInv

LEMMA ProduceOutcome ==
  ASSUME FlightInv, OutcomeInv, NEW t \in Threads, NEW o \in Outcomes, Produce(t, o)
  PROVE  OutcomeInv'
<1>1. /\ pc[t] = "build" /\ pc'[t] = "settle" /\ outcome'[t] = o
      /\ \A u \in Threads \ {t} : pc'[u] = pc[u] /\ outcome'[u] = outcome[u]
      /\ UNCHANGED <<flights, flight, key, sub>>
  BY DEF Produce, GoesTo, FlightInv, FlightTypes
<1>2. /\ key[t] \in Keys /\ flights[key[t]] = sub[t] /\ sub[t] # None /\ flight[sub[t]].claimed
      /\ sub[t] \in Flights
      /\ \A k \in Keys : flights[k] = sub[t] => k = key[t]
  BY <1>1, OwnersFacts DEF Owning
<1>3. /\ \A k \in Keys \ {key[t]} : published'[k] = published[k]
      /\ published'[key[t]] = IF o = "committed" THEN t ELSE published[key[t]]
  BY <1>2 DEF Produce, FlightInv, FlightTypes
<1>4. ~flight[sub[t]].done /\ ~flight[sub[t]].failed
  BY <1>1, <1>2 DEF OutcomeInv, OwnersProgress, FlightsInOrder
<1>5. \A u \in Threads \ {t} : pc[u] \in Owning => key[u] # key[t] /\ key[u] \in Keys
  BY <1>1, OneOwnerPerArtifact, OwnersFacts DEF Owning
<1>6. OwnersProgress'
  <2> SUFFICES ASSUME NEW u \in Threads PROVE
        /\ pc'[u] \in {"build", "settle"} => ~flight[sub[u]].done
        /\ pc'[u] = "settle" =>
             outcome'[u] \in Outcomes /\ (outcome'[u] = "committed" => published'[key[u]] = u)
        /\ pc'[u] = "notify" =>
             /\ flight[sub[u]].done
             /\ outcome'[u] \in Outcomes /\ (outcome'[u] = "committed" <=> ~flight[sub[u]].failed)
        /\ pc'[u] = "erase" => flight[sub[u]].failed
    BY <1>1 DEF OwnersProgress
  <2>1. CASE u = t
    BY <1>1, <1>3, <1>4, <2>1
  <2>2. CASE u # t
    BY <1>1, <1>3, <1>5, <2>2 DEF OutcomeInv, OwnersProgress, Owning
  <2>3. QED
    BY <2>1, <2>2
<1>7. FlightsInOrder'
  BY <1>1 DEF OutcomeInv, FlightsInOrder
<1>8. LeftMapFailed'
  BY <1>1 DEF OutcomeInv, LeftMapFailed
<1>9. published[key[t]] = None
  BY <1>1, UnpublishedUntilDone
<1>10. PublishedByFlight'
  <2> SUFFICES ASSUME NEW k \in Keys, published'[k] # None
               PROVE  /\ flights[k] # None
                      /\ flight[flights[k]].claimed /\ ~flight[flights[k]].failed
                      /\ ~flight[flights[k]].done =>
                           \E u \in Threads : /\ pc'[u] = "settle" /\ key[u] = k
                                              /\ outcome'[u] = "committed" /\ published'[k] = u
    BY <1>1 DEF PublishedByFlight
  <2>1. CASE k = key[t]
    <3>1. o = "committed" /\ published'[k] = t
      BY <1>3, <1>9, <2>1
    <3>2. QED
      BY <1>1, <1>2, <1>4, <2>1, <3>1
  <2>2. CASE k # key[t]
    <3>1. published[k] # None
      BY <1>3, <2>2
    <3>2. flights[k] # None /\ flight[flights[k]].claimed /\ ~flight[flights[k]].failed
      BY <3>1 DEF OutcomeInv, PublishedByFlight
    <3>3. ASSUME ~flight[flights[k]].done
          PROVE  \E u \in Threads : /\ pc'[u] = "settle" /\ key[u] = k
                                    /\ outcome'[u] = "committed" /\ published'[k] = u
      <4>1. PICK u \in Threads : /\ pc[u] = "settle" /\ key[u] = k
                                 /\ outcome[u] = "committed" /\ published[k] = u
        BY <3>1, <3>3 DEF OutcomeInv, PublishedByFlight
      <4>2. QED
        BY <1>1, <1>3, <2>2, <4>1
    <3>4. QED
      BY <3>2, <3>3
  <2>3. QED
    BY <2>1, <2>2
<1>11. SuccessPublished'
  <2> SUFFICES ASSUME NEW k \in Keys, flights[k] # None, flight[flights[k]].done,
                      ~flight[flights[k]].failed
               PROVE  published'[k] # None /\ published'[k] = flight[flights[k]].result
    BY <1>1 DEF SuccessPublished
  <2>1. k # key[t]
    BY <1>2, <1>4
  <2>2. QED
    BY <1>3, <2>1 DEF OutcomeInv, SuccessPublished
<1>12. QED
  BY <1>6, <1>7, <1>8, <1>10, <1>11 DEF OutcomeInv

LEMMA SettleOutcome ==
  ASSUME FailuresHaveMessages, FlightInv, OutcomeInv, NEW t \in Threads, Settle(t)
  PROVE  OutcomeInv'
<1>1. /\ pc[t] = "settle" /\ pc'[t] = "notify"
      /\ \A u \in Threads \ {t} : pc'[u] = pc[u]
      /\ UNCHANGED <<flights, key, sub, outcome, published>>
  BY DEF Settle, GoesTo, FlightInv, FlightTypes
<1>2. /\ key[t] \in Keys /\ flights[key[t]] = sub[t] /\ sub[t] # None /\ flight[sub[t]].claimed
      /\ sub[t] \in Flights
      /\ \A k \in Keys : flights[k] = sub[t] => k = key[t]
  BY <1>1, OwnersFacts DEF Owning
<1>3. ~flight[sub[t]].done /\ ~flight[sub[t]].failed
  BY <1>1, <1>2 DEF OutcomeInv, OwnersProgress, FlightsInOrder
<1>4. /\ outcome[t] \in {"committed", "failed"}
      /\ outcome[t] = "committed" => published[key[t]] = t
  BY <1>1, OutcomesAssumption DEF OutcomeInv, OwnersProgress, FailuresHaveMessages
<1>5. /\ \A f \in Flights : flight'[f].claimed = flight[f].claimed
      /\ \A f \in Flights \ {sub[t]} : flight'[f] = flight[f]
      /\ flight'[sub[t]].done
      /\ flight'[sub[t]].failed <=> outcome[t] = "failed"
      /\ flight'[sub[t]].result = ResultOf(t)
  BY <1>3, Settled
<1>6. \A u \in Threads \ {t} : pc[u] \in Owning =>
        sub[u] \in Flights \ {sub[t]} /\ flight'[sub[u]] = flight[sub[u]]
  <2> SUFFICES ASSUME NEW u \in Threads \ {t}, pc[u] \in Owning
               PROVE  sub[u] \in Flights \ {sub[t]}
    BY <1>5
  <2>1. sub[u] # sub[t]
    BY <1>1, OneOwnerPerArtifact DEF Owning
  <2>2. QED
    BY <2>1, OwnersFacts
<1>7. OwnersProgress'
  <2> SUFFICES ASSUME NEW u \in Threads PROVE
        /\ pc'[u] \in {"build", "settle"} => ~flight'[sub[u]].done
        /\ pc'[u] = "settle" =>
             outcome[u] \in Outcomes /\ (outcome[u] = "committed" => published[key[u]] = u)
        /\ pc'[u] = "notify" =>
             /\ flight'[sub[u]].done
             /\ outcome[u] \in Outcomes /\ (outcome[u] = "committed" <=> ~flight'[sub[u]].failed)
        /\ pc'[u] = "erase" => flight'[sub[u]].failed
    BY <1>1 DEF OwnersProgress
  <2>1. CASE u = t
    <3>1. outcome[t] \in Outcomes
      BY <1>1 DEF OutcomeInv, OwnersProgress
    <3>2. QED
      BY <1>1, <1>4, <1>5, <2>1, <3>1
  <2>2. CASE u # t
    BY <1>1, <1>6, <2>2 DEF OutcomeInv, OwnersProgress, Owning
  <2>3. QED
    BY <2>1, <2>2
<1>8. FlightsInOrder'
  <2> SUFFICES ASSUME NEW f \in Flights
               PROVE  (flight'[f].failed => flight'[f].done) /\ (flight'[f].done => flight'[f].claimed)
    BY DEF FlightsInOrder
  <2>1. CASE f = sub[t]
    BY <1>2, <1>5, <2>1
  <2>2. CASE f # sub[t]
    BY <1>5, <2>2 DEF OutcomeInv, FlightsInOrder
  <2>3. QED
    BY <2>1, <2>2
<1>9. LeftMapFailed'
  <2> SUFFICES ASSUME NEW u \in Threads, pc'[u] # "idle", flights[key[u]] # sub[u]
               PROVE  flight'[sub[u]].failed
    BY <1>1 DEF LeftMapFailed
  <2>1. pc[u] # "idle" /\ sub[u] \in Flights
    BY <1>1 DEF FlightInv, Holding
  <2>2. flight[sub[u]].failed
    BY <2>1 DEF OutcomeInv, LeftMapFailed
  <2>3. QED
    BY <1>3, <1>5, <2>1, <2>2
<1>10. PublishedByFlight'
  <2> SUFFICES ASSUME NEW k \in Keys, published[k] # None
               PROVE  /\ flights[k] # None
                      /\ flight'[flights[k]].claimed /\ ~flight'[flights[k]].failed
                      /\ ~flight'[flights[k]].done =>
                           \E u \in Threads : /\ pc'[u] = "settle" /\ key[u] = k
                                              /\ outcome[u] = "committed" /\ published[k] = u
    BY <1>1 DEF PublishedByFlight
  <2>1. flights[k] # None /\ flight[flights[k]].claimed /\ ~flight[flights[k]].failed
    BY DEF OutcomeInv, PublishedByFlight
  <2>2. flights[k] \in Flights
    BY <2>1 DEF FlightInv, FlightTypes
  <2>3. ~flight[flights[k]].done =>
          \E u \in Threads : /\ pc[u] = "settle" /\ key[u] = k
                             /\ outcome[u] = "committed" /\ published[k] = u
    BY DEF OutcomeInv, PublishedByFlight
  <2>4. CASE flights[k] = sub[t]
    <3>1. PICK u \in Threads : pc[u] = "settle" /\ key[u] = k /\ outcome[u] = "committed"
      BY <1>3, <2>3, <2>4
    <3>2. u = t
      BY <1>1, <1>2, <2>4, <3>1, OneOwnerPerArtifact DEF Owning
    <3>3. QED
      BY <1>2, <1>5, <2>1, <2>4, <3>1, <3>2
  <2>5. CASE flights[k] # sub[t]
    <3>1. flight'[flights[k]] = flight[flights[k]]
      BY <1>5, <2>2, <2>5
    <3>2. ASSUME ~flight[flights[k]].done
          PROVE  \E u \in Threads : /\ pc'[u] = "settle" /\ key[u] = k
                                    /\ outcome[u] = "committed" /\ published[k] = u
      <4>1. PICK u \in Threads : /\ pc[u] = "settle" /\ key[u] = k
                                 /\ outcome[u] = "committed" /\ published[k] = u
        BY <2>3, <3>2
      <4>2. u # t
        BY <1>2, <2>5, <4>1
      <4>3. QED
        BY <1>1, <4>1, <4>2
    <3>3. QED
      BY <2>1, <3>1, <3>2
  <2>6. QED
    BY <2>4, <2>5
<1>11. SuccessPublished'
  <2> SUFFICES ASSUME NEW k \in Keys, flights[k] # None, flight'[flights[k]].done,
                      ~flight'[flights[k]].failed
               PROVE  published[k] # None /\ published[k] = flight'[flights[k]].result
    BY <1>1 DEF SuccessPublished
  <2>1. CASE flights[k] = sub[t]
    BY <1>2, <1>4, <1>5, <2>1, NamesAssumption DEF ResultOf
  <2>2. CASE flights[k] # sub[t]
    <3>1. flight'[flights[k]] = flight[flights[k]]
      BY <1>5, <2>2 DEF FlightInv, FlightTypes
    <3>2. QED
      BY <3>1 DEF OutcomeInv, SuccessPublished
  <2>3. QED
    BY <2>1, <2>2
<1>12. QED
  BY <1>7, <1>8, <1>9, <1>10, <1>11 DEF OutcomeInv

LEMMA NotifyOutcome ==
  ASSUME FailuresHaveMessages, FlightInv, OutcomeInv, NEW t \in Threads, Notify(t)
  PROVE  OutcomeInv'
<1>1. /\ pc[t] = "notify"
      /\ pc'[t] = IF outcome[t] # "committed" THEN "erase" ELSE "wait"
      /\ \A u \in Threads \ {t} : /\ pc'[u] = pc[u] \/ (pc[u] = "asleep" /\ pc'[u] = "wait")
                                  /\ outcome'[u] = outcome[u]
      /\ UNCHANGED <<flights, flight, key, sub, published>>
  BY Notified DEF Notify, FlightInv, FlightTypes
<1>2. outcome[t] # "committed" => flight[sub[t]].failed
  BY <1>1 DEF OutcomeInv, OwnersProgress
<1>3. OwnersProgress'
  BY <1>1, <1>2 DEF OutcomeInv, OwnersProgress
<1>4. LeftMapFailed'
  BY <1>1 DEF OutcomeInv, LeftMapFailed
<1>5. QED
  BY <1>1, <1>3, <1>4, OutcomesUnmoved

LEMMA WaitOutcome ==
  ASSUME FlightInv, OutcomeInv, NEW t \in Threads, Sleep(t) \/ WakeSpuriously(t)
  PROVE  OutcomeInv'
<1>1. /\ pc[t] \in {"wait", "asleep"} /\ pc'[t] \in {"wait", "asleep"}
      /\ \A u \in Threads \ {t} : pc'[u] = pc[u]
      /\ UNCHANGED <<flights, flight, key, sub, outcome, published>>
  BY DEF Sleep, WakeSpuriously, GoesTo, FlightInv, FlightTypes
<1>2. OwnersProgress'
  BY <1>1 DEF OutcomeInv, OwnersProgress
<1>3. LeftMapFailed'
  BY <1>1 DEF OutcomeInv, LeftMapFailed
<1>4. QED
  BY <1>1, <1>2, <1>3, OutcomesUnmoved

LEMMA EraseOutcome ==
  ASSUME FlightInv, OutcomeInv, NEW t \in Threads, Erase(t)
  PROVE  OutcomeInv'
<1>1. /\ pc[t] = "erase" /\ pc'[t] = "wait"
      /\ \A u \in Threads \ {t} : pc'[u] = pc[u]
      /\ UNCHANGED <<flight, key, sub, outcome, published>>
  BY DEF Erase, GoesTo, FlightInv, FlightTypes
<1>2. /\ key[t] \in Keys /\ flights[key[t]] = sub[t]
      /\ flight[sub[t]].failed /\ published[key[t]] = None
  BY <1>1, OwnersFacts, UnpublishedUntilDone DEF Owning, OutcomeInv, OwnersProgress
<1>3. \A k \in Keys : flights'[k] = IF k = key[t] THEN None ELSE flights[k]
  BY <1>2 DEF Erase, FlightInv, FlightTypes
<1>4. OwnersProgress'
  BY <1>1 DEF OutcomeInv, OwnersProgress
<1>5. FlightsInOrder'
  BY <1>1 DEF OutcomeInv, FlightsInOrder
<1>6. LeftMapFailed'
  <2> SUFFICES ASSUME NEW u \in Threads, pc'[u] # "idle", flights'[key[u]] # sub[u]
               PROVE  flight[sub[u]].failed
    BY <1>1 DEF LeftMapFailed
  <2>1. pc[u] # "idle" /\ key[u] \in Keys
    BY <1>1 DEF FlightInv, Holding
  <2>2. flights[key[u]] = sub[u] => sub[u] = sub[t]
    BY <1>2, <1>3, <2>1
  <2>3. QED
    BY <1>2, <2>1, <2>2 DEF OutcomeInv, LeftMapFailed
<1>7. PublishedByFlight'
  <2> SUFFICES ASSUME NEW k \in Keys, published[k] # None
               PROVE  /\ flights'[k] # None
                      /\ flight[flights'[k]].claimed /\ ~flight[flights'[k]].failed
                      /\ ~flight[flights'[k]].done =>
                           \E u \in Threads : /\ pc'[u] = "settle" /\ key[u] = k
                                              /\ outcome[u] = "committed" /\ published[k] = u
    BY <1>1 DEF PublishedByFlight
  <2>1. flights'[k] = flights[k]
    BY <1>2, <1>3
  <2>2. \A u \in Threads : pc[u] = "settle" <=> pc'[u] = "settle"
    BY <1>1
  <2>3. QED
    BY <2>1, <2>2 DEF OutcomeInv, PublishedByFlight
<1>8. SuccessPublished'
  BY <1>1, <1>3 DEF OutcomeInv, SuccessPublished
<1>9. QED
  BY <1>4, <1>5, <1>6, <1>7, <1>8 DEF OutcomeInv

LEMMA ReturnOutcome ==
  ASSUME FlightInv, OutcomeInv, NEW t \in Threads, Return(t)
  PROVE  OutcomeInv'
<1>1. /\ pc[t] = "wait" /\ pc'[t] = "idle"
      /\ \A u \in Threads \ {t} : pc'[u] = pc[u] /\ key'[u] = key[u] /\ sub'[u] = sub[u]
      /\ flight' = IF LastHolder(t) THEN [flight EXCEPT ![sub[t]] = Fresh] ELSE flight
      /\ UNCHANGED <<flights, outcome, published>>
  BY DEF Return, GoesTo, FlightInv, FlightTypes
<1>2. \A u \in Threads \ {t} : pc[u] # "idle" => flight'[sub[u]] = flight[sub[u]]
  BY <1>1 DEF FlightInv, FlightTypes, Holding, LastHolder
<1>3. \A k \in Keys : flights[k] # None => flight'[flights[k]] = flight[flights[k]]
  BY <1>1 DEF FlightInv, FlightTypes, LastHolder
<1>4. OwnersProgress'
  BY <1>1, <1>2 DEF OutcomeInv, OwnersProgress
<1>5. FlightsInOrder'
  <2> SUFFICES ASSUME NEW f \in Flights
               PROVE  (flight'[f].failed => flight'[f].done) /\ (flight'[f].done => flight'[f].claimed)
    BY DEF FlightsInOrder
  <2>1. flight'[f] \in {flight[f], Fresh}
    BY <1>1 DEF FlightInv, FlightTypes
  <2>2. QED
    BY <2>1, FreshTypes DEF OutcomeInv, FlightsInOrder
<1>6. LeftMapFailed'
  BY <1>1, <1>2 DEF OutcomeInv, LeftMapFailed
<1>7. \A u \in Threads : pc[u] = "settle" => pc'[u] = "settle" /\ key'[u] = key[u]
  BY <1>1
<1>8. PublishedByFlight'
  BY <1>1, <1>3, <1>7 DEF OutcomeInv, PublishedByFlight
<1>9. SuccessPublished'
  BY <1>1, <1>3 DEF OutcomeInv, SuccessPublished
<1>10. QED
  BY <1>4, <1>5, <1>6, <1>8, <1>9 DEF OutcomeInv

LEMMA NextOutcomeInv ==
  ASSUME FailuresHaveMessages
  PROVE  FlightInv /\ OutcomeInv /\ [Next]_vars => OutcomeInv'
<1> SUFFICES ASSUME FlightInv, OutcomeInv, [Next]_vars PROVE OutcomeInv'
  OBVIOUS
<1>1. CASE UNCHANGED vars
  BY <1>1
  DEF vars, OutcomeInv, OwnersProgress, FlightsInOrder, LeftMapFailed, PublishedByFlight, SuccessPublished
<1>2. CASE Next
  <2> PICK t \in Threads : Enter(t) \/ Proceed(t) \/ WakeSpuriously(t)
    BY <1>2 DEF Next
  <2>1. CASE Enter(t)
    BY <2>1, JoinOutcome, OpenOutcome DEF Enter
  <2>2. CASE Proceed(t)
    BY <2>2, ClaimOutcome, ProduceOutcome, SettleOutcome, NotifyOutcome, EraseOutcome,
       WaitOutcome, ReturnOutcome
    DEF Proceed
  <2>3. CASE WakeSpuriously(t)
    BY <2>3, WaitOutcome
  <2>4. QED
    BY <2>1, <2>2, <2>3
<1>3. QED
  BY <1>1, <1>2

-----------------------------------------------------------------------------
(* The state of BuildOnce that a state of get_or_build stands for. *)
Phases == [k \in Keys |-> PhaseOf(k)]
Excused == {t \in Threads : pc[t] # "idle" /\ flight[sub[t]].failed}

LEMMA PhaseUnmoved ==
  ASSUME NEW k \in Keys, published'[k] = published[k], flights'[k] = flights[k],
         flights[k] # None => /\ flight'[flights[k]].failed <=> flight[flights[k]].failed
                              /\ flight'[flights[k]].claimed <=> flight[flights[k]].claimed
  PROVE  PhaseOf(k)' = PhaseOf(k)
<1>1. CASE published[k] # None
  BY <1>1 DEF PhaseOf
<1>2. CASE published[k] = None /\ flights[k] = None
  BY <1>2 DEF PhaseOf
<1>3. CASE published[k] = None /\ flights[k] # None
  BY <1>3 DEF PhaseOf
<1>4. QED
  BY <1>1, <1>2, <1>3

LEMMA PhaseFacts ==
  ASSUME FlightInv, OutcomeInv, NEW k \in Keys
  PROVE  /\ published[k] # None => PhaseOf(k) = "built"
         /\ published[k] = None /\ flights[k] = None => PhaseOf(k) = "unbuilt"
         /\ flights[k] # None /\ flight[flights[k]].failed => PhaseOf(k) = "failed"
         /\ published[k] = None /\ flights[k] # None /\ ~flight[flights[k]].failed =>
              PhaseOf(k) = IF flight[flights[k]].claimed THEN "building" ELSE "unbuilt"
         /\ PhaseOf(k) = "failed" => flights[k] # None /\ flight[flights[k]].failed
<1>1. flights[k] # None /\ flight[flights[k]].failed => published[k] = None
  BY DEF OutcomeInv, PublishedByFlight
<1>2. CASE published[k] # None
  BY <1>1, <1>2 DEF PhaseOf
<1>3. CASE published[k] = None /\ flights[k] = None
  BY <1>3 DEF PhaseOf
<1>4. CASE published[k] = None /\ flights[k] # None
  BY <1>4 DEF PhaseOf
<1>5. QED
  BY <1>2, <1>3, <1>4

LEMMA JoinCalls ==
  ASSUME FlightInv, OutcomeInv, NEW t \in Threads, NEW k \in Keys, Join(t, k)
  PROVE  Promise!Call(t, k)
<1>1. /\ pc[t] = "idle" /\ pc'[t] = "claim" /\ sub'[t] = flights[k] /\ flights[k] # None
      /\ key[t] = None /\ key' = [key EXCEPT ![t] = k]
      /\ \A u \in Threads \ {t} : pc'[u] = pc[u] /\ sub'[u] = sub[u]
      /\ UNCHANGED <<flights, flight, published, answers>>
  BY DEF Join, GoesTo, FlightInv, FlightTypes, Holding
<1>2. \A l \in Keys : PhaseOf(l)' = PhaseOf(l)
  BY <1>1, PhaseUnmoved
<1>3. Phases' = Phases
  BY <1>2 DEF Phases
<1>4. Phases[k] = "failed" <=> flight[flights[k]].failed
  BY <1>1, PhaseFacts DEF Phases
<1>5. Excused' = IF Phases[k] = "failed" THEN Excused \cup {t} ELSE Excused
  BY <1>1, <1>4 DEF Excused
<1>6. QED
  BY <1>1, <1>3, <1>5 DEF Promise!Call, Phases, Excused

LEMMA OpenCalls ==
  ASSUME FlightInv, OutcomeInv, NEW t \in Threads, NEW k \in Keys, NEW f \in Flights, Open(t, k, f)
  PROVE  Promise!Call(t, k)
<1>0. f # None /\ (\A l \in Keys : flights[l] # f) /\ (\A u \in Threads : sub[u] # f)
  BY FreeFlight
<1>1. /\ pc[t] = "idle" /\ pc'[t] = "claim" /\ sub'[t] = f /\ flights[k] = None
      /\ key[t] = None /\ key' = [key EXCEPT ![t] = k]
      /\ \A u \in Threads \ {t} : pc'[u] = pc[u] /\ sub'[u] = sub[u]
      /\ flights'[k] = f /\ \A l \in Keys \ {k} : flights'[l] = flights[l]
      /\ flight'[f] = Fresh /\ \A g \in Flights \ {f} : flight'[g] = flight[g]
      /\ UNCHANGED <<published, answers>>
  BY DEF Open, GoesTo, FlightInv, FlightTypes, Holding
<1>2. published[k] = None
  BY <1>1 DEF OutcomeInv, PublishedByFlight
<1>3. PhaseOf(k) = "unbuilt"
  BY <1>1, <1>2, PhaseFacts
<1>4. PhaseOf(k)' = "unbuilt"
  BY <1>0, <1>1, <1>2, FreshTypes DEF PhaseOf
<1>5. \A l \in Keys \ {k} : PhaseOf(l)' = PhaseOf(l)
  BY <1>0, <1>1, PhaseUnmoved DEF FlightInv, FlightTypes
<1>6. Phases' = Phases /\ Phases[k] # "failed"
  BY <1>3, <1>4, <1>5 DEF Phases
<1>7. Excused' = Excused
  BY <1>0, <1>1, FreshTypes DEF Excused, FlightInv, Holding
<1>8. QED
  BY <1>1, <1>6, <1>7 DEF Promise!Call, Phases, Excused

(* The first to claim a flight starts the build; the others wait for it. *)
LEMMA ClaimStarts ==
  ASSUME FlightInv, OutcomeInv, NEW t \in Threads, Claim(t)
  PROVE  (\E k \in Keys : Promise!Start(k)) \/ UNCHANGED Promise!vars
<1>1. /\ pc[t] = "claim" /\ pc'[t] # "idle"
      /\ \A u \in Threads \ {t} : pc'[u] = pc[u]
      /\ flight' = [flight EXCEPT ![sub[t]].claimed = TRUE]
      /\ UNCHANGED <<flights, key, sub, published, answers>>
  BY DEF Claim, GoesTo, FlightInv, FlightTypes
<1>2. sub[t] \in Flights /\ key[t] \in Keys /\ flight \in [Flights -> Records]
  BY <1>1 DEF FlightInv, FlightTypes, Holding
<1>3. /\ \A f \in Flights : flight'[f].failed = flight[f].failed
      /\ \A f \in Flights \ {sub[t]} : flight'[f].claimed = flight[f].claimed
      /\ flight'[sub[t]].claimed
  BY <1>1, <1>2 DEF Records
<1>4. Excused' = Excused
  BY <1>1, <1>3 DEF Excused, FlightInv, Holding
<1>5. \A l \in Keys : flights[l] # sub[t] => PhaseOf(l)' = PhaseOf(l)
  BY <1>1, <1>3, PhaseUnmoved DEF FlightInv, FlightTypes
<1>6. CASE flight[sub[t]].claimed
  <2>1. \A f \in Flights : flight'[f].claimed <=> flight[f].claimed
    BY <1>3, <1>6
  <2>2. \A l \in Keys : PhaseOf(l)' = PhaseOf(l)
    BY <1>1, <1>3, <2>1, PhaseUnmoved DEF FlightInv, FlightTypes
  <2>3. Phases' = Phases
    BY <2>2 DEF Phases
  <2>4. QED
    BY <1>1, <1>4, <2>3 DEF Promise!vars, Phases, Excused
<1>7. CASE ~flight[sub[t]].claimed
  <2>1. flights[key[t]] = sub[t] /\ sub[t] # None
    BY <1>1, <1>2, <1>7, NamesAssumption DEF FlightInv, UnclaimedInMap
  <2>2. published[key[t]] = None
    BY <1>2, <1>7, <2>1 DEF OutcomeInv, PublishedByFlight
  <2>3. ~flight[sub[t]].failed
    BY <1>2, <1>7 DEF OutcomeInv, FlightsInOrder
  <2>4. PhaseOf(key[t]) = "unbuilt"
    BY <1>2, <1>7, <2>1, <2>2, <2>3, PhaseFacts
  <2>5. PhaseOf(key[t])' = "building"
    BY <1>1, <1>2, <1>3, <2>1, <2>2, <2>3 DEF PhaseOf
  <2>6. \A l \in Keys \ {key[t]} : PhaseOf(l)' = PhaseOf(l)
    BY <1>2, <1>5, <2>1 DEF FlightInv, OneArtifactEach
  <2>7. Phases[key[t]] = "unbuilt" /\ Phases' = [Phases EXCEPT ![key[t]] = "building"]
    BY <1>1, <1>2, <2>4, <2>5, <2>6 DEF Phases
  <2>8. Promise!Start(key[t])
    BY <1>1, <1>4, <2>7 DEF Promise!Start, Phases, Excused
  <2>9. QED
    BY <1>2, <2>8
<1>8. QED
  BY <1>6, <1>7

LEMMA ProduceSucceeds ==
  ASSUME FlightInv, OutcomeInv, NEW t \in Threads, NEW o \in Outcomes, Produce(t, o)
  PROVE  (\E k \in Keys : Promise!Succeed(k, t)) \/ UNCHANGED Promise!vars
<1>1. /\ pc[t] = "build" /\ pc'[t] = "settle"
      /\ \A u \in Threads \ {t} : pc'[u] = pc[u]
      /\ published' = IF o = "committed" THEN [published EXCEPT ![key[t]] = t] ELSE published
      /\ UNCHANGED <<flights, flight, key, sub, answers>>
  BY DEF Produce, GoesTo, FlightInv, FlightTypes
<1>2. /\ key[t] \in Keys /\ flights[key[t]] = sub[t] /\ sub[t] # None
      /\ sub[t] \in Flights /\ flight[sub[t]].claimed
  BY <1>1, OwnersFacts DEF Owning
<1>3. Excused' = Excused
  BY <1>1 DEF Excused
<1>4. CASE o = "committed"
  <2>1. published[key[t]] = None
    BY <1>1, UnpublishedUntilDone
  <2>2. ~flight[sub[t]].failed
    BY <1>1, <1>2 DEF OutcomeInv, OwnersProgress, FlightsInOrder
  <2>3. PhaseOf(key[t]) = "building"
    BY <1>2, <2>1, <2>2, PhaseFacts
  <2>4. /\ published'[key[t]] = t /\ t # None
        /\ \A l \in Keys \ {key[t]} : published'[l] = published[l]
    BY <1>1, <1>2, <1>4, NamesAssumption DEF FlightInv, FlightTypes
  <2>5. PhaseOf(key[t])' = "built"
    BY <2>4, <1>1 DEF PhaseOf
  <2>6. \A l \in Keys \ {key[t]} : PhaseOf(l)' = PhaseOf(l)
    BY <1>1, <2>4, PhaseUnmoved
  <2>7. Phases[key[t]] = "building" /\ Phases' = [Phases EXCEPT ![key[t]] = "built"]
    BY <1>1, <1>2, <2>3, <2>5, <2>6 DEF Phases
  <2>8. Promise!Succeed(key[t], t)
    BY <1>1, <1>3, <1>4, <2>7 DEF Promise!Succeed, Phases, Excused
  <2>9. QED
    BY <1>2, <2>8
<1>5. CASE o # "committed"
  <2>1. published' = published
    BY <1>1, <1>5
  <2>2. \A l \in Keys : PhaseOf(l)' = PhaseOf(l)
    BY <1>1, <2>1, PhaseUnmoved
  <2>3. Phases' = Phases
    BY <2>2 DEF Phases
  <2>4. QED
    BY <1>1, <1>3, <2>1, <2>3 DEF Promise!vars, Phases, Excused
<1>6. QED
  BY <1>4, <1>5

(* Those who hold a flight that is not done asked for its artifact. *)
LEMMA HoldersOfUndone ==
  ASSUME FlightInv, OutcomeInv, NEW t \in Threads, pc[t] = "settle", NEW u \in Threads
  PROVE  /\ pc[u] # "idle" /\ sub[u] = sub[t] => key[u] = key[t]
         /\ key[u] = key[t] => pc[u] # "idle" /\ (sub[u] = sub[t] \/ flight[sub[u]].failed)
<1>1. /\ key[t] \in Keys /\ flights[key[t]] = sub[t] /\ sub[t] \in Flights /\ sub[t] # None
      /\ \A k \in Keys : flights[k] = sub[t] => k = key[t]
  BY OwnersFacts DEF Owning
<1>2. ~flight[sub[t]].failed
  BY <1>1 DEF OutcomeInv, OwnersProgress, FlightsInOrder
<1>3. pc[u] = "idle" => key[u] = None
  BY DEF FlightInv, Holding
<1>4. key[t] # None
  BY <1>1, NamesAssumption
<1>5. ASSUME pc[u] # "idle", sub[u] = sub[t] PROVE key[u] = key[t]
  <2>1. flights[key[u]] = sub[u]
    BY <1>2, <1>5 DEF OutcomeInv, LeftMapFailed
  <2>2. key[u] \in Keys
    BY <1>5 DEF FlightInv, Holding
  <2>3. QED
    BY <1>1, <1>5, <2>1, <2>2
<1>6. ASSUME key[u] = key[t]
      PROVE  pc[u] # "idle" /\ (sub[u] = sub[t] \/ flight[sub[u]].failed)
  <2>1. pc[u] # "idle"
    BY <1>3, <1>4, <1>6
  <2>2. flights[key[u]] = sub[u] \/ flight[sub[u]].failed
    BY <2>1 DEF OutcomeInv, LeftMapFailed
  <2>3. QED
    BY <1>1, <1>6, <2>1, <2>2
<1>7. QED
  BY <1>5, <1>6

LEMMA SettleFails ==
  ASSUME FailuresHaveMessages, FlightInv, OutcomeInv, NEW t \in Threads, Settle(t)
  PROVE  (\E k \in Keys : Promise!Fail(k)) \/ UNCHANGED Promise!vars
<1>1. /\ pc[t] = "settle" /\ pc'[t] = "notify"
      /\ \A u \in Threads \ {t} : pc'[u] = pc[u]
      /\ UNCHANGED <<flights, key, sub, published, answers>>
  BY DEF Settle, GoesTo, FlightInv, FlightTypes
<1>2. /\ key[t] \in Keys /\ flights[key[t]] = sub[t] /\ sub[t] # None
      /\ sub[t] \in Flights /\ flight[sub[t]].claimed
      /\ \A k \in Keys : flights[k] = sub[t] => k = key[t]
  BY <1>1, OwnersFacts DEF Owning
<1>3. ~flight[sub[t]].done /\ ~flight[sub[t]].failed
  BY <1>1, <1>2 DEF OutcomeInv, OwnersProgress, FlightsInOrder
<1>4. /\ \A f \in Flights : flight'[f].claimed = flight[f].claimed
      /\ \A f \in Flights \ {sub[t]} : flight'[f] = flight[f]
      /\ flight'[sub[t]].failed <=> outcome[t] = "failed"
  BY <1>3, Settled
<1>5. \A l \in Keys \ {key[t]} : PhaseOf(l)' = PhaseOf(l)
  BY <1>1, <1>2, <1>4, PhaseUnmoved DEF FlightInv, FlightTypes
<1>6. CASE outcome[t] = "failed"
  <2>1. published[key[t]] = None
    BY <1>1, <1>6, UnpublishedUntilDone
  <2>2. PhaseOf(key[t]) = "building"
    BY <1>2, <1>3, <2>1, PhaseFacts
  <2>3. PhaseOf(key[t])' = "failed"
    BY <1>1, <1>2, <1>4, <1>6, <2>1 DEF PhaseOf
  <2>4. Phases[key[t]] = "building" /\ Phases' = [Phases EXCEPT ![key[t]] = "failed"]
    BY <1>1, <1>2, <1>5, <2>2, <2>3 DEF Phases
  <2>5. Excused' = Excused \cup {u \in Threads : key[u] = key[t]}
    <3>1. ASSUME NEW u \in Threads
          PROVE  u \in Excused' <=> u \in Excused \/ key[u] = key[t]
      <4>1. pc'[u] = "idle" <=> pc[u] = "idle"
        BY <1>1
      <4>2. CASE sub[u] = sub[t]
        BY <1>1, <1>3, <1>4, <1>6, <4>1, <4>2, HoldersOfUndone DEF Excused
      <4>3. CASE sub[u] # sub[t]
        <5>1. pc[u] # "idle" => sub[u] \in Flights
          BY DEF FlightInv, Holding
        <5>2. pc[u] # "idle" => flight'[sub[u]] = flight[sub[u]]
          BY <1>4, <4>3, <5>1
        <5>3. key[u] = key[t] => pc[u] # "idle" /\ flight[sub[u]].failed
          BY <1>1, <4>3, HoldersOfUndone
        <5>4. QED
          BY <1>1, <4>1, <5>2, <5>3 DEF Excused
      <4>4. QED
        BY <4>2, <4>3
    <3>2. Excused' \subseteq Threads /\ Excused \subseteq Threads
      BY DEF Excused
    <3>3. QED
      BY <3>1, <3>2
  <2>6. PICK k \in Keys : k = key[t]
    BY <1>2
  <2>7. Promise!Fail(k)
    BY <1>1, <2>4, <2>5, <2>6 DEF Promise!Fail, Phases, Excused
  <2>8. QED
    BY <2>7
<1>7. CASE outcome[t] # "failed"
  <2>1. \A f \in Flights : flight'[f].failed <=> flight[f].failed
    BY <1>3, <1>4, <1>7
  <2>2. PhaseOf(key[t])' = PhaseOf(key[t])
    BY <1>1, <1>2, <1>4, <2>1, PhaseUnmoved
  <2>3. Phases' = Phases
    BY <1>1, <1>2, <1>5, <2>2 DEF Phases
  <2>4. Excused' = Excused
    BY <1>1, <2>1 DEF Excused, FlightInv, Holding
  <2>5. QED
    BY <1>1, <2>3, <2>4 DEF Promise!vars, Phases, Excused
<1>8. QED
  BY <1>6, <1>7

(* Steps that nobody outside sees. *)
LEMMA NothingSeen ==
  ASSUME UNCHANGED <<flights, flight, key, sub, published, answers>>,
         \A t \in Threads : pc'[t] = "idle" <=> pc[t] = "idle"
  PROVE  UNCHANGED Promise!vars
<1>1. \A l \in Keys : PhaseOf(l)' = PhaseOf(l)
  BY PhaseUnmoved
<1>2. Phases' = Phases
  BY <1>1 DEF Phases
<1>3. Excused' = Excused
  BY DEF Excused
<1>4. QED
  BY <1>2, <1>3 DEF Promise!vars, Phases, Excused

LEMMA EraseForgets ==
  ASSUME FlightInv, OutcomeInv, NEW t \in Threads, Erase(t)
  PROVE  \E k \in Keys : Promise!Forget(k)
<1>1. /\ pc[t] = "erase" /\ pc'[t] = "wait"
      /\ \A u \in Threads \ {t} : pc'[u] = pc[u]
      /\ UNCHANGED <<flight, key, sub, published, answers>>
  BY DEF Erase, GoesTo, FlightInv, FlightTypes
<1>2. /\ key[t] \in Keys /\ flights[key[t]] = sub[t] /\ sub[t] # None
      /\ flight[sub[t]].failed /\ published[key[t]] = None
  BY <1>1, OwnersFacts, UnpublishedUntilDone DEF Owning, OutcomeInv, OwnersProgress
<1>3. \A k \in Keys : flights'[k] = IF k = key[t] THEN None ELSE flights[k]
  BY <1>2 DEF Erase, FlightInv, FlightTypes
<1>4. PhaseOf(key[t]) = "failed"
  BY <1>2, PhaseFacts
<1>5. PhaseOf(key[t])' = "unbuilt"
  BY <1>1, <1>2, <1>3 DEF PhaseOf
<1>6. \A l \in Keys \ {key[t]} : PhaseOf(l)' = PhaseOf(l)
  BY <1>1, <1>3, PhaseUnmoved
<1>7. Phases[key[t]] = "failed" /\ Phases' = [Phases EXCEPT ![key[t]] = "unbuilt"]
  BY <1>1, <1>2, <1>4, <1>5, <1>6 DEF Phases
<1>8. Excused' = Excused
  BY <1>1 DEF Excused
<1>9. Promise!Forget(key[t])
  BY <1>1, <1>7, <1>8 DEF Promise!Forget, Phases, Excused
<1>10. QED
  BY <1>2, <1>9

(* A caller whose flight failed is refused; any other finds its flight in  *)
(* the map and the flight's result published.                              *)
LEMMA ReturnAnswers ==
  ASSUME FlightInv, OutcomeInv, NEW t \in Threads, Return(t)
  PROVE  Promise!Answer(t) \/ Promise!Refuse(t)
<1>1. /\ pc[t] = "wait" /\ flight[sub[t]].done /\ pc'[t] = "idle"
      /\ key' = [key EXCEPT ![t] = None]
      /\ \A u \in Threads \ {t} : pc'[u] = pc[u] /\ sub'[u] = sub[u]
      /\ flight' = IF LastHolder(t) THEN [flight EXCEPT ![sub[t]] = Fresh] ELSE flight
      /\ UNCHANGED <<flights, published>>
  BY DEF Return, Ready, GoesTo, FlightInv, FlightTypes
<1>2. \A u \in Threads \ {t} : pc[u] # "idle" => flight'[sub[u]] = flight[sub[u]]
  BY <1>1 DEF FlightInv, FlightTypes, Holding, LastHolder
<1>3. \A k \in Keys : flights[k] # None => flight'[flights[k]] = flight[flights[k]]
  BY <1>1 DEF FlightInv, FlightTypes, LastHolder
<1>4. \A l \in Keys : PhaseOf(l)' = PhaseOf(l)
  BY <1>1, <1>3, PhaseUnmoved
<1>5. Phases' = Phases
  BY <1>4 DEF Phases
<1>6. Excused' = Excused \ {t}
  BY <1>1, <1>2 DEF Excused
<1>7. key[t] \in Keys /\ sub[t] \in Flights /\ sub[t] # None /\ key[t] # None
  BY <1>1, NamesAssumption DEF FlightInv, Holding
<1>8. CASE flight[sub[t]].failed
  <2>1. answers' = answers
    BY <1>8 DEF Return
  <2>2. t \in Excused
    BY <1>1, <1>8 DEF Excused
  <2>3. Promise!Refuse(t)
    BY <1>1, <1>5, <1>6, <2>1, <2>2 DEF Promise!Refuse, Phases, Excused
  <2>4. QED
    BY <2>3
<1>9. CASE ~flight[sub[t]].failed
  <2>1. flights[key[t]] = sub[t]
    BY <1>1, <1>9 DEF OutcomeInv, LeftMapFailed
  <2>2. published[key[t]] # None /\ published[key[t]] = flight[sub[t]].result
    BY <1>1, <1>7, <1>9, <2>1 DEF OutcomeInv, SuccessPublished
  <2>3. Phases[key[t]] = "built"
    BY <1>7, <2>2, PhaseFacts DEF Phases
  <2>4. answers' = answers \cup {<<key[t], published[key[t]]>>}
    BY <1>9, <2>2 DEF Return
  <2>5. Excused' = Excused
    BY <1>6, <1>9 DEF Excused
  <2>6. Promise!Answer(t)
    BY <1>1, <1>5, <1>7, <2>3, <2>4, <2>5 DEF Promise!Answer, Phases, Excused
  <2>7. QED
    BY <2>6
<1>10. QED
  BY <1>8, <1>9

LEMMA NextSimulates ==
  ASSUME FailuresHaveMessages
  PROVE  FlightInv /\ OutcomeInv /\ [Next]_vars => [Promise!Next]_(Promise!vars)
<1> SUFFICES ASSUME FlightInv, OutcomeInv, [Next]_vars PROVE Promise!Next \/ UNCHANGED Promise!vars
  OBVIOUS
<1>1. CASE UNCHANGED vars
  BY <1>1, NothingSeen DEF vars
<1>2. CASE Next
  <2> PICK t \in Threads : Enter(t) \/ Proceed(t) \/ WakeSpuriously(t)
    BY <1>2 DEF Next
  <2>1. CASE Enter(t)
    BY <2>1, JoinCalls, OpenCalls DEF Enter, Promise!Next
  <2>2. CASE Claim(t)
    BY <2>2, ClaimStarts DEF Promise!Next
  <2>3. ASSUME NEW o \in Outcomes, Produce(t, o)
        PROVE  Promise!Next \/ UNCHANGED Promise!vars
    BY <2>3, ProduceSucceeds DEF Promise!Next
  <2>4. CASE Settle(t)
    BY <2>4, SettleFails DEF Promise!Next
  <2>5. CASE Notify(t)
    <3>1. \A u \in Threads : pc'[u] = "idle" <=> pc[u] = "idle"
      BY <2>5, Notified DEF Notify
    <3>2. QED
      BY <2>5, <3>1, NothingSeen DEF Notify
  <2>6. CASE Erase(t)
    BY <2>6, EraseForgets DEF Promise!Next
  <2>7. CASE Sleep(t) \/ WakeSpuriously(t)
    <3>1. \A u \in Threads : pc'[u] = "idle" <=> pc[u] = "idle"
      BY <2>7 DEF Sleep, WakeSpuriously, GoesTo, FlightInv, FlightTypes
    <3>2. QED
      BY <2>7, <3>1, NothingSeen DEF Sleep, WakeSpuriously
  <2>8. CASE Return(t)
    BY <2>8, ReturnAnswers DEF Promise!Next
  <2>9. QED
    BY <2>1, <2>2, <2>3, <2>4, <2>5, <2>6, <2>7, <2>8 DEF Proceed
<1>3. QED
  BY <1>1, <1>2

LEMMA InitSimulates == Init => Promise!Init
<1> SUFFICES ASSUME Init PROVE Promise!Init
  OBVIOUS
<1>1. \A k \in Keys : PhaseOf(k) = "unbuilt"
  BY DEF Init, PhaseOf
<1>2. {t \in Threads : pc[t] # "idle" /\ flight[sub[t]].failed} = {}
  BY DEF Init
<1>3. QED
  BY <1>1, <1>2 DEF Init, Promise!Init

(* get_or_build implements BuildOnce for any number of threads, artifacts  *)
(* and BuildSubscribe objects, if every failing producer says why: an      *)
(* artifact is built once, everybody gets that result, and only a caller   *)
(* during whose call a build failed is refused.                            *)
THEOREM GetOrBuildImplementsBuildOnce ==
  ASSUME FailuresHaveMessages
  PROVE  Spec => ImplementsBuildOnce
<1>1. Init => FlightInv /\ OutcomeInv
  BY InitFlightInv, InitOutcomeInv
<1>2. FlightInv /\ OutcomeInv /\ [Next]_vars => (FlightInv /\ OutcomeInv)'
  BY NextFlightInv, NextOutcomeInv
<1>3. FlightInv /\ OutcomeInv /\ [Next]_vars => [Promise!Next]_(Promise!vars)
  BY NextSimulates
<1>4. Init => Promise!Init
  BY InitSimulates
<1>5. QED
  BY <1>1, <1>2, <1>3, <1>4, PTL DEF Spec, ImplementsBuildOnce, Promise!Spec
=============================================================================
