----------------------------- MODULE SingleFlight -----------------------------
(***************************************************************************)
(* Catalog::get_or_build and the BuildSubscribe objects it hands between   *)
(* threads (catalog.cpp:16-45, 505-533), one action per critical section.  *)
(*                                                                         *)
(* A flight is a BuildSubscribe, shared by the flights_ map and by the     *)
(* threads that found it there; its identity may be taken again once       *)
(* nothing holds it, as shared_ptr frees it.  A producer's result is named *)
(* by the thread whose producer made it.  The producer is the caller's and *)
(* runs without any lock; that it returns is assumed for liveness only.    *)
(***************************************************************************)
EXTENDS FiniteSets

CONSTANTS
  Threads,    \* threads that call get_or_build
  Keys,       \* artifact ids they ask for
  Flights,    \* identities of BuildSubscribe objects
  None,       \* no flight, no artifact, no result
  Zero,       \* the zero artifact id
  Outcomes    \* how a producer may end

(* committed: a committed result; failed: an uncommitted one, or an        *)
(* exception with a message; blank: an exception whose what() is empty.    *)
ASSUME OutcomesAssumption == Outcomes \subseteq {"committed", "failed", "blank"}
ASSUME NamesAssumption ==
  None \notin Keys \cup Flights \cup Threads /\ Zero \notin Threads \cup {None}

VARIABLES
  flights,    \* flights_
  flight,     \* the BuildSubscribe objects
  pc,         \* where in get_or_build each thread is
  key, sub,   \* its arguments and its BuildSubscribe
  outcome,    \* how its producer ended
  published,  \* the result committed for each artifact
  answers     \* the <<artifact, result>> pairs handed to callers

vars == <<flights, flight, pc, key, sub, outcome, published, answers>>

Fresh == [claimed |-> FALSE, done |-> FALSE, failed |-> FALSE, result |-> Zero]

Init ==
  /\ flights = [k \in Keys |-> None]
  /\ flight = [f \in Flights |-> Fresh]
  /\ pc = [t \in Threads |-> "idle"]
  /\ key = [t \in Threads |-> None]
  /\ sub = [t \in Threads |-> None]
  /\ outcome = [t \in Threads |-> None]
  /\ published = [k \in Keys |-> None]
  /\ answers = {}

GoesTo(t, step) == pc' = [pc EXCEPT ![t] = step]

-----------------------------------------------------------------------------
(* The flight of an artifact that has one. *)
Join(t, k) ==
  /\ pc[t] = "idle" /\ flights[k] # None
  /\ GoesTo(t, "claim")
  /\ key' = [key EXCEPT ![t] = k]
  /\ sub' = [sub EXCEPT ![t] = flights[k]]
  /\ UNCHANGED <<flights, flight, outcome, published, answers>>

Free == Flights \ ({flights[k] : k \in Keys} \cup {sub[t] : t \in Threads})

(* A new flight for an artifact that has none. *)
Open(t, k, f) ==
  /\ pc[t] = "idle" /\ flights[k] = None
  /\ Free # {} /\ f = CHOOSE x \in Free : TRUE
  /\ GoesTo(t, "claim")
  /\ flights' = [flights EXCEPT ![k] = f]
  /\ flight' = [flight EXCEPT ![f] = Fresh]
  /\ key' = [key EXCEPT ![t] = k]
  /\ sub' = [sub EXCEPT ![t] = f]
  /\ UNCHANGED <<outcome, published, answers>>

(* A slip: a flight may be claimed until it is done. *)
ClaimableUntilDone(f) == ~flight[f].done

Claimable(f) == ~flight[f].claimed

(* claim_owner: the first to come builds, the others wait. *)
Claim(t) ==
  /\ pc[t] = "claim"
  /\ GoesTo(t, IF Claimable(sub[t]) THEN "build" ELSE "wait")
  /\ flight' = [flight EXCEPT ![sub[t]].claimed = TRUE]
  /\ UNCHANGED <<flights, key, sub, outcome, published, answers>>

(* The producer runs and ends. *)
Produce(t, o) ==
  /\ pc[t] = "build"
  /\ GoesTo(t, "settle")
  /\ outcome' = [outcome EXCEPT ![t] = o]
  /\ published' = IF o = "committed" THEN [published EXCEPT ![key[t]] = t] ELSE published
  /\ UNCHANGED <<flights, flight, key, sub, answers>>

ResultOf(t) == IF outcome[t] = "committed" THEN t ELSE Zero

(* set_result or set_error, up to the unlock: result_ stays zero and       *)
(* error_ empty unless there is something to store there.                  *)
Settle(t) ==
  /\ pc[t] = "settle"
  /\ GoesTo(t, "notify")
  /\ flight' = [flight EXCEPT ![sub[t]] =
                  IF @.done THEN @
                  ELSE [@ EXCEPT !.done = TRUE,
                                 !.failed = (outcome[t] = "failed"),
                                 !.result = ResultOf(t)]]
  /\ UNCHANGED <<flights, key, sub, outcome, published, answers>>

Sleepers(f) == {t \in Threads : pc[t] = "asleep" /\ sub[t] = f}

(* A slip: notify_one. *)
WokenOne(f) ==
  IF Sleepers(f) = {} THEN {} ELSE {CHOOSE t \in Sleepers(f) : TRUE}

Woken(f) == Sleepers(f)

(* A slip: a failed flight stays in the map. *)
NeverForgets(t) == FALSE

Forgets(t) == outcome[t] # "committed"

(* notify_all, outside the lock. *)
Notify(t) ==
  /\ pc[t] = "notify"
  /\ pc' = [u \in Threads |->
              CASE u = t              -> IF Forgets(t) THEN "erase" ELSE "wait"
                [] u \in Woken(sub[t]) -> "wait"
                [] OTHER              -> pc[u]]
  /\ outcome' = [outcome EXCEPT ![t] = None]
  /\ UNCHANGED <<flights, flight, key, sub, published, answers>>

(* A build that did not succeed leaves room for a later caller to retry. *)
Erase(t) ==
  /\ pc[t] = "erase"
  /\ GoesTo(t, "wait")
  /\ flights' = IF flights[key[t]] = sub[t] THEN [flights EXCEPT ![key[t]] = None] ELSE flights
  /\ UNCHANGED <<flight, key, sub, outcome, published, answers>>

(* A slip: woken callers do not look again. *)
ReadyOnceClaimed(f) == flight[f].claimed

Ready(f) == flight[f].done

(* rendezvous: the wait's predicate is evaluated under the flight's lock. *)
Sleep(t) ==
  /\ pc[t] = "wait" /\ ~Ready(sub[t])
  /\ GoesTo(t, "asleep")
  /\ UNCHANGED <<flights, flight, key, sub, outcome, published, answers>>

WakeSpuriously(t) ==
  /\ pc[t] = "asleep"
  /\ GoesTo(t, "wait")
  /\ UNCHANGED <<flights, flight, key, sub, outcome, published, answers>>

LastHolder(t) ==
  /\ \A k \in Keys : flights[k] # sub[t]
  /\ \A u \in Threads \ {t} : sub[u] # sub[t]

(* The call returns the flight's result, or throws its error, and lets the *)
(* flight go.                                                              *)
Return(t) ==
  /\ pc[t] = "wait" /\ Ready(sub[t])
  /\ GoesTo(t, "idle")
  /\ answers' = IF flight[sub[t]].failed THEN answers
                ELSE answers \cup {<<key[t], flight[sub[t]].result>>}
  /\ key' = [key EXCEPT ![t] = None]
  /\ sub' = [sub EXCEPT ![t] = None]
  /\ flight' = IF LastHolder(t) THEN [flight EXCEPT ![sub[t]] = Fresh] ELSE flight
  /\ UNCHANGED <<flights, outcome, published>>

-----------------------------------------------------------------------------
Enter(t) == \E k \in Keys : Join(t, k) \/ \E f \in Flights : Open(t, k, f)

(* What a thread does inside get_or_build of its own accord. *)
Proceed(t) ==
  \/ Claim(t) \/ (\E o \in Outcomes : Produce(t, o)) \/ Settle(t) \/ Notify(t)
  \/ Erase(t) \/ Sleep(t) \/ Return(t)

Next == \E t \in Threads : Enter(t) \/ Proceed(t) \/ WakeSpuriously(t)

Spec == Init /\ [][Next]_vars

(* Threads are scheduled, mutexes are handed on and producers return; no   *)
(* caller has to come, and the condition variable need not wake anybody    *)
(* it was not told to.                                                     *)
FairSpec == Spec /\ \A t \in Threads : WF_vars(Proceed(t))

-----------------------------------------------------------------------------
(* At no time do two producers of one artifact run: a flight has one owner *)
(* and a second flight is not opened before the first owner is through     *)
(* with its own (catalog.cpp:513, 524-529).                                *)
ExclusiveBuild ==
  \A t, u \in Threads :
    pc[t] = "build" /\ pc[u] \in {"build", "settle", "notify", "erase"} /\ key[t] = key[u] => t = u

(* Every call returns, provided producers do: no wake-up is lost between   *)
(* the predicate and the wait, nobody waits on a flight without an owner.  *)
EveryCallReturns == \A t \in Threads : (pc[t] # "idle") ~> (pc[t] = "idle")

HasFailed(k) == flights[k] # None /\ flight[flights[k]].done /\ published[k] = None

(* A failure is not final: its flight leaves the map, so that some later   *)
(* caller builds again.                                                    *)
FailureIsForgotten == \A k \in Keys : HasFailed(k) ~> ~HasFailed(k)

(* get_or_build implements BuildOnce, as long as failures have a message.  *)
PhaseOf(k) ==
  CASE published[k] # None                            -> "built"
    [] published[k] = None /\ flights[k] = None       -> "unbuilt"
    [] published[k] = None /\ flights[k] # None ->
         IF flight[flights[k]].failed THEN "failed"
         ELSE IF flight[flights[k]].claimed THEN "building" ELSE "unbuilt"

Promise == INSTANCE BuildOnce WITH
  phase   <- [k \in Keys |-> PhaseOf(k)],
  value   <- published,
  wants   <- key,
  excused <- {t \in Threads : pc[t] # "idle" /\ flight[sub[t]].failed}

ImplementsBuildOnce == Promise!Spec
=============================================================================
