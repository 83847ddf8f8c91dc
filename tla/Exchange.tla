------------------------------ MODULE Exchange ------------------------------
(***************************************************************************)
(* What a connection promises a caller of WorkerClient::request, frames    *)
(* and bytes aside: requests are carried out in the order they are made,   *)
(* each at most once; an answer is the answer to the request just made and *)
(* means that it was carried out; a request that could not be sent is      *)
(* never carried out, and of one that got no answer nothing is known.      *)
(***************************************************************************)
EXTENDS Naturals, Sequences

CONSTANT Calls   \* how many calls are made at most

VARIABLES
  made,   \* how many calls have been made
  fate,   \* what each caller has been told
  done    \* the calls that were carried out, in order and as often as they were

vars == <<made, fate, done>>

Init ==
  /\ made = 0
  /\ fate = [n \in 1..Calls |-> "unmade"]
  /\ done = << >>

Carried == {done[i] : i \in 1..Len(done)}

Make ==
  /\ made < Calls
  /\ \A n \in 1..made : fate[n] # "waiting"
  /\ made' = made + 1
  /\ fate' = [fate EXCEPT ![made + 1] = "waiting"]
  /\ UNCHANGED done

CarryOut(n) ==
  /\ n \in 1..made /\ fate[n] \notin {"unsent", "rejected"}
  /\ \A m \in Carried : m < n
  /\ done' = Append(done, n)
  /\ UNCHANGED <<made, fate>>

Tell(what) ==
  /\ made > 0 /\ fate[made] = "waiting"
  /\ what = "answered" => made \in Carried
  /\ what \in {"unsent", "rejected"} => made \notin Carried
  /\ fate' = [fate EXCEPT ![made] = what]
  /\ UNCHANGED <<made, done>>

Next ==
  \/ Make
  \/ \E n \in 1..Calls : CarryOut(n)
  \/ \E what \in {"answered", "rejected", "unsent", "unknown"} : Tell(what)

Spec == Init /\ [][Next]_vars
=============================================================================
