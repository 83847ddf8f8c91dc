------------------------------ MODULE BuildOnce ------------------------------
(***************************************************************************)
(* What Catalog::get_or_build promises its callers, whatever threads,      *)
(* locks and condition variables do: an artifact is built once; everybody  *)
(* who asks for it gets that one result; and a caller is told of a failure *)
(* only when a build failed during its own call, after which the artifact  *)
(* can be built again.                                                     *)
(***************************************************************************)
CONSTANTS Threads, Keys, None

VARIABLES
  phase,    \* how far each artifact is
  value,    \* the result of the build that succeeded
  wants,    \* the artifact each thread is asking for
  excused,  \* the callers a build failed during the call of
  answers   \* the <<artifact, result>> pairs handed to callers

vars == <<phase, value, wants, excused, answers>>

Init ==
  /\ phase = [k \in Keys |-> "unbuilt"]
  /\ value = [k \in Keys |-> None]
  /\ wants = [t \in Threads |-> None]
  /\ excused = {}
  /\ answers = {}

Call(t, k) ==
  /\ wants[t] = None
  /\ wants' = [wants EXCEPT ![t] = k]
  /\ excused' = IF phase[k] = "failed" THEN excused \cup {t} ELSE excused
  /\ UNCHANGED <<phase, value, answers>>

Start(k) ==
  /\ phase[k] = "unbuilt"
  /\ \E t \in Threads : wants[t] = k
  /\ phase' = [phase EXCEPT ![k] = "building"]
  /\ UNCHANGED <<value, wants, excused, answers>>

Succeed(k, v) ==
  /\ phase[k] = "building"
  /\ phase' = [phase EXCEPT ![k] = "built"]
  /\ value' = [value EXCEPT ![k] = v]
  /\ UNCHANGED <<wants, excused, answers>>

Fail(k) ==
  /\ phase[k] = "building"
  /\ phase' = [phase EXCEPT ![k] = "failed"]
  /\ excused' = excused \cup {t \in Threads : wants[t] = k}
  /\ UNCHANGED <<value, wants, answers>>

Forget(k) ==
  /\ phase[k] = "failed"
  /\ phase' = [phase EXCEPT ![k] = "unbuilt"]
  /\ UNCHANGED <<value, wants, excused, answers>>

Answer(t) ==
  /\ wants[t] # None
  /\ phase[wants[t]] = "built"
  /\ answers' = answers \cup {<<wants[t], value[wants[t]]>>}
  /\ wants' = [wants EXCEPT ![t] = None]
  /\ UNCHANGED <<phase, value, excused>>

Refuse(t) ==
  /\ t \in excused
  /\ wants' = [wants EXCEPT ![t] = None]
  /\ excused' = excused \ {t}
  /\ UNCHANGED <<phase, value, answers>>

Next ==
  \/ \E t \in Threads : Answer(t) \/ Refuse(t) \/ \E k \in Keys : Call(t, k)
  \/ \E k \in Keys : Start(k) \/ Fail(k) \/ Forget(k) \/ \E t \in Threads : Succeed(k, t)

Spec == Init /\ [][Next]_vars
=============================================================================
