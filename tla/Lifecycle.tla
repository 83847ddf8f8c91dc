------------------------------ MODULE Lifecycle ------------------------------
(***************************************************************************)
(* The lifecycle and validation vocabulary every other module speaks:      *)
(* LifecycleState and its transition table (lifecycle.hpp),                *)
(* ValidationState and ValidationReport::all_ok (validation.hpp).          *)
(* Everything here is constant-level.                                      *)
(***************************************************************************)

LifecycleStates ==
  {"DECLARED", "BUILDING", "VALIDATING", "VALID", "PUBLISHED", "ACTIVE",
   "STALE", "INVALIDATED", "SUPERSEDED", "QUARANTINED", "EVICTED",
   "RETIRED", "FAILED"}

ValidationStates ==
  {"UNVALIDATED", "VALIDATING", "INTEGRITY_OK", "VALID", "INVALID",
   "QUARANTINED", "INTEGRITY_FAILURE"}

(* The rows of can_transition. *)
Successors ==
  [s \in LifecycleStates |->
     CASE s = "DECLARED"    -> {"BUILDING", "FAILED", "RETIRED"}
       [] s = "BUILDING"    -> {"VALIDATING", "FAILED", "QUARANTINED"}
       [] s = "VALIDATING"  -> {"VALID", "FAILED", "QUARANTINED"}
       [] s = "VALID"       -> {"PUBLISHED", "ACTIVE", "INVALIDATED", "SUPERSEDED",
                                "QUARANTINED", "STALE", "RETIRED"}
       [] s = "PUBLISHED"   -> {"ACTIVE", "INVALIDATED", "SUPERSEDED",
                                "QUARANTINED", "STALE", "RETIRED"}
       [] s = "ACTIVE"      -> {"STALE", "INVALIDATED", "SUPERSEDED",
                                "QUARANTINED", "RETIRED", "EVICTED"}
       [] s = "STALE"       -> {"INVALIDATED", "RETIRED", "ACTIVE"}
       [] s = "INVALIDATED" -> {"RETIRED", "QUARANTINED", "STALE"}
       [] s = "SUPERSEDED"  -> {"RETIRED", "QUARANTINED", "STALE"}
       [] s = "QUARANTINED" -> {"RETIRED", "VALIDATING", "EVICTED"}
       [] s = "EVICTED"     -> {"RETIRED"}
       [] s \in {"RETIRED", "FAILED"} -> {}]

(* A slip: an invalidated artifact may be promoted again. *)
MayRevive(from, to) ==
  to \in Successors[from] \/ (from = "INVALIDATED" /\ to = "ACTIVE")

CanTransition(from, to) == from \in DOMAIN Successors /\ to \in Successors[from]

(* A ValidationReport: the state it reports, and whether all its checks,   *)
(* if it has any, are ok.                                                  *)
ValidationReports == [state : ValidationStates, passed : BOOLEAN]

(* ValidationReport::all_ok. *)
AllOk(report) == report.passed /\ report.state \in {"VALID", "INTEGRITY_OK"}

(* Lifecycles an artifact can be in once a publication has committed and   *)
(* nothing has withdrawn it.                                               *)
Live == {"PUBLISHED", "ACTIVE"}

(* Lifecycles no operation may bring back into circulation. *)
Withdrawn == {"INVALIDATED", "SUPERSEDED", "QUARANTINED", "EVICTED", "RETIRED", "FAILED"}
=============================================================================
