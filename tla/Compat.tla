------------------------------- MODULE Compat -------------------------------
(***************************************************************************)
(* Reuse eligibility: check_reuse (reuse.cpp), the compatibility engine it *)
(* ends in (evaluate_compatibility, compat.cpp), and Catalog::reuse, which *)
(* fills in what check_reuse is told about the outside world               *)
(* (catalog.cpp:474-500).                                                  *)
(*                                                                         *)
(* One step is one gate of check_reuse or one dimension of                 *)
(* evaluate_compatibility, in the order of the code, so that the lists and *)
(* the outcome can be looked at half way: the loop they are built in is    *)
(* what the invariants are about.                                          *)
(*                                                                         *)
(* A descriptor's optional fields are a partial function from field to     *)
(* value, and so are the fields a requirement sets.  An identity or a text *)
(* is a value that is only compared for equality; reuse metadata is the    *)
(* set of texts that occur in it.  A dependency carries the lifecycle the  *)
(* catalog finds it in.  Messages are left out.                            *)
(***************************************************************************)
EXTENDS Lifecycle, Integers, Sequences, Functions

CONSTANTS
  Questions,        \* what callers ask check_reuse
  CatalogQuestions, \* what callers ask Catalog::reuse
  ProtocolVersion   \* ARTIFACT_FABRIC_PROTOCOL_VERSION

(* Severity, least first; COMPATIBLE and UNKNOWN share the lowest rank. *)
Severity(outcome) ==
  CASE outcome = "INTEGRITY_FAILURE"   -> 9
    [] outcome = "ABI_MISMATCH"        -> 8
    [] outcome = "ARCH_MISMATCH"       -> 7
    [] outcome = "TOOLCHAIN_MISMATCH"  -> 6
    [] outcome = "GENERATION_MISMATCH" -> 5
    [] outcome = "DEPENDENCY_STALE"    -> 4
    [] outcome = "STALE"               -> 3
    [] outcome = "INVALIDATED"         -> 2
    [] outcome = "INCOMPATIBLE"        -> 1
    [] OTHER                           -> 0

(* The dimensions a requirement can set, by how they are compared. *)
Exact ==
  {"kind", "model", "adapter", "runtime", "backend", "compiler", "toolchain", "architecture",
   "compute_capability", "abi", "dtype", "layout", "shape", "specialization",
   "launch_geometry", "protocol_version"}

Minimum ==
  {"model_generation", "adapter_generation", "toolchain_generation",
   "dependency_generation", "policy_generation", "artifact_generation"}

Gates == <<"integrity", "provenance", "authority", "lifecycle", "validation", "placement">>

Dimensions ==
  <<"validation", "lifecycle", "kind", "model", "adapter", "runtime", "backend", "compiler",
    "toolchain", "architecture", "compute_capability", "abi", "dtype", "layout", "shape",
    "specialization", "launch_geometry", "tokenizer_vocab", "model_generation",
    "adapter_generation", "toolchain_generation", "dependency_generation",
    "policy_generation", "artifact_generation", "protocol_version", "dependency">>

VARIABLES
  desc, req, inputs,  \* the descriptor, the requirement and the ReuseInputs
  phase, at,          \* which list is being gone through, and where in it
  failures,           \* ReuseResult::failures
  failed, outcome,    \* CompatResult::failed_dimensions and ::outcome
  reusable            \* ReuseResult::reusable

vars == <<desc, req, inputs, phase, at, failures, failed, outcome, reusable>>
question == <<desc, req, inputs>>

Unasked == [unasked |-> TRUE]

Init ==
  /\ desc = Unasked /\ req = Unasked /\ inputs = Unasked
  /\ phase = "idle" /\ at = 1
  /\ failures = << >> /\ failed = << >> /\ outcome = "UNKNOWN"
  /\ reusable = FALSE

-----------------------------------------------------------------------------
(* The gates of check_reuse. *)

IntegrityFailed == ~inputs.integrity \/ desc.validation = "INTEGRITY_FAILURE"

Validated(d) == d.validation \in {"VALID", "INTEGRITY_OK"}

(* The lifecycles reuse refuses. *)
Refused == Withdrawn \cup {"STALE"}

GateFails(gate) ==
  \/ gate = "integrity" /\ IntegrityFailed
  \/ gate = "provenance" /\ ~inputs.provenance
  \/ gate = "authority" /\ ~inputs.authority
  \/ gate = "lifecycle" /\ desc.lifecycle \in Refused
  \/ gate = "validation" /\ ~Validated(desc) /\ ~IntegrityFailed
  \/ gate = "placement" /\ ~inputs.placement

-----------------------------------------------------------------------------
(* The dimensions of evaluate_compatibility. *)

(* What the descriptor has to show: specialization is held against the     *)
(* shape, and a dependency generation against the largest one required of  *)
(* a direct dependency, zero when there is none.                           *)
EffectiveGeneration(d) ==
  LET required == {0} \cup {d.deps[i].generation : i \in 1..Len(d.deps)}
  IN  CHOOSE g \in required : \A other \in required : g >= other

Computed == {"dependency_generation", "protocol_version"}

Source(dim) == IF dim = "specialization" THEN "shape" ELSE dim

Offered(d, dim) ==
  CASE dim = "dependency_generation" -> EffectiveGeneration(d)
    [] dim = "protocol_version"      -> ProtocolVersion
    [] OTHER                         -> d.fields[Source(dim)]

Has(d, dim) == dim \in Computed \/ Source(dim) \in DOMAIN d.fields

Meets(d, q, dim) ==
  /\ Has(d, dim)
  /\ \/ dim \in Exact /\ Offered(d, dim) = q.asks[dim]
     \/ dim \in Minimum /\ Offered(d, dim) >= q.asks[dim]
     \/ dim = "tokenizer_vocab" /\ q.asks[dim] \in Offered(d, dim)

(* The predicate Catalog::reuse supplies: a dependency it does not know is *)
(* not fresh, a stale or superseded one is.                                *)
Fresh(dependency) ==
  dependency.lifecycle \notin {"ABSENT", "INVALIDATED", "RETIRED", "EVICTED", "QUARANTINED"}

StaleDependency == \E i \in 1..Len(desc.deps) : ~Fresh(desc.deps[i])

(* require_reusable passes over STALE and over what was never published. *)
LifecycleMismatch == {"SUPERSEDED", "QUARANTINED", "INVALIDATED", "EVICTED", "RETIRED", "FAILED"}

Fails(dim) ==
  \/ dim = "validation" /\ req.valid /\ desc.validation # "VALID"
  \/ dim = "lifecycle" /\ req.reusable /\ desc.lifecycle \in LifecycleMismatch
  \/ dim \in DOMAIN req.asks /\ ~Meets(desc, req, dim)
  \/ dim = "dependency" /\ inputs.asksFreshness /\ StaleDependency

(* The outcome a dimension fails with. *)
OutcomeOf(dim) ==
  CASE dim = "validation" ->
         IF desc.validation = "INTEGRITY_FAILURE" THEN "INTEGRITY_FAILURE" ELSE "INVALIDATED"
    [] dim = "lifecycle" ->
         IF desc.lifecycle = "SUPERSEDED" THEN "STALE"
         ELSE IF desc.lifecycle \in {"QUARANTINED", "INVALIDATED"} THEN "INVALIDATED"
         ELSE "INCOMPATIBLE"
    [] dim \in {"toolchain", "toolchain_generation"} -> "TOOLCHAIN_MISMATCH"
    [] dim \in {"architecture", "compute_capability"} -> "ARCH_MISMATCH"
    [] dim = "abi" -> "ABI_MISMATCH"
    [] dim \in {"model_generation", "adapter_generation", "artifact_generation"} -> "GENERATION_MISMATCH"
    [] dim \in {"dependency_generation", "dependency"} -> "DEPENDENCY_STALE"
    [] dim = "policy_generation" -> "STALE"
    [] OTHER -> "INCOMPATIBLE"

(* A slip: the last failure decides, however mild. *)
UpgradedToLatest(o) == o

(* upgrade: the outcome only ever gets more severe. *)
Upgraded(o) == IF Severity(o) > Severity(outcome) THEN o ELSE outcome

-----------------------------------------------------------------------------
(* check_reuse, called with inputs of the caller's own. *)
Begins(d, q, i) ==
  /\ phase = "idle"
  /\ desc' = d /\ req' = q /\ inputs' = i
  /\ phase' = "gates" /\ at' = 1
  /\ failures' = << >> /\ failed' = << >> /\ outcome' = "UNKNOWN"
  /\ reusable' = FALSE

CheckReuse(q) == Begins(q.desc, q.req, q.inputs)

(* A slip: every copy known to be bad counts as no copy known. *)
CatalogInputsUnplaced(d) ==
  [integrity |-> d.validation \notin {"INTEGRITY_FAILURE", "QUARANTINED"}, placement |-> TRUE,
   provenance |-> d.provenance, authority |-> TRUE, asksFreshness |-> TRUE]

(* Catalog::reuse: an artifact is placed where one copy of it is intact, or *)
(* nothing is known of its copies; the authority is taken to be current.   *)
CatalogInputs(d) ==
  [integrity |-> d.validation \notin {"INTEGRITY_FAILURE", "QUARANTINED"},
   placement |-> d.placements # {} => TRUE \in d.placements,
   provenance |-> d.provenance,
   authority |-> TRUE,
   asksFreshness |-> TRUE]

Reuse(d, q) == Begins(d, q, CatalogInputs(d))

(* Catalog::reuse of an id it does not know. *)
ReuseUnknown ==
  /\ phase = "idle"
  /\ desc' = Unasked /\ req' = Unasked /\ inputs' = Unasked
  /\ phase' = "done" /\ at' = 1
  /\ failures' = <<"unknown artifact">>
  /\ failed' = << >> /\ outcome' = "UNKNOWN"
  /\ reusable' = FALSE

PassGate ==
  /\ phase = "gates" /\ at <= Len(Gates)
  /\ failures' = IF GateFails(Gates[at]) THEN Append(failures, Gates[at]) ELSE failures
  /\ at' = at + 1
  /\ UNCHANGED <<question, phase, failed, outcome, reusable>>

StartEvaluation ==
  /\ phase = "gates" /\ at = Len(Gates) + 1
  /\ phase' = "dimensions" /\ at' = 1
  /\ outcome' = "COMPATIBLE"
  /\ UNCHANGED <<question, failures, failed, reusable>>

(* A slip: a failure that changes nothing about the outcome goes unlisted. *)
CompareDimensionWhileWorse ==
  /\ phase = "dimensions" /\ at <= Len(Dimensions)
  /\ IF Fails(Dimensions[at]) /\ outcome # Upgraded(OutcomeOf(Dimensions[at]))
     THEN /\ failed' = Append(failed, Dimensions[at])
          /\ outcome' = Upgraded(OutcomeOf(Dimensions[at]))
     ELSE UNCHANGED <<failed, outcome>>
  /\ at' = at + 1
  /\ UNCHANGED <<question, phase, failures, reusable>>

CompareDimension ==
  /\ phase = "dimensions" /\ at <= Len(Dimensions)
  /\ IF Fails(Dimensions[at])
     THEN /\ failed' = Append(failed, Dimensions[at])
          /\ outcome' = Upgraded(OutcomeOf(Dimensions[at]))
     ELSE UNCHANGED <<failed, outcome>>
  /\ at' = at + 1
  /\ UNCHANGED <<question, phase, failures, reusable>>

(* The outcome, not the list, decides whether the failed dimensions count. *)
Conclude ==
  /\ phase = "dimensions" /\ at = Len(Dimensions) + 1
  /\ phase' = "done"
  /\ failures' = IF outcome = "COMPATIBLE" THEN failures ELSE failures \o failed
  /\ reusable' = (failures' = << >>)
  /\ UNCHANGED <<question, at, failed, outcome>>

(* The caller has its ReuseResult. *)
Return ==
  /\ phase = "done"
  /\ desc' = Unasked /\ req' = Unasked /\ inputs' = Unasked
  /\ phase' = "idle" /\ at' = 1
  /\ failures' = << >> /\ failed' = << >> /\ outcome' = "UNKNOWN"
  /\ reusable' = FALSE

Next ==
  \/ \E q \in Questions : CheckReuse(q)
  \/ \E q \in CatalogQuestions : Reuse(q.desc, q.req)
  \/ ReuseUnknown
  \/ PassGate \/ StartEvaluation \/ CompareDimension \/ Conclude \/ Return

Spec == Init /\ [][Next]_vars

-----------------------------------------------------------------------------
Judging == phase = "dimensions" \/ (phase = "done" /\ desc # Unasked)
Answered == phase = "done" /\ desc # Unasked

(* The lists the code builds are lists of gates and of dimensions, and the *)
(* loop stays within them.                                                 *)
TypeOK ==
  /\ phase \in {"idle", "gates", "dimensions", "done"}
  /\ at \in 1..(Len(Dimensions) + 1)
  /\ phase = "gates" => at <= Len(Gates) + 1
  /\ failed \in Seq(Range(Dimensions))
  /\ failures \in Seq(Range(Gates) \cup Range(Dimensions) \cup {"unknown artifact"})

(* Half way through the comparison as at its end, the outcome is that of a *)
(* dimension that failed and none that failed is worse, whatever the order *)
(* they came in (compat.cpp:5-6 and :26-33); and there is one as soon as   *)
(* anything failed, for check_reuse asks the outcome and not the list.     *)
OutcomeIsWorst ==
  Judging =>
    IF failed = << >> THEN outcome = "COMPATIBLE"
    ELSE /\ outcome # "COMPATIBLE"
         /\ \E i \in 1..Len(failed) : outcome = OutcomeOf(failed[i])
         /\ \A i \in 1..Len(failed) : Severity(OutcomeOf(failed[i])) <= Severity(outcome)

(* What stands at some positions of a list of names, in its order.         *)
Lists(list, names, positions) ==
  /\ Range(list) = {names[k] : k \in positions}
  /\ \A i, j \in 1..Len(list) : i < j =>
       \E k, l \in positions : k < l /\ list[i] = names[k] /\ list[j] = names[l]

(* The list of failed dimensions is complete and in the order of the code, *)
(* a severe failure hiding no milder one (compat.cpp:6); and the reasons   *)
(* of reuse are the gates in theirs followed by that list (reuse.hpp:38).  *)
ReasonsComplete ==
  Answered =>
    /\ Lists(failed, Dimensions, {k \in 1..Len(Dimensions) : Fails(Dimensions[k])})
    /\ \E n \in 0..Len(failures) :
         /\ Lists(SubSeq(failures, 1, n), Gates, {k \in 1..Len(Gates) : GateFails(Gates[k])})
         /\ SubSeq(failures, n + 1, Len(failures)) = failed

(* The verdict is yes exactly when nothing is wrong: no gate and no        *)
(* dimension can fail without the failure reaching the verdict through the *)
(* severity of its outcome (reuse.cpp:38-43).                              *)
VerdictIsExact ==
  Answered =>
    (reusable <=> /\ \A i \in 1..Len(Gates) : ~GateFails(Gates[i])
                  /\ \A i \in 1..Len(Dimensions) : ~Fails(Dimensions[i]))

(* What reuse hands out from the catalog is fit for use whatever was asked *)
(* of it, and what is fit is handed out to a caller that asks nothing: its *)
(* bytes passed validation, one copy is sound, its origin is known, it is  *)
(* not withdrawn and neither is a direct dependency (catalog.cpp:474-500). *)
(* This is what Catalog, asking nothing, takes reuse to be.                *)
Fit(d) ==
  /\ d.lifecycle \notin Withdrawn \cup {"STALE"}
  /\ d.validation \in {"VALID", "INTEGRITY_OK"}
  /\ d.provenance
  /\ d.placements = {} \/ TRUE \in d.placements
  /\ \A i \in 1..Len(d.deps) : Fresh(d.deps[i])

AsksNothing(q) == ~q.valid /\ ~q.reusable /\ DOMAIN q.asks = {}

HandsOutTheFit ==
  Answered /\ inputs = CatalogInputs(desc) =>
    /\ reusable => Fit(desc)
    /\ Fit(desc) /\ AsksNothing(req) => reusable

=============================================================================
