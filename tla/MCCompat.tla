------------------------------ MODULE MCCompat ------------------------------
(* Questions that differ from an unremarkable one in a few places at once. *)
EXTENDS Compat, TLC

Named == Exact \ {"specialization", "protocol_version"}

(* Everything at its first value, and one identity and one generation left *)
(* open.                                                                   *)
Plain ==
  [lifecycle |-> "PUBLISHED", validation |-> "VALID", provenance |-> TRUE, placements |-> {},
   deps |-> <<[lifecycle |-> "ACTIVE", generation |-> 1]>>,
   fields |-> [f \in (Named \cup Minimum) \ {"adapter", "adapter_generation"} |-> 1]
                @@ ("tokenizer_vocab" :> {1})]

Nothing == [valid |-> FALSE, reusable |-> FALSE, asks |-> << >>]
AllWell == [integrity |-> TRUE, placement |-> TRUE, provenance |-> TRUE, authority |-> TRUE,
            asksFreshness |-> TRUE]

Askable == Exact \cup Minimum \cup {"tokenizer_vocab"}

(* Two fields, each at a value the descriptor has or one it has not. *)
TwoAsks ==
  {[Nothing EXCEPT !.asks = (x :> v) @@ (y :> w)] : x, y \in Askable, v, w \in {1, 2}}

Flags == {[Nothing EXCEPT !.valid = v, !.reusable = r] : v, r \in BOOLEAN}

States == {[Plain EXCEPT !.lifecycle = l, !.validation = v] : l \in LifecycleStates, v \in ValidationStates}

Dependency == [lifecycle : {"ABSENT", "ACTIVE", "STALE", "INVALIDATED"}, generation : {0, 2}]

Depending ==
  {[Plain EXCEPT !.deps = deps, !.placements = p, !.provenance = o] :
     deps \in {<< >>} \cup {<<d>> : d \in Dependency} \cup {<<d, e>> : d, e \in Dependency},
     p \in SUBSET BOOLEAN, o \in BOOLEAN}

(* Callers of check_reuse give inputs of their own; two failing fields and *)
(* any state of the artifact meet in every order.                          *)
SomeQuestions ==
  {[desc |-> Plain, req |-> q, inputs |-> AllWell] : q \in TwoAsks}
    \cup {[desc |-> d, req |-> [valid |-> TRUE, reusable |-> TRUE, asks |-> ("abi" :> 2)],
            inputs |-> i] :
             d \in States, i \in {AllWell, [AllWell EXCEPT !.integrity = FALSE, !.authority = FALSE]}}

SomeCatalogQuestions ==
  {[desc |-> d, req |-> q] : d \in States, q \in Flags}
    \cup {[desc |-> d, req |-> q] :
             d \in Depending, q \in {Nothing, [Nothing EXCEPT !.asks = ("dependency_generation" :> 1)]}}
=============================================================================
