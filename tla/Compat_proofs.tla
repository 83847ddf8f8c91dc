---------------------------- MODULE Compat_proofs ----------------------------
(***************************************************************************)
(* The outcome is the worst failure, the reasons are complete and the      *)
(* verdict is exact, for every descriptor, requirement and inputs.         *)
(*                                                                         *)
(* The loop invariant, Inv, says of each list what it holds so far: it is  *)
(* empty exactly when nothing that was looked at fails, and the outcome is *)
(* the worst of the failed dimensions listed.  ListInv says the same of    *)
(* the order.  The step of the proof that the code depends on is           *)
(* SeverityLemma: every outcome a dimension can fail with outranks         *)
(* COMPATIBLE.                                                             *)
(***************************************************************************)
EXTENDS Compat, TLAPS

(* Every outcome a dimension fails with has a rank above success. *)
LEMMA SeverityLemma ==
  ASSUME NEW dim
  PROVE  /\ Severity(OutcomeOf(dim)) \in 1..9
         /\ OutcomeOf(dim) # "COMPATIBLE"
         /\ Severity("COMPATIBLE") = 0
BY DEF Severity, OutcomeOf

(* What is asked of a question that stands still stays the same. *)
LEMMA SameQuestion ==
  ASSUME UNCHANGED question
  PROVE  /\ \A dim : Fails(dim)' <=> Fails(dim)
         /\ \A gate : GateFails(gate)' <=> GateFails(gate)
         /\ \A dim : OutcomeOf(dim)' = OutcomeOf(dim)
BY DEF question, Fails, GateFails, OutcomeOf, IntegrityFailed, StaleDependency

WorstSoFar ==
  IF failed = << >> THEN outcome = "COMPATIBLE"
  ELSE /\ outcome # "COMPATIBLE"
       /\ \E i \in 1..Len(failed) : outcome = OutcomeOf(failed[i])
       /\ \A i \in 1..Len(failed) : Severity(OutcomeOf(failed[i])) <= Severity(outcome)

GatesListed(n) == failures = << >> <=> \A i \in 1..n : ~GateFails(Gates[i])
DimensionsListed(n) == failed = << >> <=> \A i \in 1..n : ~Fails(Dimensions[i])

Inv ==
  /\ TypeOK
  /\ phase = "gates" => at <= 7 /\ GatesListed(at - 1) /\ failed = << >>
  /\ phase = "dimensions" => at <= 27 /\ GatesListed(6) /\ DimensionsListed(at - 1) /\ WorstSoFar
  /\ Answered => WorstSoFar /\ VerdictIsExact

(* The lists have the lengths of reuse.cpp and compat.cpp. *)
LEMMA Lengths == Len(Gates) = 6 /\ Len(Dimensions) = 26
<1>1. Len(Gates) = 6
  BY DEF Gates
<1>2. Len(Dimensions) = 26
  BY DEF Dimensions
<1>. QED  BY <1>1, <1>2

LEMMA Entries ==
  /\ \A i \in 1..6 : Gates[i] \in Range(Gates)
  /\ \A i \in 1..26 : Dimensions[i] \in Range(Dimensions)
<1>1. DOMAIN Gates = 1..6
  BY DEF Gates
<1>2. DOMAIN Dimensions = 1..26
  BY DEF Dimensions
<1>. QED  BY <1>1, <1>2 DEF Range

(* What the type invariant says of the loop index, in numbers. *)
LEMMA IndexBounds ==
  TypeOK <=> /\ phase \in {"idle", "gates", "dimensions", "done"}
             /\ at \in 1..27
             /\ phase = "gates" => at <= 7
             /\ failed \in Seq(Range(Dimensions))
             /\ failures \in Seq(Range(Gates) \cup Range(Dimensions) \cup {"unknown artifact"})
<1>1. 1..(Len(Dimensions) + 1) = 1..27 /\ Len(Gates) + 1 = 7
  BY Lengths
<1>. QED  BY <1>1 DEF TypeOK

LEMMA InitInv == Init => Inv
BY Lengths DEF Init, Inv, TypeOK, Answered

Reasons == Range(Gates) \cup Range(Dimensions) \cup {"unknown artifact"}

(* Where a step of either list finds the loop. *)
LEMMA AtGate ==
  ASSUME Inv, PassGate
  PROVE  /\ UNCHANGED question /\ phase = "gates" /\ phase' = "gates" /\ at \in 1..6 /\ at' = at + 1
         /\ failed' = failed /\ reusable' = reusable
         /\ failures \in Seq(Reasons) /\ failed = << >> /\ GatesListed(at - 1) /\ TypeOK
<1>1. phase = "gates" /\ at <= Len(Gates)
  BY DEF PassGate
<1>2. at \in 1..6
  <2>1. TypeOK
    BY DEF Inv
  <2>2. at \in 1..27
    BY <2>1, IndexBounds
  <2>. QED  BY <1>1, <2>2, Lengths
<1>3. failures \in Seq(Reasons) /\ failed = << >> /\ GatesListed(at - 1) /\ TypeOK
  BY <1>1 DEF Inv, TypeOK, Reasons
<1>. QED  BY <1>1, <1>2, <1>3 DEF PassGate

LEMMA GateStep ==
  ASSUME Inv, PassGate
  PROVE  Inv'
<1>. DEFINE fails == GateFails(Gates[at])
<1>1. /\ UNCHANGED question /\ phase = "gates" /\ phase' = "gates" /\ at \in 1..6 /\ at' = at + 1
      /\ failed' = failed /\ reusable' = reusable
      /\ failures \in Seq(Reasons) /\ failed = << >> /\ GatesListed(at - 1) /\ TypeOK
  BY AtGate
<1>2. failures' = IF fails THEN Append(failures, Gates[at]) ELSE failures
  BY DEF PassGate
<1>3. Gates[at] \in Reasons
  BY <1>1, Entries DEF Reasons
<1>4. failures' \in Seq(Reasons) /\ (failures' = << >> <=> failures = << >> /\ ~fails)
  <2>1. Append(failures, Gates[at]) \in Seq(Reasons) /\ Append(failures, Gates[at]) # << >>
    BY <1>1, <1>3
  <2>. QED  BY <2>1, <1>1, <1>2
<1>5. \A gate : GateFails(gate)' <=> GateFails(gate)
  BY <1>1, SameQuestion
<1>6. GatesListed(at - 1)'
  <2>1. failures = << >> <=> \A i \in 1..(at - 1) : ~GateFails(Gates[i])
    BY <1>1 DEF GatesListed
  <2>2. (\A i \in 1..at : ~GateFails(Gates[i])) <=> (\A i \in 1..(at - 1) : ~GateFails(Gates[i])) /\ ~fails
    BY <1>1
  <2>3. (\A i \in 1..at : ~GateFails(Gates[i])') <=> (\A i \in 1..at : ~GateFails(Gates[i]))
    BY <1>5
  <2>4. at' - 1 = at
    BY <1>1
  <2>. QED  BY <2>1, <2>2, <2>3, <2>4, <1>4 DEF GatesListed
<1>7. TypeOK'
  <2>1. at' \in 1..(Len(Dimensions) + 1) /\ at' <= Len(Gates) + 1
    BY <1>1, Lengths
  <2>2. failed' \in Seq(Range(Dimensions))
    BY <1>1 DEF TypeOK
  <2>. QED  BY <2>1, <2>2, <1>1, <1>4 DEF TypeOK, Reasons
<1>. QED  BY <1>1, <1>6, <1>7 DEF Inv, Answered

LEMMA StartStep ==
  ASSUME Inv, StartEvaluation
  PROVE  Inv'
<1>1. UNCHANGED question /\ phase' = "dimensions" /\ at = 7 /\ at' = 1 /\ outcome' = "COMPATIBLE"
      /\ failed' = failed /\ failures' = failures /\ phase = "gates" /\ reusable' = reusable
  BY Lengths DEF StartEvaluation
<1>2. failed = << >> /\ GatesListed(6) /\ TypeOK
  BY <1>1 DEF Inv
<1>3. GatesListed(6)'
  BY <1>1, <1>2, SameQuestion DEF GatesListed
<1>4. DimensionsListed(at - 1)'
  BY <1>1, <1>2 DEF DimensionsListed
<1>5. WorstSoFar'
  BY <1>1, <1>2 DEF WorstSoFar
<1>6. TypeOK'
  <2>1. at' \in 1..(Len(Dimensions) + 1)
    BY <1>1, Lengths
  <2>2. /\ failed' \in Seq(Range(Dimensions))
        /\ failures' \in Seq(Range(Gates) \cup Range(Dimensions) \cup {"unknown artifact"})
    BY <1>1, <1>2 DEF TypeOK
  <2>. QED  BY <2>1, <2>2, <1>1 DEF TypeOK
<1>. QED  BY <1>1, <1>3, <1>4, <1>5, <1>6 DEF Inv, Answered

LEMMA AtDimension ==
  ASSUME Inv, CompareDimension
  PROVE  /\ UNCHANGED question /\ phase = "dimensions" /\ phase' = "dimensions" /\ at \in 1..26
         /\ at' = at + 1 /\ failures' = failures /\ reusable' = reusable
         /\ failed \in Seq(Range(Dimensions)) /\ GatesListed(6) /\ DimensionsListed(at - 1)
         /\ WorstSoFar /\ TypeOK
<1>1. phase = "dimensions" /\ at <= Len(Dimensions)
  BY DEF CompareDimension
<1>2. at \in 1..26
  <2>1. TypeOK
    BY DEF Inv
  <2>2. at \in 1..27
    BY <2>1, IndexBounds
  <2>. QED  BY <1>1, <2>2, Lengths
<1>3. failed \in Seq(Range(Dimensions)) /\ GatesListed(6) /\ DimensionsListed(at - 1)
      /\ WorstSoFar /\ TypeOK
  BY <1>1 DEF Inv, TypeOK
<1>. QED  BY <1>1, <1>2, <1>3 DEF CompareDimension

LEMMA CompareStep ==
  ASSUME Inv, CompareDimension
  PROVE  Inv'
<1>. DEFINE dim == Dimensions[at]
            fails == Fails(dim)
<1>1. /\ UNCHANGED question /\ phase = "dimensions" /\ phase' = "dimensions" /\ at \in 1..26
      /\ at' = at + 1 /\ failures' = failures /\ reusable' = reusable
      /\ failed \in Seq(Range(Dimensions)) /\ GatesListed(6) /\ DimensionsListed(at - 1)
      /\ WorstSoFar /\ TypeOK
  BY AtDimension
<1>2. /\ fails => failed' = Append(failed, dim) /\ outcome' = Upgraded(OutcomeOf(dim))
      /\ ~fails => failed' = failed /\ outcome' = outcome
  BY DEF CompareDimension
<1>3. dim \in Range(Dimensions)
  BY <1>1, Entries
<1>4. /\ Append(failed, dim) \in Seq(Range(Dimensions)) /\ Append(failed, dim) # << >>
      /\ Len(Append(failed, dim)) = Len(failed) + 1 /\ Len(failed) \in Nat
      /\ \A i \in 1..Len(failed) : Append(failed, dim)[i] = failed[i]
      /\ Append(failed, dim)[Len(failed) + 1] = dim
  BY <1>1, <1>3
<1>5. failed' \in Seq(Range(Dimensions)) /\ (failed' = << >> <=> failed = << >> /\ ~fails)
  BY <1>1, <1>2, <1>4
<1>6. /\ \A d : Fails(d)' <=> Fails(d)
      /\ \A gate : GateFails(gate)' <=> GateFails(gate)
      /\ \A d : OutcomeOf(d)' = OutcomeOf(d)
  BY <1>1, SameQuestion
<1>7. DimensionsListed(at - 1)'
  <2>1. failed = << >> <=> \A i \in 1..(at - 1) : ~Fails(Dimensions[i])
    BY <1>1 DEF DimensionsListed
  <2>2. (\A i \in 1..at : ~Fails(Dimensions[i])) <=> (\A i \in 1..(at - 1) : ~Fails(Dimensions[i])) /\ ~fails
    BY <1>1
  <2>3. (\A i \in 1..at : ~Fails(Dimensions[i])') <=> (\A i \in 1..at : ~Fails(Dimensions[i]))
    BY <1>6
  <2>4. at' - 1 = at
    BY <1>1
  <2>. QED  BY <2>1, <2>2, <2>3, <2>4, <1>5 DEF DimensionsListed
<1>8. GatesListed(6)'
  BY <1>1, <1>6 DEF GatesListed
<1>9. WorstSoFar'
  <2>1. CASE ~fails
    BY <2>1, <1>1, <1>2, <1>6 DEF WorstSoFar
  <2>2. CASE fails
    <3>. DEFINE o == OutcomeOf(dim)
                list == Append(failed, dim)
    <3>1. failed' = list /\ list # << >> /\ outcome' = Upgraded(o)
      BY <2>2, <1>2, <1>4
    <3>2. Severity(o) \in 1..9 /\ o # "COMPATIBLE"
      BY SeverityLemma
    <3>3. /\ failed = << >> => Severity(outcome) = 0
          /\ failed # << >> => Severity(outcome) \in 1..9
      BY <1>1, SeverityLemma DEF WorstSoFar
    <3>4. /\ Upgraded(o) # "COMPATIBLE"
          /\ Severity(o) <= Severity(Upgraded(o))
          /\ Severity(outcome) <= Severity(Upgraded(o))
          /\ Severity(Upgraded(o)) \in 1..9
          /\ Upgraded(o) = o \/ (Upgraded(o) = outcome /\ failed # << >>)
      BY <1>1, <3>2, <3>3 DEF Upgraded, WorstSoFar
    <3>5. \E i \in 1..Len(list) : Upgraded(o) = OutcomeOf(list[i])
      <4>1. CASE Upgraded(o) = o
        <5>1. Len(failed) + 1 \in 1..Len(list) /\ list[Len(failed) + 1] = dim
          BY <1>4
        <5>. QED  BY <4>1, <5>1
      <4>2. CASE Upgraded(o) = outcome /\ failed # << >>
        <5>1. PICK i \in 1..Len(failed) : outcome = OutcomeOf(failed[i])
          BY <4>2, <1>1 DEF WorstSoFar
        <5>2. i \in 1..Len(list) /\ list[i] = failed[i]
          BY <1>4, <5>1
        <5>. QED  BY <4>2, <5>1, <5>2
      <4>. QED  BY <3>4, <4>1, <4>2
    <3>6. \A i \in 1..Len(list) : Severity(OutcomeOf(list[i])) <= Severity(Upgraded(o))
      <4>. TAKE i \in 1..Len(list)
      <4>1. CASE i = Len(failed) + 1
        BY <4>1, <1>4, <3>4
      <4>2. CASE i \in 1..Len(failed)
        <5>1. list[i] = failed[i] /\ failed # << >>
          BY <4>2, <1>4
        <5>2. Severity(OutcomeOf(failed[i])) <= Severity(outcome)
          BY <4>2, <5>1, <1>1 DEF WorstSoFar
        <5>3. Severity(outcome) \in 1..9 /\ Severity(OutcomeOf(failed[i])) \in 1..9
          BY <5>1, <3>3, SeverityLemma
        <5>. QED  BY <5>1, <5>2, <5>3, <3>4
      <4>. QED  BY <4>1, <4>2, <1>4
    <3>7. Severity(outcome') = Severity(outcome)'
      BY DEF Severity
    <3>. QED  BY <3>1, <3>4, <3>5, <3>6, <1>6 DEF WorstSoFar, Severity
  <2>. QED  BY <2>1, <2>2
<1>10. TypeOK'
  <2>1. at' \in 1..(Len(Dimensions) + 1)
    BY <1>1, Lengths
  <2>2. failures' \in Seq(Range(Gates) \cup Range(Dimensions) \cup {"unknown artifact"})
    BY <1>1 DEF TypeOK
  <2>. QED  BY <2>1, <2>2, <1>1, <1>5 DEF TypeOK
<1>. QED  BY <1>1, <1>7, <1>8, <1>9, <1>10 DEF Inv, Answered

LEMMA LongerAlphabet ==
  ASSUME NEW S, NEW T, S \subseteq T, NEW list \in Seq(S)
  PROVE  list \in Seq(T)
OBVIOUS

LEMMA OneReason ==
  ASSUME NEW S, NEW reason \in S
  PROVE  << >> \in Seq(S) /\ <<reason>> \in Seq(S)
OBVIOUS

LEMMA ConcludeStep ==
  ASSUME Inv, Conclude
  PROVE  Inv'
<1>1. /\ UNCHANGED question /\ phase = "dimensions" /\ at = 27 /\ phase' = "done" /\ at' = at
      /\ failed' = failed /\ outcome' = outcome
  BY Lengths DEF Conclude
<1>2. /\ failures \in Seq(Reasons) /\ failed \in Seq(Range(Dimensions)) /\ TypeOK
      /\ GatesListed(6) /\ WorstSoFar
  BY <1>1 DEF Inv, TypeOK, Reasons
<1>3. DimensionsListed(26)
  <2>1. at - 1 = 26
    BY <1>1
  <2>. QED  BY <1>1, <2>1 DEF Inv
<1>4. outcome = "COMPATIBLE" <=> failed = << >>
  BY <1>2 DEF WorstSoFar
<1>5. failures' = << >> <=> failures = << >> /\ failed = << >>
  <2>1. failures' = IF outcome = "COMPATIBLE" THEN failures ELSE failures \o failed
    BY DEF Conclude
  <2>2. failed # << >> => failures \o failed # << >>
    <3>1. Len(failures \o failed) = Len(failures) + Len(failed) /\ Len(failures) \in Nat /\ Len(failed) \in Nat
      BY <1>2
    <3>2. failed # << >> => Len(failed) # 0
      BY <1>2
    <3>. QED  BY <3>1, <3>2
  <2>. QED  BY <2>1, <2>2, <1>4
<1>6. TypeOK'
  <2>1. failures' \in Seq(Reasons)
    <3>1. failed \in Seq(Reasons)
      <4>1. Range(Dimensions) \subseteq Reasons
        BY DEF Reasons
      <4>. QED  BY <4>1, <1>2, LongerAlphabet
    <3>2. failures \o failed \in Seq(Reasons)
      BY <1>2, <3>1
    <3>. QED  BY <1>2, <3>2 DEF Conclude
  <2>2. at' \in 1..(Len(Dimensions) + 1)
    BY <1>1, Lengths
  <2>. QED  BY <2>1, <2>2, <1>1, <1>2 DEF TypeOK, Reasons
<1>7. WorstSoFar'
  BY <1>1, <1>2, SameQuestion DEF WorstSoFar, Severity
<1>8. VerdictIsExact'
  <2>1. reusable' <=> failures' = << >>
    BY DEF Conclude
  <2>2. (\A i \in 1..6 : ~GateFails(Gates[i])') <=> failures = << >>
    BY <1>1, <1>2, SameQuestion DEF GatesListed
  <2>3. (\A i \in 1..26 : ~Fails(Dimensions[i])') <=> failed = << >>
    BY <1>1, <1>3, SameQuestion DEF DimensionsListed
  <2>. QED  BY <2>1, <2>2, <2>3, <1>5, Lengths DEF VerdictIsExact
<1>. QED  BY <1>1, <1>6, <1>7, <1>8 DEF Inv

LEMMA BeginStep ==
  ASSUME NEW d, NEW q, NEW i, Inv, Begins(d, q, i)
  PROVE  Inv'
<1>1. phase' = "gates" /\ at' = 1 /\ failures' = << >> /\ failed' = << >>
  BY DEF Begins
<1>2. TypeOK'
  <2>1. at' \in 1..(Len(Dimensions) + 1) /\ at' <= Len(Gates) + 1
    BY <1>1, Lengths
  <2>. QED  BY <1>1, <2>1 DEF TypeOK
<1>3. GatesListed(at - 1)'
  BY <1>1 DEF GatesListed
<1>. QED  BY <1>1, <1>2, <1>3 DEF Inv, Answered

(* A call on an unknown id, and a call that has been answered. *)
LEMMA AroundStep ==
  ASSUME Inv, ReuseUnknown \/ Return
  PROVE  Inv'
<1>1. phase' \in {"idle", "done"} /\ at' = 1 /\ desc' = Unasked /\ failed' = << >>
  BY DEF ReuseUnknown, Return
<1>2. at' \in 1..(Len(Dimensions) + 1)
  BY <1>1, Lengths
<1>3. failures' \in Seq(Reasons)
  <2>1. "unknown artifact" \in Reasons
    BY DEF Reasons
  <2>2. << >> \in Seq(Reasons) /\ <<"unknown artifact">> \in Seq(Reasons)
    BY <2>1, OneReason
  <2>. QED  BY <2>2 DEF ReuseUnknown, Return
<1>4. TypeOK'
  <2>1. failed' \in Seq(Range(Dimensions))
    BY <1>1
  <2>. QED  BY <1>1, <1>2, <1>3, <2>1 DEF TypeOK, Reasons
<1>. QED  BY <1>1, <1>4 DEF Inv, Answered

LEMMA StutterStep ==
  ASSUME Inv, UNCHANGED vars
  PROVE  Inv'
<1>1. /\ UNCHANGED question /\ phase' = phase /\ at' = at /\ failures' = failures
      /\ failed' = failed /\ outcome' = outcome /\ reusable' = reusable /\ desc' = desc
  BY DEF vars, question
<1>2. WorstSoFar' <=> WorstSoFar
  BY <1>1, SameQuestion DEF WorstSoFar, Severity
<1>3. TypeOK' <=> TypeOK
  BY <1>1 DEF TypeOK
<1>4. (GatesListed(at - 1)' <=> GatesListed(at - 1)) /\ (GatesListed(6)' <=> GatesListed(6))
      /\ (DimensionsListed(at - 1)' <=> DimensionsListed(at - 1))
  BY <1>1, SameQuestion DEF GatesListed, DimensionsListed
<1>5. VerdictIsExact' <=> VerdictIsExact
  BY <1>1, SameQuestion DEF VerdictIsExact, Answered
<1>. QED  BY <1>1, <1>2, <1>3, <1>4, <1>5 DEF Inv, Answered

LEMMA NextInv == Inv /\ [Next]_vars => Inv'
<1>. SUFFICES ASSUME Inv, [Next]_vars PROVE Inv'
  OBVIOUS
<1>1. ASSUME NEW q \in Questions, CheckReuse(q) PROVE Inv'
  BY <1>1, BeginStep DEF CheckReuse
<1>2. ASSUME NEW q \in CatalogQuestions, Reuse(q.desc, q.req) PROVE Inv'
  BY <1>2, BeginStep DEF Reuse
<1>3. ASSUME ReuseUnknown \/ Return PROVE Inv'
  BY <1>3, AroundStep
<1>4. ASSUME PassGate PROVE Inv'
  BY <1>4, GateStep
<1>5. ASSUME StartEvaluation PROVE Inv'
  BY <1>5, StartStep
<1>6. ASSUME CompareDimension PROVE Inv'
  BY <1>6, CompareStep
<1>7. ASSUME Conclude PROVE Inv'
  BY <1>7, ConcludeStep
<1>8. ASSUME UNCHANGED vars PROVE Inv'
  BY <1>8, StutterStep
<1>. QED  BY <1>1, <1>2, <1>3, <1>4, <1>5, <1>6, <1>7, <1>8 DEF Next

LEMMA SpecInv == Spec => []Inv
BY InitInv, NextInv, PTL DEF Spec

(* The lists stay lists of gates and dimensions, and the loop stays within *)
(* them (reuse.cpp, compat.cpp).                                           *)
THEOREM ReuseTypes == Spec => []TypeOK
<1>1. Inv => TypeOK
  BY DEF Inv
<1>. QED  BY <1>1, SpecInv, PTL

(* The outcome of evaluate_compatibility is that of its worst failure, for *)
(* every descriptor and requirement (compat.cpp:26-33).                    *)
THEOREM WorstOutcome == Spec => []OutcomeIsWorst
<1>1. Inv => OutcomeIsWorst
  BY DEF Inv, OutcomeIsWorst, Judging, Answered, WorstSoFar
<1>. QED  BY <1>1, SpecInv, PTL

(* check_reuse says yes exactly when no gate and no dimension fails, for   *)
(* every descriptor, requirement and inputs (reuse.cpp:5-43).              *)
THEOREM ExactVerdict == Spec => []VerdictIsExact
<1>1. Inv => VerdictIsExact
  BY DEF Inv, VerdictIsExact
<1>. QED  BY <1>1, SpecInv, PTL

(* What an exact verdict says of an artifact asked for from the catalog.   *)
LEMMA ExactIsFit == VerdictIsExact => HandsOutTheFit
<1>. SUFFICES ASSUME VerdictIsExact, Answered, inputs = CatalogInputs(desc)
              PROVE  /\ reusable => Fit(desc)
                     /\ Fit(desc) /\ AsksNothing(req) => reusable
  BY DEF HandsOutTheFit
<1>1. /\ inputs.integrity <=> desc.validation \notin {"INTEGRITY_FAILURE", "QUARANTINED"}
      /\ inputs.placement <=> (desc.placements # {} => TRUE \in desc.placements)
      /\ inputs.provenance = desc.provenance /\ inputs.authority /\ inputs.asksFreshness
  BY DEF CatalogInputs
<1>2. reusable <=> /\ \A i \in 1..6 : ~GateFails(Gates[i])
                   /\ \A i \in 1..26 : ~Fails(Dimensions[i])
  BY Lengths DEF VerdictIsExact
<1>3. /\ Gates[1] = "integrity" /\ Gates[2] = "provenance" /\ Gates[4] = "lifecycle"
      /\ Gates[5] = "validation" /\ Gates[6] = "placement" /\ Dimensions[26] = "dependency"
  BY DEF Gates, Dimensions
<1>4. reusable => Fit(desc)
  <2>. SUFFICES ASSUME reusable PROVE Fit(desc)
    OBVIOUS
  <2>1. /\ ~GateFails("integrity") /\ ~GateFails("provenance") /\ ~GateFails("lifecycle")
        /\ ~GateFails("validation") /\ ~GateFails("placement") /\ ~Fails("dependency")
    BY <1>2, <1>3
  <2>2. \A i \in 1..Len(desc.deps) : Fresh(desc.deps[i])
    BY <2>1, <1>1 DEF Fails, StaleDependency
  <2>3. desc.lifecycle \notin Withdrawn \cup {"STALE"} /\ inputs.provenance /\ inputs.placement
    BY <2>1 DEF GateFails, Refused
  <2>4. desc.validation \in {"VALID", "INTEGRITY_OK"}
    BY <2>1 DEF GateFails, Validated, IntegrityFailed
  <2>. QED  BY <2>2, <2>3, <2>4, <1>1 DEF Fit
<1>5. Fit(desc) /\ AsksNothing(req) => reusable
  <2>. SUFFICES ASSUME Fit(desc), AsksNothing(req) PROVE reusable
    OBVIOUS
  <2>1. ~IntegrityFailed
    BY <1>1 DEF IntegrityFailed, Fit
  <2>2. \A gate : ~GateFails(gate)
    BY <2>1, <1>1 DEF GateFails, Fit, Validated, Refused
  <2>3. ~StaleDependency
    BY DEF StaleDependency, Fit
  <2>4. \A dim : ~Fails(dim)
    BY <2>3 DEF Fails, AsksNothing
  <2>. QED  BY <2>2, <2>4, <1>2
<1>. QED  BY <1>4, <1>5

(* Catalog::reuse hands out only what is fit for use, whatever was asked   *)
(* of it, and all that is fit to a caller that asks nothing.               *)
THEOREM OnlyTheFit == Spec => []HandsOutTheFit
BY ExactVerdict, ExactIsFit, PTL

-----------------------------------------------------------------------------
(* The reasons.  What the lists hold so far stands at the positions, of    *)
(* those passed, where something fails.                                    *)
FailedGates(n) == {k \in 1..n : GateFails(Gates[k])}
FailedDimensions(n) == {k \in 1..n : Fails(Dimensions[k])}

ListInv ==
  /\ phase = "gates" => Lists(failures, Gates, FailedGates(at - 1))
  /\ phase = "dimensions" =>
       /\ Lists(failures, Gates, FailedGates(6))
       /\ Lists(failed, Dimensions, FailedDimensions(at - 1))
  /\ ReasonsComplete

(* A list is extended by what stands behind all it holds. *)
LEMMA ListsAppended ==
  ASSUME NEW S, NEW list \in Seq(S), NEW names, NEW n \in Nat, NEW K \in SUBSET (1..n),
         Lists(list, names, K), names[n + 1] \in S
  PROVE  Lists(Append(list, names[n + 1]), names, K \cup {n + 1})
<1> DEFINE more == Append(list, names[n + 1])
<1>1. /\ Len(more) = Len(list) + 1 /\ Len(list) \in Nat
      /\ \A i \in 1..Len(list) : more[i] = list[i]
      /\ more[Len(list) + 1] = names[n + 1]
      /\ DOMAIN list = 1..Len(list) /\ DOMAIN more = 1..(Len(list) + 1)
  OBVIOUS
<1> HIDE DEF more
<1>2. {list[i] : i \in 1..Len(list)} = {names[k] : k \in K}
  BY <1>1 DEF Lists, Range
<1>3. {more[i] : i \in 1..(Len(list) + 1)} = {names[k] : k \in K \cup {n + 1}}
  <2>1. \A i \in 1..(Len(list) + 1) : i \in 1..Len(list) \/ i = Len(list) + 1
    BY <1>1
  <2>2. \A i \in 1..Len(list) : i \in 1..(Len(list) + 1)
    BY <1>1
  <2>3. Len(list) + 1 \in 1..(Len(list) + 1)
    BY <1>1
  <2>4. ASSUME NEW i \in 1..(Len(list) + 1) PROVE \E k \in K \cup {n + 1} : more[i] = names[k]
    BY <1>1, <1>2, <2>1
  <2>5. ASSUME NEW k \in K PROVE \E i \in 1..(Len(list) + 1) : more[i] = names[k]
    <3>1. PICK i \in 1..Len(list) : list[i] = names[k]
      BY <1>2
    <3>2. QED
      BY <1>1, <2>2, <3>1
  <2>6. \E i \in 1..(Len(list) + 1) : more[i] = names[n + 1]
    BY <1>1, <2>3
  <2>7. \A k \in K \cup {n + 1} : \E i \in 1..(Len(list) + 1) : more[i] = names[k]
    BY <2>5, <2>6
  <2>8. ASSUME NEW x \in {more[i] : i \in 1..(Len(list) + 1)}
        PROVE  x \in {names[k] : k \in K \cup {n + 1}}
    <3>1. PICK i \in 1..(Len(list) + 1) : x = more[i]
      OBVIOUS
    <3>2. PICK k \in K \cup {n + 1} : more[i] = names[k]
      BY <2>4
    <3>3. QED
      BY <3>1, <3>2
  <2>9. ASSUME NEW x \in {names[k] : k \in K \cup {n + 1}}
        PROVE  x \in {more[i] : i \in 1..(Len(list) + 1)}
    <3>1. PICK k \in K \cup {n + 1} : x = names[k]
      OBVIOUS
    <3>2. PICK i \in 1..(Len(list) + 1) : more[i] = names[k]
      BY <2>7
    <3>3. QED
      BY <3>1, <3>2
  <2>10. QED
    BY <2>8, <2>9
<1>4. ASSUME NEW i \in 1..Len(more), NEW j \in 1..Len(more), i < j
      PROVE  \E k, l \in K \cup {n + 1} : k < l /\ more[i] = names[k] /\ more[j] = names[l]
  <2>1. i \in 1..Len(list) /\ more[i] = list[i]
    BY <1>1, <1>4
  <2>2. CASE j \in 1..Len(list)
    <3>1. PICK k, l \in K : k < l /\ list[i] = names[k] /\ list[j] = names[l]
      BY <1>4, <2>1, <2>2 DEF Lists
    <3>2. QED
      BY <1>1, <2>1, <2>2, <3>1
  <2>3. CASE j = Len(list) + 1
    <3>1. PICK k \in K : list[i] = names[k]
      BY <1>2, <2>1
    <3>2. k < n + 1
      OBVIOUS
    <3>3. QED
      BY <1>1, <2>1, <2>3, <3>1, <3>2
  <2>4. QED
    BY <1>1, <2>2, <2>3
<1>5. QED
  BY <1>1, <1>3, <1>4 DEF Lists, Range, more

LEMMA NothingListed ==
  ASSUME NEW names
  PROVE  Lists(<< >>, names, {})
BY DEF Lists, Range

LEMMA InitListInv == Init => ListInv
BY DEF Init, ListInv, ReasonsComplete, Answered

LEMMA GateListInv ==
  ASSUME Inv, ListInv, PassGate
  PROVE  ListInv'
<1>1. /\ phase = "gates" /\ phase' = "gates" /\ at \in 1..6 /\ at' = at + 1
      /\ failures \in Seq(Reasons) /\ UNCHANGED question
  BY AtGate
<1>2. /\ Lists(failures, Gates, FailedGates(at - 1))
      /\ at - 1 \in Nat /\ FailedGates(at - 1) \in SUBSET (1..(at - 1))
  BY <1>1 DEF ListInv, FailedGates
<1>3. FailedGates(at - 1)' = {k \in 1..at : GateFails(Gates[k])}
  BY <1>1, SameQuestion DEF FailedGates
<1>4. CASE GateFails(Gates[at])
  <2>1. FailedGates(at - 1)' = FailedGates(at - 1) \cup {at}
    <3>1. \A k : k \in 1..at <=> k \in 1..(at - 1) \/ k = at
      BY <1>1
    <3>2. QED
      BY <1>3, <1>4, <3>1 DEF FailedGates
  <2>2. failures' = Append(failures, Gates[at])
    BY <1>4 DEF PassGate
  <2>3. Gates[at] \in Reasons
    BY <1>1, Entries DEF Reasons
  <2>4. Lists(Append(failures, Gates[at]), Gates, FailedGates(at - 1) \cup {at})
    <3>1. PICK n \in Nat : n = at - 1 /\ n + 1 = at
      BY <1>1
    <3>2. QED
      BY <1>1, <1>2, <2>3, <3>1, ListsAppended
  <2>5. QED
    BY <1>1, <2>1, <2>2, <2>4 DEF ListInv, ReasonsComplete, Answered, Lists
<1>5. CASE ~GateFails(Gates[at])
  <2>1. FailedGates(at - 1)' = FailedGates(at - 1)
    BY <1>1, <1>3, <1>5 DEF FailedGates
  <2>2. failures' = failures
    BY <1>5 DEF PassGate
  <2>3. QED
    BY <1>1, <1>2, <2>1, <2>2 DEF ListInv, ReasonsComplete, Answered, Lists
<1>6. QED
  BY <1>4, <1>5

LEMMA StartListInv ==
  ASSUME Inv, ListInv, StartEvaluation
  PROVE  ListInv'
<1>1. /\ phase = "gates" /\ phase' = "dimensions" /\ at = 7 /\ at' = 1
      /\ failed = << >> /\ failed' = << >> /\ failures' = failures /\ UNCHANGED question
  BY Lengths DEF Inv, StartEvaluation
<1>2. Lists(failures, Gates, FailedGates(6))
  <2>1. at - 1 = 6
    BY <1>1
  <2>2. QED
    BY <1>1, <2>1 DEF ListInv
<1>3. FailedGates(6)' = FailedGates(6)
  BY <1>1, SameQuestion DEF FailedGates
<1>4. FailedDimensions(at - 1)' = {}
  BY <1>1 DEF FailedDimensions
<1>5. Lists(failed', Dimensions, {})
  BY <1>1, NothingListed
<1>6. QED
  BY <1>1, <1>2, <1>3, <1>4, <1>5 DEF ListInv, ReasonsComplete, Answered, Lists

LEMMA CompareListInv ==
  ASSUME Inv, ListInv, CompareDimension
  PROVE  ListInv'
<1>1. /\ phase = "dimensions" /\ phase' = "dimensions" /\ at \in 1..26 /\ at' = at + 1
      /\ failed \in Seq(Range(Dimensions)) /\ failures' = failures /\ UNCHANGED question
  BY AtDimension
<1>2. /\ Lists(failed, Dimensions, FailedDimensions(at - 1)) /\ Lists(failures, Gates, FailedGates(6))
      /\ at - 1 \in Nat /\ FailedDimensions(at - 1) \in SUBSET (1..(at - 1))
  BY <1>1 DEF ListInv, FailedDimensions
<1>3. /\ FailedDimensions(at - 1)' = {k \in 1..at : Fails(Dimensions[k])}
      /\ FailedGates(6)' = FailedGates(6)
  BY <1>1, SameQuestion DEF FailedDimensions, FailedGates
<1>4. CASE Fails(Dimensions[at])
  <2>1. FailedDimensions(at - 1)' = FailedDimensions(at - 1) \cup {at}
    <3>1. \A k : k \in 1..at <=> k \in 1..(at - 1) \/ k = at
      BY <1>1
    <3>2. QED
      BY <1>3, <1>4, <3>1 DEF FailedDimensions
  <2>2. failed' = Append(failed, Dimensions[at])
    BY <1>4 DEF CompareDimension
  <2>3. Dimensions[at] \in Range(Dimensions)
    BY <1>1, Entries
  <2>4. Lists(Append(failed, Dimensions[at]), Dimensions, FailedDimensions(at - 1) \cup {at})
    <3>1. PICK n \in Nat : n = at - 1 /\ n + 1 = at
      BY <1>1
    <3>2. QED
      BY <1>1, <1>2, <2>3, <3>1, ListsAppended
  <2>5. QED
    BY <1>1, <1>2, <1>3, <2>1, <2>2, <2>4 DEF ListInv, ReasonsComplete, Answered, Lists
<1>5. CASE ~Fails(Dimensions[at])
  <2>1. FailedDimensions(at - 1)' = FailedDimensions(at - 1)
    BY <1>1, <1>3, <1>5 DEF FailedDimensions
  <2>2. failed' = failed
    BY <1>5 DEF CompareDimension
  <2>3. QED
    BY <1>1, <1>2, <1>3, <2>1, <2>2 DEF ListInv, ReasonsComplete, Answered, Lists
<1>6. QED
  BY <1>4, <1>5

(* The two lists, one behind the other, are their concatenation's parts. *)
LEMMA TwoParts ==
  ASSUME NEW S, NEW p \in Seq(S), NEW q \in Seq(S)
  PROVE  /\ Len(p) \in 0..Len(p \o q)
         /\ SubSeq(p \o q, 1, Len(p)) = p
         /\ SubSeq(p \o q, Len(p) + 1, Len(p \o q)) = q
<1>1. /\ Len(p) \in Nat /\ Len(q) \in Nat /\ Len(p \o q) = Len(p) + Len(q) /\ p \o q \in Seq(S)
      /\ \A i \in 1..Len(p) : (p \o q)[i] = p[i]
      /\ \A i \in 1..Len(q) : (p \o q)[Len(p) + i] = q[i]
  OBVIOUS
<1>2. /\ Len(SubSeq(p \o q, 1, Len(p))) = Len(p)
      /\ \A i \in 1..Len(p) : SubSeq(p \o q, 1, Len(p))[i] = p[i]
      /\ SubSeq(p \o q, 1, Len(p)) \in Seq(S)
  BY <1>1
<1>3. /\ Len(SubSeq(p \o q, Len(p) + 1, Len(p \o q))) = Len(q)
      /\ \A i \in 1..Len(q) : SubSeq(p \o q, Len(p) + 1, Len(p \o q))[i] = q[i]
      /\ SubSeq(p \o q, Len(p) + 1, Len(p \o q)) \in Seq(S)
  BY <1>1
<1>4. QED
  BY <1>1, <1>2, <1>3

LEMMA ConcludeListInv ==
  ASSUME Inv, ListInv, Conclude
  PROVE  ListInv'
<1>1. /\ phase = "dimensions" /\ phase' = "done" /\ at = 27 /\ failed' = failed
      /\ UNCHANGED question
      /\ failures \in Seq(Reasons) /\ failed \in Seq(Range(Dimensions)) /\ WorstSoFar
  <2>1. phase = "dimensions" /\ at = 27
    BY Lengths DEF Conclude
  <2>2. failures \in Seq(Reasons) /\ failed \in Seq(Range(Dimensions)) /\ WorstSoFar
    BY <2>1 DEF Inv, TypeOK, Reasons
  <2>3. QED
    BY <2>1, <2>2 DEF Conclude
<1>2. Lists(failures, Gates, FailedGates(6)) /\ Lists(failed, Dimensions, FailedDimensions(26))
  <2>1. at - 1 = 26
    BY <1>1
  <2>2. QED
    BY <1>1, <2>1 DEF ListInv
<1>3. failed \in Seq(Reasons)
  <2>1. Range(Dimensions) \subseteq Reasons
    BY DEF Reasons
  <2>2. QED
    BY <1>1, <2>1, LongerAlphabet
<1>4. failures' = failures \o failed
  <2>1. failed = << >> => failures \o failed = failures
    BY <1>1
  <2>2. QED
    BY <1>1, <2>1 DEF Conclude, WorstSoFar
<1>5. /\ Len(failures) \in 0..Len(failures')
      /\ SubSeq(failures', 1, Len(failures)) = failures
      /\ SubSeq(failures', Len(failures) + 1, Len(failures')) = failed'
  BY <1>1, <1>3, <1>4, TwoParts
<1>6. /\ {k \in 1..Len(Gates) : GateFails(Gates[k])'} = FailedGates(6)
      /\ {k \in 1..Len(Dimensions) : Fails(Dimensions[k])'} = FailedDimensions(26)
  BY <1>1, SameQuestion, Lengths DEF FailedGates, FailedDimensions
<1>7. /\ Lists(SubSeq(failures', 1, Len(failures)), Gates, {k \in 1..Len(Gates) : GateFails(Gates[k])'})
      /\ Lists(failed', Dimensions, {k \in 1..Len(Dimensions) : Fails(Dimensions[k])'})
  BY <1>1, <1>2, <1>5, <1>6
<1>8. \E n \in 0..Len(failures') :
        /\ Lists(SubSeq(failures', 1, n), Gates, {k \in 1..Len(Gates) : GateFails(Gates[k])'})
        /\ SubSeq(failures', n + 1, Len(failures')) = failed'
  BY <1>5, <1>7
<1>9. ReasonsComplete'
  BY <1>7, <1>8 DEF ReasonsComplete, Lists
<1>10. QED
  BY <1>1, <1>9 DEF ListInv

LEMMA BeginListInv ==
  ASSUME NEW d, NEW q, NEW i, Begins(d, q, i)
  PROVE  ListInv'
<1>1. phase' = "gates" /\ at' = 1 /\ failures' = << >>
  BY DEF Begins
<1>2. FailedGates(at - 1)' = {}
  BY <1>1 DEF FailedGates
<1>3. Lists(failures', Gates, {})
  BY <1>1, NothingListed
<1>4. QED
  BY <1>1, <1>2, <1>3 DEF ListInv, ReasonsComplete, Answered, Lists

LEMMA AroundListInv ==
  ASSUME ReuseUnknown \/ Return
  PROVE  ListInv'
BY DEF ReuseUnknown, Return, ListInv, ReasonsComplete, Answered

LEMMA NextListInv ==
  ASSUME Inv, ListInv, [Next]_vars
  PROVE  ListInv'
<1>1. ASSUME NEW d, NEW q, NEW i, Begins(d, q, i) PROVE ListInv'
  BY <1>1, BeginListInv
<1>2. ASSUME UNCHANGED vars PROVE ListInv'
  <2>1. /\ UNCHANGED question /\ phase' = phase /\ at' = at /\ failures' = failures
        /\ failed' = failed /\ desc' = desc
    BY <1>2 DEF vars, question
  <2>2. /\ \A n : {k \in 1..n : GateFails(Gates[k])'} = {k \in 1..n : GateFails(Gates[k])}
        /\ \A n : {k \in 1..n : Fails(Dimensions[k])'} = {k \in 1..n : Fails(Dimensions[k])}
    BY <2>1, SameQuestion
  <2>3. ReasonsComplete' <=> ReasonsComplete
    <3>1. Answered' <=> Answered
      BY <2>1 DEF Answered
    <3>2. /\ {k \in 1..Len(Gates) : GateFails(Gates[k])'} = {k \in 1..Len(Gates) : GateFails(Gates[k])}
          /\ {k \in 1..Len(Dimensions) : Fails(Dimensions[k])'}
               = {k \in 1..Len(Dimensions) : Fails(Dimensions[k])}
      BY <2>2
    <3>3. QED
      BY <2>1, <3>1, <3>2 DEF ReasonsComplete
  <2>4. /\ FailedGates(at - 1)' = FailedGates(at - 1)
        /\ FailedGates(6)' = FailedGates(6)
        /\ FailedDimensions(at - 1)' = FailedDimensions(at - 1)
    BY <2>1, <2>2 DEF FailedGates, FailedDimensions
  <2>5. QED
    BY <2>1, <2>3, <2>4 DEF ListInv, Lists
<1>3. QED
  BY <1>1, <1>2, GateListInv, StartListInv, CompareListInv, ConcludeListInv, AroundListInv
  DEF Next, CheckReuse, Reuse

(* The reasons check_reuse gives are all there are, each list in the order *)
(* of the code, for every descriptor, requirement and inputs (reuse.cpp,   *)
(* compat.cpp).                                                            *)
THEOREM CompleteReasons == Spec => []ReasonsComplete
<1>1. Inv /\ ListInv /\ [Next]_vars => ListInv'
  BY NextListInv
<1>2. ListInv => ReasonsComplete
  BY DEF ListInv
<1>3. QED
  BY <1>1, <1>2, InitListInv, SpecInv, PTL DEF Spec
=============================================================================
