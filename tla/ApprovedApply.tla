---------------------------- MODULE ApprovedApply ----------------------------
(***************************************************************************)
(* What exact apply promises to those who review saved plans, without the  *)
(* evidence, files and rechecks it needs for it (ApplyExactSavedPlans in   *)
(* go/internal/assessment/exact_plan_apply.go): under one set of terms,    *)
(* the selected roots are applied in order, each at most once and each     *)
(* with a plan that the terms approve; the first failure is the last       *)
(* apply; and a run that succeeds applied them all and leaves none of the  *)
(* applied plans to be applied again.                                      *)
(***************************************************************************)
EXTENDS Integers, Sequences

CONSTANTS
    Order,            \* the roots in the order they are taken
    Approves(_, _)    \* Approves(terms, plan)

VARIABLES
    outcome,   \* "none" before a run and after a kill, "running", "done" or "failed"
    roots,     \* the selected roots
    applied,   \* what was applied: root, plan, terms, and whether it succeeded
    left       \* the roots whose applied plan is still the saved one

vars == <<outcome, roots, applied, left>>

RootsApplied == {applied[n].root : n \in DOMAIN applied}
AllWell == \A n \in DOMAIN applied : applied[n].ok
Earlier(r) == {Order[i] : i \in {j \in DOMAIN Order : \E k \in DOMAIN Order : j < k /\ Order[k] = r}}

Init == outcome = "none" /\ roots = {} /\ applied = <<>> /\ left = {}

\* A run begins, or is refused at once; roots are selected before the first apply.
Begin ==
    /\ outcome # "running"
    /\ outcome' \in {"running", "failed"}
    /\ roots' = {} /\ applied' = <<>> /\ left' = {}
Select ==
    /\ outcome = "running" /\ roots = {} /\ roots' # {}
    /\ UNCHANGED <<outcome, applied, left>>

\* The next root, with an approved plan under the terms of the run.
ApplyRoot ==
    LET e == applied'[Len(applied) + 1]
    IN  /\ outcome = "running" /\ AllWell
        /\ Len(applied') = Len(applied) + 1
        /\ SubSeq(applied', 1, Len(applied)) = applied
        /\ e.root \in roots \ RootsApplied
        /\ roots \cap Earlier(e.root) = RootsApplied
        /\ Approves(e.terms, e.plan)
        /\ \A n \in DOMAIN applied : applied[n].terms = e.terms
        /\ left' \subseteq left \cup {e.root}
        /\ UNCHANGED <<outcome, roots>>
\* The saved plan of an applied root goes, removed by the run or replaced by another.
Consume ==
    /\ left' \subseteq left /\ left' # left
    /\ UNCHANGED <<outcome, roots, applied>>

Succeed ==
    /\ outcome = "running" /\ AllWell /\ roots # {} /\ RootsApplied = roots /\ left = {}
    /\ outcome' = "done"
    /\ UNCHANGED <<roots, applied, left>>
Fail == outcome = "running" /\ outcome' = "failed" /\ UNCHANGED <<roots, applied, left>>
Kill == outcome = "running" /\ outcome' = "none" /\ roots' = {} /\ applied' = <<>> /\ left' = {}

Next == Begin \/ Select \/ ApplyRoot \/ Consume \/ Succeed \/ Fail \/ Kill
Spec == Init /\ [][Next]_vars
=============================================================================
