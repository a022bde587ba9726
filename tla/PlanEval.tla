------------------------------ MODULE PlanEval ------------------------------
(***************************************************************************)
(* The saved-plan contract and its classification                          *)
(* (go/internal/plan/contract.go, go/internal/assessment/eval.go, and the  *)
(* apply gates of go/internal/assessment/exact_plan_apply.go), as          *)
(* operators over an abstract `terraform show -json` document.             *)
(*                                                                         *)
(* A plan is a record                                                      *)
(*   [complete, errored, outputsOK : BOOLEAN, changes, drift : set of      *)
(*    change records],                                                     *)
(* a change record is                                                      *)
(*   [address, actions, importing, before, after, unknown, identity,       *)
(*    sensitivity]                                                         *)
(* where before/after give every attribute its value, unknown is the set   *)
(* of paths that after_unknown marks, and identity / sensitivity tell      *)
(* whether the two sides' identity or sensitivity metadata differ.         *)
(*                                                                         *)
(* An attribute is a scalar, or an array written as a sequence of scalars. *)
(* Arrays of SetAttrs are Terraform sets by the provider's schema; every   *)
(* other array is positional.  `Null` is JSON null: an absent value, and   *)
(* inside an array a value unknown until apply.  Round gives the binary64  *)
(* rounding that canonjson.JSONEqual compares non-integers under, so that  *)
(* two distinct scalars may be equal to the value walk.                    *)
(***************************************************************************)
EXTENDS Integers, Sequences, FiniteSets, Absent

CONSTANTS
    Attrs,      \* the attributes of the modelled resource type
    SetAttrs,   \* those the provider schema declares a set
    ListAttrs,  \* those that are positional arrays
    Scalars,    \* scalar JSON values
    Round       \* [Scalars -> Scalars], equality of the lossy comparison

ASSUME AttrsAssumption ==
    /\ SetAttrs \subseteq Attrs
    /\ ListAttrs \subseteq Attrs
    /\ SetAttrs \cap ListAttrs = {}
    /\ Round \in [Scalars -> Scalars]
    /\ Null \notin Scalars

Clean     == "clean"
Tolerated == "tolerated"
Blocked   == "blocked"

\* Synthetic path markers.
OpaqueUpdate      == <<"<opaque_update>">>
IdentityChange    == <<"<identity_change>">>
SensitivityChange == <<"<sensitivity_change>">>

ArrayAttrs == SetAttrs \cup ListAttrs

-----------------------------------------------------------------------------
(* Value comparison; Null is JSON null *)

\* PythonJSONEqual on one scalar (or null).
ScalarPyEqual(x, y) == IF x = Null \/ y = Null THEN x = y ELSE Round[x] = Round[y]

\* PythonJSONEqual on one attribute value.
PyEqual(a, x, y) ==
    IF a \in ArrayAttrs /\ x # Null /\ y # Null
    THEN /\ Len(x) = Len(y)
         /\ \A i \in 1..Len(x) : ScalarPyEqual(x[i], y[i])
    ELSE IF a \in ArrayAttrs THEN x = y ELSE ScalarPyEqual(x, y)

Occurrences(m, s) == Cardinality({i \in 1..Len(s) : s[i] = m})

\* A null in a set's array is a placeholder, so its membership is unknown.
HasPlaceholder(s) == \E i \in 1..Len(s) : s[i] = Null

\* Members that multisetDelta reports as added (y against x) or removed.
MultisetDelta(x, y) ==
    {m \in Scalars : Occurrences(m, x) # Occurrences(m, y)}

\* setMembership answers "determinate, nothing added, nothing removed".
SameMembership(x, y) ==
    /\ ~HasPlaceholder(x) /\ ~HasPlaceholder(y)
    /\ MultisetDelta(x, y) = {}

At(s, i) == IF i <= Len(s) THEN s[i] ELSE Null

\* diffPathsAt below one top-level attribute that is not a set.
PositionalPaths(a, x, y) ==
    IF PyEqual(a, x, y) THEN {}
    ELSE IF a \in ArrayAttrs /\ x # Null /\ y # Null
         THEN LET n == IF Len(x) > Len(y) THEN Len(x) ELSE Len(y)
              IN  {<<a, i>> : i \in {j \in 1..n : ~ScalarPyEqual(At(x, j), At(y, j))}}
         ELSE {<<a>>}

\* setAttributePaths: one path when membership moved or cannot be decided.
SetAttributePaths(a, x, y) ==
    IF x = Null \/ y = Null
    THEN PositionalPaths(a, x, y)
    ELSE IF SameMembership(x, y) THEN {} ELSE {<<a>>}

\* DiffPathsWithSets over the whole record: the walk stops at the root when
\* the two objects are equal under the lossy comparison.
ValuePaths(c) ==
    IF \A a \in Attrs : PyEqual(a, c.before[a], c.after[a])
    THEN {}
    ELSE UNION {IF a \in SetAttrs
                THEN SetAttributePaths(a, c.before[a], c.after[a])
                ELSE PositionalPaths(a, c.before[a], c.after[a]) : a \in Attrs}

\* collapseSetPaths: a path into a set becomes the set attribute itself.
CollapseSetPath(p) == IF Len(p) > 1 /\ p[1] \in SetAttrs THEN <<p[1]>> ELSE p

\* updatePathsFrom: what an update changes, never empty.
UpdatePaths(c) ==
    LET seen == ValuePaths(c)
                  \cup {CollapseSetPath(p) : p \in c.unknown}
                  \cup (IF c.identity THEN {IdentityChange} ELSE {})
                  \cup (IF c.sensitivity THEN {SensitivityChange} ELSE {})
    IN  IF seen = {} THEN {OpaqueUpdate} ELSE seen

\* Mutant: the walk that looks for differences is the lossy one.
ExplainedUnderLossyEquality(c) ==
    LET moved == {a \in Attrs : ~PyEqual(a, c.before[a], c.after[a])}
    IN  /\ moved # {}
        /\ \A a \in moved : /\ a \in SetAttrs
                            /\ c.before[a] # Null /\ c.after[a] # Null
                            /\ SameMembership(c.before[a], c.after[a])

\* explainedBySetEquality: every exact difference is a set with equal members.
ExplainedBySetEquality(c) ==
    LET moved == {a \in Attrs : c.before[a] # c.after[a]}
    IN  /\ moved # {}
        /\ \A a \in moved : /\ a \in SetAttrs
                            /\ c.before[a] # Null /\ c.after[a] # Null
                            /\ SameMembership(c.before[a], c.after[a])

-----------------------------------------------------------------------------
(* The plan contract *)

SupportedActionSequences ==
    {<<"no-op">>, <<"create">>, <<"read">>, <<"update">>, <<"delete">>, <<"forget">>,
     <<"delete", "create">>, <<"create", "delete">>, <<"create", "forget">>}

HasAction(c, action) == \E i \in 1..Len(c.actions) : c.actions[i] = action

OnlyNoOp(c) == \A i \in 1..Len(c.actions) : c.actions[i] = "no-op"

\* validateChangeRecord: a no-op record must carry nothing that changes.
ValidChangeRecord(c) ==
    /\ c.actions \in SupportedActionSequences
    /\ c.actions = <<"no-op">> => /\ \A a \in Attrs : PyEqual(a, c.before[a], c.after[a])
                                  /\ c.unknown = {}
                                  /\ ~c.identity
                                  /\ ~c.sensitivity

ImportingCreate(c) == c.importing /\ c.actions = <<"create">>

ImportOnlyPlanShape(plan) ==
    /\ \E c \in plan.changes : c.importing
    /\ \A c \in plan.changes :
         IF c.importing THEN OnlyNoOp(c) \/ c.actions = <<"create">> ELSE OnlyNoOp(c)

ImportingAddresses(plan) == {c.address : c \in {d \in plan.changes : d.importing}}

\* An attestation is Null or carries the -target addresses of its argv.
AcceptIncompleteTargetedImportOnlyPlan(plan, attested) ==
    /\ attested # Null
    /\ attested.targets # {}
    /\ ImportOnlyPlanShape(plan)
    /\ attested.targets = ImportingAddresses(plan)

\* Mutant: the import-only stance is not asked for.
PostImportMayChange(plan, attested, scope) ==
    /\ attested # Null
    /\ scope # Null
    /\ scope # {}
    /\ ~plan.complete
    /\ attested.targets # {}
    /\ attested.targets = scope

\* A scope is Null or the set of staged import addresses.
AcceptIncompleteTargetedPostImportPlan(plan, attested, scope) ==
    /\ attested # Null
    /\ scope # Null
    /\ scope # {}
    /\ ~plan.complete
    /\ attested.targets # {}
    /\ attested.targets = scope
    /\ \A c \in plan.changes : c.actions = <<"no-op">>

ValidateAssessmentPlan(plan, attested, scope) ==
    /\ \/ plan.complete
       \/ AcceptIncompleteTargetedImportOnlyPlan(plan, attested)
       \/ AcceptIncompleteTargetedPostImportPlan(plan, attested, scope)
    /\ ~plan.errored
    /\ \A c \in plan.changes \cup plan.drift : ValidChangeRecord(c)
    /\ plan.outputsOK

-----------------------------------------------------------------------------
(* Classification *)

\* classifyChange: the findings of one record (at most one status).  A policy
\* is Null or the set of update paths it tolerates.
ClassifyChange(c, policy) ==
    LET paths == UpdatePaths(c)
    IN  CASE OnlyNoOp(c)           -> {}
          [] ImportingCreate(c)    -> {Clean}
          [] ~OnlyNoOp(c) /\ ~ImportingCreate(c)
               /\ ~HasAction(c, "update") -> {Blocked}
          [] HasAction(c, "update") ->
               IF /\ paths = {OpaqueUpdate}
                  /\ c.unknown = {}
                  /\ ExplainedBySetEquality(c)
               THEN {Clean}
               ELSE IF policy # Null /\ paths \subseteq policy
                    THEN {Tolerated}
                    ELSE {Blocked}

InScope(c, scope) == scope = Null \/ c.address \in scope

\* The statuses of all findings; refresh drift is demoted on request.
FindingStatuses(plan, policy, scope, tolerateDrift) ==
    LET ofChanges == UNION {ClassifyChange(c, policy) :
                              c \in {d \in plan.changes : InScope(d, scope)}}
        ofDrift   == UNION {ClassifyChange(c, policy) :
                              c \in {d \in plan.drift : InScope(d, scope)}}
    IN  ofChanges \cup
        (IF tolerateDrift /\ Blocked \in ofDrift
         THEN (ofDrift \ {Blocked}) \cup {Tolerated}
         ELSE ofDrift)

ClassifyPlan(plan, policy, scope, tolerateDrift) ==
    LET found == FindingStatuses(plan, policy, scope, tolerateDrift)
    IN  IF Blocked \in found THEN Blocked
        ELSE IF Tolerated \in found THEN Tolerated ELSE Clean

-----------------------------------------------------------------------------
(* The gates of an exact apply *)

\* Mutant: the refresh-drift section is not searched.
DestroysInChangesOnly(plan) == \E c \in plan.changes : HasAction(c, "delete")

\* exactApplyDestroyCount is not zero.
ExactApplyDestroys(plan) ==
    \E c \in plan.changes \cup plan.drift : HasAction(c, "delete")

\* Mutant: targeted imports are not excused.
CompleteOnly(plan, attested) == plan.complete

\* requireExactApplyTypedComplete.
TypedComplete(plan, attested) ==
    plan.complete \/ AcceptIncompleteTargetedImportOnlyPlan(plan, attested)

\* The stance of an apply follows from the plan alone.
ApplyClassification(plan, policy) ==
    ClassifyPlan(plan, policy, Null, ImportOnlyPlanShape(plan))

\* Everything applyExactPlanRoot requires of the shown plan.
ApplyGate(plan, policy, attested, allowDestroy, allowPlanChanges) ==
    /\ TypedComplete(plan, attested)
    /\ ValidateAssessmentPlan(plan, attested, Null)
    /\ ~(/\ ClassifyPlan(plan, policy, Null, FALSE) = Blocked
         /\ ExactApplyDestroys(plan)
         /\ ~allowDestroy)
    /\ ~(ApplyClassification(plan, policy) = Blocked /\ ~allowPlanChanges)
-----------------------------------------------------------------------------
(* Reference: what a plan may do, stated on the meaning of its values       *)

\* Nothing moved: sets compare by members, everything else exactly.
SameMeaning(c) ==
    /\ \A a \in Attrs :
         \/ c.before[a] = c.after[a]
         \/ /\ a \in SetAttrs
            /\ c.before[a] # Null /\ c.after[a] # Null
            /\ ~HasPlaceholder(c.before[a]) /\ ~HasPlaceholder(c.after[a])
            /\ \A m \in Scalars :
                 Occurrences(m, c.before[a]) = Occurrences(m, c.after[a])
    /\ c.unknown = {} /\ ~c.identity /\ ~c.sensitivity

\* What a resource change may do without anybody's consent.
Harmless(c, policy) ==
    \/ OnlyNoOp(c)
    \/ c.importing /\ c.actions = <<"create">>
    \/ c.actions = <<"update">> /\ SameMeaning(c)
    \/ c.actions = <<"update">> /\ policy # Null /\ UpdatePaths(c) \subseteq policy

Deletes(c) == \E i \in 1..Len(c.actions) : c.actions[i] = "delete"

ImportsOnly(plan) ==
    \A c \in plan.changes :
      OnlyNoOp(c) \/ (c.importing /\ c.actions = <<"create">>)

\* What an apply may do under its policy and overrides; with an incomplete
\* plan, only import.
Consented(plan, policy, allowDestroy, allowPlanChanges) ==
    /\ plan.complete \/ ImportsOnly(plan)
    /\ allowDestroy \/ \A c \in plan.changes \cup plan.drift : ~Deletes(c)
    /\ \/ allowPlanChanges
       \/ /\ \A c \in plan.changes : Harmless(c, policy)
          /\ ImportsOnly(plan) \/ \A c \in plan.drift : Harmless(c, policy)
=============================================================================
